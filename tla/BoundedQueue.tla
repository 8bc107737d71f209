---------------------------- MODULE BoundedQueue ----------------------------
(***************************************************************************)
(* What tickbatch's ring buffer promises its callers: a bounded FIFO queue *)
(* shared by producers and consumers.  A push either appends its item or   *)
(* leaves the queue alone; a pop removes the oldest item and hands exactly *)
(* that item to the consumer; under DropOldest the oldest item may be      *)
(* removed and lost instead.  Nothing is duplicated, reordered or changed. *)
(***************************************************************************)
EXTENDS Naturals, Sequences

CONSTANTS
  Capacity,    \* the number of items the queue holds at most
  Items,       \* the items producers push
  Consumers,   \* the consumers
  CanEvict     \* whether the policy lets a producer discard the oldest item

VARIABLES
  queue,       \* the accepted items that have not been taken, oldest first
  received,    \* received[c]: the items consumer c has taken, in its order
  lost         \* the items evicted from the queue

vars == <<queue, received, lost>>

Init ==
  /\ queue = << >>
  /\ received = [c \in Consumers |-> << >>]
  /\ lost = {}

Enqueue(x) ==
  /\ Len(queue) < Capacity
  /\ queue' = Append(queue, x)
  /\ UNCHANGED <<received, lost>>

Dequeue(c) ==
  /\ queue # << >>
  /\ received' = [received EXCEPT ![c] = Append(@, Head(queue))]
  /\ queue' = Tail(queue)
  /\ UNCHANGED lost

Evict ==
  /\ CanEvict
  /\ queue # << >>
  /\ lost' = lost \cup {Head(queue)}
  /\ queue' = Tail(queue)
  /\ UNCHANGED received

Next ==
  \/ \E x \in Items : Enqueue(x)
  \/ \E c \in Consumers : Dequeue(c)
  \/ Evict

Spec == Init /\ [][Next]_vars

=============================================================================
