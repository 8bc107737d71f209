----------------------------- MODULE SlotQueue ------------------------------
(***************************************************************************)
(* What the engine sees of tickbatch's ring beyond a bounded queue, with   *)
(* its one consumer, the drain goroutine.  An item enters the queue when a *)
(* producer claims a position and can be taken once it is published.  A    *)
(* position that was taken or evicted keeps its slot until it is recycled, *)
(* so a Push may find no slot although the queue is not full.              *)
(***************************************************************************)
EXTENDS BoundedQueue

VARIABLES
  pending,     \* the items claimed but not yet published
  held,        \* how far behind the head the consumer's slot is; 0 for none
  evicting     \* how far behind it the slots are that evictions have yet to recycle

slotVars == <<vars, pending, held, evicting>>

SlotInit == Init /\ pending = {} /\ held = 0 /\ evicting = {}

\* The slot a Push needs is that of the position Capacity before its own.
NoFreeSlot == \E d \in {0, held} \cup evicting : Len(queue) + d >= Capacity

HeadReady == queue # << >> /\ Head(queue) \notin pending

Claim(x) ==
  /\ ~NoFreeSlot
  /\ Enqueue(x)
  /\ pending' = pending \cup {x}
  /\ UNCHANGED <<held, evicting>>

Publish ==
  /\ \E x \in pending : pending' = pending \ {x}
  /\ UNCHANGED <<vars, held, evicting>>

\* The head moves past one more position.
Farther(distances) == {d + 1 : d \in distances}

Take(c) ==
  /\ HeadReady /\ held = 0
  /\ Dequeue(c)
  /\ held' = 1
  /\ evicting' = Farther(evicting)
  /\ UNCHANGED pending

Release ==
  /\ held # 0
  /\ held' = 0
  /\ UNCHANGED <<vars, pending, evicting>>

EvictHead ==
  /\ HeadReady
  /\ Evict
  /\ held' = IF held = 0 THEN 0 ELSE held + 1
  /\ evicting' = Farther(evicting) \cup {1}
  /\ UNCHANGED pending

Recycle ==
  /\ \E d \in evicting : evicting' = evicting \ {d}
  /\ UNCHANGED <<vars, pending, held>>

SlotNext ==
  \/ (\E x \in Items : Claim(x)) \/ Publish
  \/ (\E c \in Consumers : Take(c)) \/ Release
  \/ EvictHead \/ Recycle

SlotSpec == SlotInit /\ [][SlotNext]_slotVars

=============================================================================
