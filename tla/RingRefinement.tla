--------------------------- MODULE RingRefinement ---------------------------
(***************************************************************************)
(* What the ring looks like from outside: a bounded FIFO queue whose       *)
(* linearization points are the successful compare-and-swaps on tail and   *)
(* head, and, with one consumer, the queue with slots that the model of    *)
(* the engine is built on.                                                 *)
(***************************************************************************)
EXTENDS RingBuf

Values(c) ==
  [k \in 1..Len(out[c]) |-> out[c][k][2]]
    \o (IF pc[c] = "marshal" THEN << log[hpos[c] + 1] >> ELSE << >>)

Abstract == INSTANCE BoundedQueue WITH
  Capacity <- QueueSize,
  CanEvict <- Policy = "DropOldest",
  queue    <- SubSeq(log, head + 1, tail),
  received <- [c \in Consumers |-> Values(c)],
  lost     <- {log[k] : k \in {j \in 1..Len(taken) : taken[j] \in Producers}}

\* Every behaviour of the ring is one of a bounded FIFO queue: a Push appends or
\* does nothing, popMarshal hands out the oldest item, evictOldest loses it.
RefinesQueue == Abstract!Spec

\* With one consumer, what the slots look like from outside.
TheConsumer == CHOOSE c \in Consumers : TRUE

SlotView == INSTANCE SlotQueue WITH
  Capacity <- QueueSize,
  CanEvict <- Policy = "DropOldest",
  queue    <- SubSeq(log, head + 1, tail),
  received <- [c \in Consumers |-> Values(c)],
  lost     <- {log[k] : k \in {j \in 1..Len(taken) : taken[j] \in Producers}},
  pending  <- {item[p] : p \in {r \in Producers : Claims(r)}},
  held     <- IF Holds(TheConsumer) THEN head - hpos[TheConsumer] ELSE 0,
  evicting <- {head - hpos[p] : p \in {r \in Producers : Holds(r)}}

\* The ring does what the engine's model of it may do: a Push gets a slot only if the
\* position a lap earlier was recycled, popMarshal and evictOldest take only what is
\* published, and a slot is free again only when its holder has recycled it.
RefinesSlots == SlotView!SlotSpec

=============================================================================
