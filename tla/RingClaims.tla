----------------------------- MODULE RingClaims -----------------------------
(***************************************************************************)
(* What the comment of DropOldest says, as a property of the ring.         *)
(***************************************************************************)
EXTENDS RingBuf

\* DropOldest's comment: it "evicts the oldest queued item to make room for the
\* incoming one".  An item is evicted only from a full buffer, where its slot is
\* the one the incoming item needs.
EvictsOnlyToMakeRoom ==
  [][\A p \in Producers :
       pc[p] = "evictCas" /\ pc'[p] = "evictRecycle" =>
         tail - head = QueueSize]_vars

=============================================================================
