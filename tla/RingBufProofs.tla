--------------------------- MODULE RingBufProofs ----------------------------
(***************************************************************************)
(* What follows from the steps and the inductive invariant of RingBuf: the *)
(* counts behind DroppedCount and EvictedCount are exact; no data races,   *)
(* queued and delivered items intact, a Push refused only when its slot is *)
(* taken; and the ring implements a bounded queue and the queue with slots.*)
(***************************************************************************)
EXTENDS RingBufInvariant, RingRefinement, FiniteSetTheorems, TLAPS

(* Sequences                                                               *)

\* What a sequence holds.
LEMMA SeqElement ==
  ASSUME NEW S, NEW s \in Seq(S), NEW k \in 1..Len(s)
  PROVE  s[k] \in S
OBVIOUS

\* Sequences with the same elements are equal.
LEMMA SeqSameElements ==
  ASSUME NEW S, NEW s \in Seq(S), NEW u \in Seq(S), Len(s) = Len(u), \A k \in 1..Len(s) : s[k] = u[k]
  PROVE  s = u
<1>1. s \in [1..Len(s) -> S] /\ u \in [1..Len(u) -> S]
  OBVIOUS
<1>2. s = [k \in 1..Len(s) |-> s[k]] /\ u = [k \in 1..Len(u) |-> u[k]]
  BY <1>1
<1> QED
  BY <1>2, Zenon

\* What Append adds, and what it keeps.
LEMMA AppendFacts ==
  ASSUME NEW S, NEW s \in Seq(S), NEW x \in S
  PROVE  /\ Append(s, x) \in Seq(S) /\ Len(Append(s, x)) = Len(s) + 1
         /\ Append(s, x)[Len(s) + 1] = x /\ \A k \in 1..Len(s) : Append(s, x)[k] = s[k]
OBVIOUS

\* Append is concatenation with one element.
LEMMA AppendAsConcat ==
  ASSUME NEW S, NEW s \in Seq(S), NEW x \in S
  PROVE  Append(s, x) = s \o << x >>
OBVIOUS

\* Concatenation with the empty sequence.
LEMMA ConcatNothing ==
  ASSUME NEW S, NEW s \in Seq(S)
  PROVE  s \o << >> = s /\ << >> \o s = s
OBVIOUS

\* The elements of a part of a sequence.
LEMMA SubSeqFacts ==
  ASSUME NEW S, NEW s, NEW m \in Int, NEW n \in Int, \A k \in m..n : s[k] \in S
  PROVE  /\ SubSeq(s, m, n) \in Seq(S)
         /\ Len(SubSeq(s, m, n)) = IF m <= n THEN (n - m) + 1 ELSE 0
         /\ \A k \in 1..((n - m) + 1) : SubSeq(s, m, n)[k] = s[(m + k) - 1]
OBVIOUS

\* A part without positions is empty.
LEMMA SubSeqNothing ==
  ASSUME NEW s, NEW m \in Int, NEW n \in Int, n < m
  PROVE  SubSeq(s, m, n) = << >>
OBVIOUS

\* Taking one more element at the end.
LEMMA SubSeqLast ==
  ASSUME NEW S, NEW s \in Seq(S), NEW m \in 1..Len(s), NEW n \in m..Len(s)
  PROVE  SubSeq(s, m, n) = SubSeq(s, m, n - 1) \o << s[n] >>
OBVIOUS

\* Taking one element less at the front.
LEMMA SubSeqHeadTail ==
  ASSUME NEW S, NEW s \in Seq(S), NEW m \in 1..Len(s), NEW n \in m..Len(s)
  PROVE  Head(SubSeq(s, m, n)) = s[m] /\ Tail(SubSeq(s, m, n)) = SubSeq(s, m + 1, n)
OBVIOUS

-----------------------------------------------------------------------------
(* The counters                                                            *)

Calls == {x \in Items : x[2] <= pushed[x[1]]}
Evictions == {k \in 1..Len(taken) : taken[k] \in Producers}

\* With finitely many producers, so are the sets that the counters are about.
LEMMA FiniteCounts ==
  ASSUME IsFiniteSet(Producers), TypeOK
  PROVE  /\ IsFiniteSet(Calls) /\ IsFiniteSet(Evictions)
         /\ IsFiniteSet(Undecided) /\ IsFiniteSet(Evicting)
         /\ Cardinality(Calls) \in Nat /\ Cardinality(Evictions) \in Nat
         /\ Cardinality(Undecided) \in Nat /\ Cardinality(Evicting) \in Nat
<1>1. IsFiniteSet(1..MaxPush) /\ IsFiniteSet(1..Len(taken))
  <2>1. MaxPush \in Int /\ 1 \in Int
    BY RingAssumption
  <2>2. Len(taken) \in Int
    BY DEF TypeOK
  <2> QED
    BY <2>1, <2>2, FS_Interval, ZenonT(30)
<1>2. IsFiniteSet(Items)
  BY <1>1, FS_Product, Zenon DEF Items
<1>3. /\ Calls \in SUBSET Items /\ Evictions \in SUBSET (1..Len(taken))
      /\ Undecided \in SUBSET Producers /\ Evicting \in SUBSET Producers
  BY Zenon DEF Calls, Evictions, Undecided, Evicting
<1>4. /\ IsFiniteSet(Calls) /\ IsFiniteSet(Evictions)
      /\ IsFiniteSet(Undecided) /\ IsFiniteSet(Evicting)
  BY <1>1, <1>2, <1>3, FS_Subset, ZenonT(30)
<1> QED
  BY <1>4, FS_CardinalityType, Zenon

\* Every step of push and evictOldest keeps the counters exact.
LEMMA CountersStep ==
  ASSUME IsFiniteSet(Producers), TypeOK, CountersExact, [Next]_vars
  PROVE  CountersExact'
<1>0. /\ log \in Seq(Items) /\ taken \in Seq(Threads) /\ Len(log) \in Nat /\ Len(taken) \in Nat
      /\ pushed \in [Producers -> 0..MaxPush] /\ MaxPush \in Nat
      /\ dropped \in Nat /\ evicted \in Nat
  BY RingAssumption DEF TypeOK
<1>f. /\ IsFiniteSet(Calls) /\ IsFiniteSet(Evictions)
      /\ IsFiniteSet(Undecided) /\ IsFiniteSet(Evicting)
      /\ Cardinality(Calls) \in Nat /\ Cardinality(Evictions) \in Nat
      /\ Cardinality(Undecided) \in Nat /\ Cardinality(Evicting) \in Nat
  BY FiniteCounts, Zenon
<1>c. /\ Cardinality(Calls) = Len(log) + dropped + Cardinality(Undecided)
      /\ Cardinality(Evictions) = evicted + Cardinality(Evicting)
  BY Zenon DEF CountersExact, Calls, Evictions, Undecided, Evicting
<1>g. SUFFICES /\ Cardinality(Calls') = Len(log') + dropped' + Cardinality(Undecided')
               /\ Cardinality(Evictions') = evicted' + Cardinality(Evicting')
  BY Zenon DEF CountersExact, Calls, Evictions, Undecided, Evicting
<1>1. pushed' = pushed => Calls' = Calls
  BY ZenonT(30) DEF Calls
<1>2. taken' = taken => Evictions' = Evictions
  BY Zenon DEF Evictions
<1>3. ASSUME NEW p \in Producers, Enters(p) PROVE <1>g!1
  <2> DEFINE x == <<p, pushed[p] + 1>>
  <2>1. Calls' = Calls \cup {x} /\ x \notin Calls
    <3>1. x \in Items /\ x[1] = p /\ x[2] = pushed[p] + 1
      BY <1>0, <1>3 DEF Enters, Items
    <3>2. /\ pushed'[p] = pushed[p] + 1
          /\ \A r \in Producers \ {p} : pushed'[r] = pushed[r]
      BY <1>0, <1>3, Zenon DEF Enters
    <3>3. \A y \in Items : y[1] \in Producers /\ y[2] \in 1..MaxPush /\ y = <<y[1], y[2]>>
      BY DEF Items
    <3>4. ASSUME NEW y \in Items PROVE y[2] <= pushed'[y[1]] <=> (y[2] <= pushed[y[1]] \/ y = x)
      <4>1. CASE y[1] # p
        BY <3>1, <3>2, <3>3, <4>1, Zenon
      <4>2. CASE y[1] = p
        <5>1. y = x <=> y[2] = pushed[p] + 1
          BY <3>1, <3>3, <4>2, Zenon
        <5> QED
          BY <1>0, <3>2, <3>3, <4>2, <5>1
      <4> QED
        BY <4>1, <4>2, Zenon
    <3>5. x \notin Calls
      BY <1>0, <3>1 DEF Calls
    <3> HIDE DEF x
    <3> QED
      BY <3>1, <3>4, <3>5, Zenon DEF Calls
  <2> HIDE DEF x
  <2>2. Cardinality(Calls') = Cardinality(Calls) + 1
    BY <1>f, <2>1, FS_AddElement, Zenon
  <2>3. Cardinality(Undecided') = Cardinality(Undecided) + 1
    BY <1>3, <1>f, FS_AddElement, Zenon DEF Enters
  <2> QED
    BY <1>0, <1>2, <1>3, <1>c, <1>f, <2>2, <2>3, SMTT(30) DEF Enters
<1>4. ASSUME NEW p \in Producers, Accepted(p) PROVE <1>g!1
  <2>1. Cardinality(Undecided') = Cardinality(Undecided) - 1
    BY <1>4, <1>f, FS_RemoveElement, ZenonT(30) DEF Accepted
  <2>2. Len(log') = Len(log) + 1
    <3>1. item[p] \in Items
      BY <1>4, ZenonT(30) DEF Accepted, Undecided, TypeOK, ItemOK
    <3> QED
      BY <1>0, <1>4, <3>1 DEF Accepted
  <2> QED
    BY <1>0, <1>1, <1>2, <1>4, <1>c, <1>f, <2>1, <2>2, SMTT(30) DEF Accepted
<1>5. ASSUME NEW p \in Producers, Refused(p) PROVE <1>g!1
  <2>1. Cardinality(Undecided') = Cardinality(Undecided) - 1
    BY <1>5, <1>f, FS_RemoveElement, ZenonT(30) DEF Refused
  <2> QED
    BY <1>0, <1>1, <1>2, <1>5, <1>c, <1>f, <2>1, SMTT(30) DEF Refused
<1>6. ASSUME NEW t \in Threads, Takes(t) PROVE <1>g!1
  <2>1. /\ Len(taken') = Len(taken) + 1 /\ taken'[Len(taken) + 1] = t
        /\ \A k \in 1..Len(taken) : taken'[k] = taken[k]
    BY <1>0, <1>6 DEF Takes
  <2>2. CASE t \in Producers
    <3>1. Evictions' = Evictions \cup {Len(taken) + 1} /\ Len(taken) + 1 \notin Evictions
      BY <1>0, <2>1, <2>2 DEF Evictions
    <3>2. Cardinality(Evictions') = Cardinality(Evictions) + 1
      BY <1>f, <3>1, FS_AddElement, Zenon
    <3>3. Cardinality(Evicting') = Cardinality(Evicting) + 1
      BY <1>6, <1>f, <2>2, FS_AddElement, Zenon DEF Takes
    <3> QED
      BY <1>0, <1>1, <1>6, <1>c, <1>f, <3>2, <3>3, SMTT(30) DEF Takes
  <2>3. CASE t \notin Producers
    <3>1. Evictions' = Evictions
      BY <1>0, <2>1, <2>3 DEF Evictions
    <3> QED
      BY <1>0, <1>1, <1>6, <1>c, <1>f, <2>3, <3>1, Zenon DEF Takes
  <2> QED
    BY <2>2, <2>3, Zenon
<1>7. ASSUME NEW p \in Producers, Counted(p) PROVE <1>g!1
  <2>1. Cardinality(Evicting') = Cardinality(Evicting) - 1
    BY <1>7, <1>f, FS_RemoveElement, Zenon DEF Counted
  <2> QED
    BY <1>0, <1>1, <1>2, <1>7, <1>c, <1>f, <2>1, SMTT(30) DEF Counted
<1>8. CASE UNCHANGED <<Undecided, Evicting, item, pushed, log, taken, dropped, evicted>>
  BY <1>1, <1>2, <1>8, <1>c, Zenon
<1> QED
  BY <1>3, <1>4, <1>5, <1>6, <1>7, <1>8, StepEffects, SMTT(30)

\* No loss goes uncounted and none is counted twice, whatever races push and evictOldest
\* win or lose, for every finite number of producers and every QueueSize.
THEOREM LossesCounted ==
  ASSUME IsFiniteSet(Producers)
  PROVE  Spec => []CountersExact
<1>1. Init => CountersExact
  <2> SUFFICES ASSUME Init PROVE CountersExact
    BY Zenon
  <2>1. Calls = {} /\ Evictions = {} /\ Undecided = {} /\ Evicting = {}
    <3>1. Calls = {}
      BY RingAssumption DEF Init, Calls, Items
    <3> QED
      BY <3>1 DEF Init, Evictions, Undecided, Evicting, Threads
  <2>2. Cardinality({}) = 0
    BY FS_EmptySet, Zenon
  <2>3. Len(log) = 0 /\ dropped = 0 /\ evicted = 0
    BY ZenonT(30) DEF Init
  <2>4. /\ Cardinality(Calls) = Len(log) + dropped + Cardinality(Undecided)
        /\ Cardinality(Evictions) = evicted + Cardinality(Evicting)
    BY <2>1, <2>2, <2>3
  <2> QED
    BY <2>4, ZenonT(30) DEF CountersExact, Calls, Evictions, Undecided, Evicting
<1>2. TypeOK /\ CountersExact /\ [Next]_vars => CountersExact'
  BY CountersStep, Zenon
<1> QED
  BY <1>1, <1>2, TypeCorrect, PTL DEF Spec

-----------------------------------------------------------------------------
(* Consequences of the invariant                                           *)

\* The invariant excludes two threads on the data of one slot.
LEMMA InvNoRace ==
  ASSUME IInv PROVE NoDataRace
<1> SUFFICES ASSUME NEW p \in Producers, NEW t \in Threads,
                    pc[p] = "write", p # t,
                    \/ pc[t] = "write" /\ Idx(tpos[t]) = Idx(tpos[p])
                    \/ pc[t] = "marshal" /\ Idx(hpos[t]) = Idx(tpos[p])
             PROVE  FALSE
  BY ZenonT(30) DEF NoDataRace
<1>0. /\ QueueSize \in Nat /\ head \in Nat /\ tail \in Nat
      /\ tpos[p] \in Nat /\ hpos[t] \in Nat
      /\ tpos[p] \in head..(tail - 1) /\ seqs[Idx(tpos[p])] = tpos[p]
      /\ tail <= head + QueueSize
  BY RingAssumption, ZenonT(30) DEF IInv, TypeOK, ClaimsOK, CursorsOK, Claims
<1>1. CASE pc[t] = "write" /\ Idx(tpos[t]) = Idx(tpos[p])
  <2>1. t \in Producers
    BY <1>1, Zenon DEF IInv, TypeOK, PcOK, PopLabels, Threads
  <2>2. seqs[Idx(tpos[t])] = tpos[t] /\ tpos[t] # tpos[p]
    BY <1>1, <2>1, Zenon DEF IInv, ClaimsOK, Claims
  <2> QED BY <1>0, <1>1, <2>2, Zenon
<1>2. CASE pc[t] = "marshal" /\ Idx(hpos[t]) = Idx(tpos[p])
  <2>1. hpos[t] \in (tail - QueueSize)..(head - 1)
    BY <1>2, Zenon DEF IInv, HoldsOK, Holds
  <2>2. hpos[t] < tpos[p] /\ tpos[p] < hpos[t] + QueueSize
    BY <1>0, <2>1
  <2> QED BY <1>0, <1>2, <2>2, IdxDistinct, Zenon
<1> QED BY <1>1, <1>2, Zenon

\* No producer writes a slot that another producer writes or that
\* popMarshal reads at that moment: r.data needs no lock.
THEOREM RaceFreedom ==
  ASSUME QueueSize >= 2
  PROVE  Spec => []NoDataRace
<1>1. IInv => NoDataRace
  BY InvNoRace, Zenon
<1> QED BY RingInvariant, <1>1, PTL

\* push and evictOldest leave queued items unchanged in the ring until they
\* are taken.
THEOREM ItemsSurvive ==
  ASSUME QueueSize >= 2
  PROVE  Spec => []QueuedPreserved
<1>1. IInv => QueuedPreserved
  BY Zenon DEF IInv
<1> QED BY RingInvariant, <1>1, PTL

\* What a consumer of popMarshal marshals is the item that push accepted at
\* that position.
THEOREM ItemsArriveIntact ==
  ASSUME QueueSize >= 2
  PROVE  Spec => []DeliveredIntact
<1>1. IInv => DeliveredIntact
  BY ZenonT(30) DEF IInv
<1> QED BY RingInvariant, <1>1, PTL

\* A push that judges the ring full is right at that moment: the tail is a
\* lap ahead of the head, or a popper or evictor still holds the slot.
LEMMA FullStep ==
  ASSUME IInv, [Next]_vars, NEW p \in Producers,
         pc[p] = "loadSeq", pc'[p] \in {"drop", "evictHead"}
  PROVE  /\ tpos[p] = tail
         /\ \/ tail = head + QueueSize
            \/ \E t \in Threads : Holds(t) /\ hpos[t] = tail - QueueSize
<1>0. /\ PcOK /\ QueueSize \in Nat /\ head \in Nat /\ tail \in Nat
      /\ tpos[p] \in Nat /\ tpos[p] <= tail
      /\ head <= tail /\ tail <= head + QueueSize
      /\ seqs \in [Slots -> Nat]
      /\ p \in Threads /\ p \notin Consumers
  BY RingAssumption, ZenonT(30) DEF IInv, TypeOK, CursorsOK, Threads
<1>1. PushSeqFull(p)
  <2>1. ASSUME NEW r \in Producers, Push(r) \/ PushStep(r) PROVE PushSeqFull(p)
    <3>1. CASE r # p
      <4>1. r \in Threads /\ pc'[p] = pc[p]
        BY <1>0, <2>1, <3>1, StepPc, SMTT(30) DEF Threads
      <4> QED BY <4>1, Zenon
    <3>2. CASE r = p
      <4>1. PushSeqReady(p) \/ PushSeqFull(p)
        BY <2>1, <3>2, Zenon DEF Push, PushStep, PushLoadTail, PushCas, PushWrite,
          PushPublish, PushDrop, EvictLoadHead, EvictLoadSeq, EvictCas,
          EvictRecycle, EvictCount
      <4>2. ~PushSeqReady(p)
        BY <1>0, Zenon DEF PushSeqReady, Goto, PcOK
      <4> QED BY <4>1, <4>2, ZenonT(30)
    <3> QED BY <3>1, <3>2, Zenon
  <2>2. ASSUME NEW c \in Consumers, PopStep(c) PROVE PushSeqFull(p)
    <3>1. c \in Threads /\ p # c
      BY <1>0, Zenon DEF Threads
    <3>2. pc'[p] = pc[p]
      BY <1>0, <2>2, <3>1, StepPc, Zenon
    <3> QED BY <3>2, Zenon
  <2>3. CASE UNCHANGED vars
    BY <2>3, Zenon DEF vars
  <2> QED BY <2>1, <2>2, <2>3, Zenon DEF Next
<1>2. seqs[Idx(tpos[p])] < tpos[p]
  <2>1. seqs[Idx(tpos[p])] \in Nat
    BY <1>0, IdxInSlots, Zenon
  <2> QED BY <1>0, <1>1, <2>1, SMTT(30) DEF PushSeqFull, PushDiff
<1>3. tpos[p] = tail
  <2>1. SUFFICES ASSUME tpos[p] < tail PROVE FALSE
    BY <1>0
  <2>2. tpos[p] \in 0..(tail - 1)
    BY <1>0, <2>1
  <2>3. seqs[Idx(tpos[p])] \in Nat /\ seqs[Idx(tpos[p])] >= tpos[p]
    BY <1>0, <2>2, IdxInSlots, Zenon DEF IInv, CellsOK
  <2> QED BY <1>0, <1>2, <2>3
<1>4. CASE tail < head + QueueSize
  <2>1. tail \in tail..(head + QueueSize - 1)
    BY <1>0, <1>4
  <2>2. seqs[Idx(tail)] # tail
    BY <1>0, <1>2, <1>3
  <2> QED BY <1>3, <2>1, <2>2, Zenon DEF IInv, CellsOK
<1> QED BY <1>0, <1>3, <1>4

\* push drops or evicts only when the slot it needs is really taken; a
\* stale load of tail never makes it refuse an item.
THEOREM FullMeansFull ==
  ASSUME QueueSize >= 2
  PROVE  Spec => FullIsFull
<1> DEFINE Act == \A p \in Producers :
             pc[p] = "loadSeq" /\ pc'[p] \in {"drop", "evictHead"} =>
               /\ tpos[p] = tail
               /\ \/ tail = head + QueueSize
                  \/ \E t \in Threads : Holds(t) /\ hpos[t] = tail - QueueSize
<1>1. IInv /\ [Next]_vars => [Act]_vars
  <2>1. SUFFICES ASSUME IInv, [Next]_vars PROVE Act
    BY Zenon
  <2> QED BY <2>1, FullStep, Zenon
<1>2. []IInv /\ [][Next]_vars => [][Act]_vars
  BY <1>1, PTL
<1> QED BY RingInvariant, <1>2, PTL DEF Spec, FullIsFull

-----------------------------------------------------------------------------
(* The ring implements a bounded queue                                     *)

\* evictOldest is called under DropOldest only.
EvictsByPolicy ==
  \A p \in Producers :
    pc[p] \in {"evictHead", "evictSeq", "evictCas", "evictRecycle", "evictCount"}
      => Policy = "DropOldest"

LEMMA EvictsByPolicyStep == TypeOK /\ EvictsByPolicy /\ [Next]_vars => EvictsByPolicy'
<1> SUFFICES ASSUME TypeOK, EvictsByPolicy, [Next]_vars PROVE EvictsByPolicy'
  BY Zenon
<1>0. PcOK
  BY Zenon DEF TypeOK
<1>1. ASSUME NEW p \in Producers, Push(p) \/ PushStep(p) PROVE EvictsByPolicy'
  <2>1. \A r \in Producers \ {p} : pc'[r] = pc[r]
    BY <1>0, <1>1, StepPc, Zenon DEF Threads
  <2>2. pc'[p] \in {"evictHead", "evictSeq", "evictCas", "evictRecycle", "evictCount"}
          => Policy = "DropOldest"
    <3>1. p \in Threads /\ \A l : Goto(p, l) => pc'[p] = l
      BY <1>0, Zenon DEF Goto, PcOK, Threads
    <3>2. CASE Push(p) \/ PushLoadTail(p) \/ PushSeqReady(p) \/ PushCas(p) \/ PushWrite(p)
               \/ PushPublish(p) \/ PushDrop(p) \/ EvictCount(p)
      BY <3>1, <3>2, Zenon DEF Push, PushLoadTail, PushSeqReady, PushCas, PushWrite, PushPublish, PushDrop,
                        EvictCount
    <3>3. CASE PushSeqFull(p)
      BY <3>1, <3>3, Zenon DEF PushSeqFull
    <3>4. CASE EvictLoadHead(p) \/ EvictLoadSeq(p) \/ EvictCas(p) \/ EvictRecycle(p)
      BY <3>4, Zenon DEF EvictLoadHead, EvictLoadSeq, EvictCas, EvictRecycle, EvictsByPolicy
    <3> QED
      BY <1>1, <3>2, <3>3, <3>4, Zenon DEF PushStep
  <2> QED
    BY <2>1, <2>2, Zenon DEF EvictsByPolicy
<1>2. ASSUME NEW c \in Consumers, PopStep(c) PROVE EvictsByPolicy'
  <2>1. \A r \in Producers : pc'[r] = pc[r]
    BY <1>0, <1>2, StepPc, RingAssumption, Zenon DEF Threads
  <2> QED
    BY <2>1, Zenon DEF EvictsByPolicy
<1>3. CASE UNCHANGED vars
  BY <1>3, Zenon DEF vars, EvictsByPolicy
<1> QED
  BY <1>1, <1>2, <1>3, Zenon DEF Next

\* The mapped state: the items between the cursors, what each consumer has taken, and
\* the items taken by producers.
AQueue    == SubSeq(log, head + 1, tail)
AReceived == [c \in Consumers |-> Values(c)]
ALost     == {log[k] : k \in {j \in 1..Len(taken) : taken[j] \in Producers}}
Marshalled(c) == [k \in 1..Len(out[c]) |-> out[c][k][2]]

\* What consumer c was handed: its marshalled payloads, then the one it is marshalling.
HandedTo(c) ==
  /\ Marshalled(c) \in Seq(Items \cup {NoItem})
  /\ Len(Marshalled(c)) = Len(out[c])
  /\ \A k \in 1..Len(out[c]) : Marshalled(c)[k] = out[c][k][2]
  /\ pc[c] # "marshal" => Values(c) = Marshalled(c)
  /\ pc[c] = "marshal" => /\ log[hpos[c] + 1] \in Items
                          /\ Values(c) = Append(Marshalled(c), log[hpos[c] + 1])

LEMMA ValuesOf == IInv => \A c \in Consumers : HandedTo(c)
<1> SUFFICES ASSUME IInv, NEW c \in Consumers PROVE HandedTo(c)
  BY Zenon
<1>1. out[c] \in Seq(Nat \X (Items \cup {NoItem})) /\ Len(out[c]) \in Nat
  BY DEF IInv, TypeOK
<1>2. /\ Marshalled(c) \in Seq(Items \cup {NoItem}) /\ Len(Marshalled(c)) = Len(out[c])
      /\ \A k \in 1..Len(out[c]) : Marshalled(c)[k] = out[c][k][2]
  BY <1>1 DEF Marshalled
<1>3. CASE pc[c] # "marshal"
  <2>1. Values(c) = Marshalled(c) \o << >>
    BY <1>3, Zenon DEF Values, Marshalled
  <2> QED
    BY <1>2, <1>3, <2>1, ConcatNothing, Zenon DEF HandedTo
<1>4. CASE pc[c] = "marshal"
  <2>1. hpos[c] + 1 \in 1..Len(log)
    <3>1. c \in Threads /\ Holds(c)
      BY <1>4, Zenon DEF Holds, Threads
    <3>2. hpos[c] \in (tail - QueueSize)..(head - 1) /\ hpos[c] \in Nat
      BY <3>1, Zenon DEF IInv, HoldsOK, TypeOK
    <3> QED
      BY <3>2 DEF IInv, CursorsOK, TypeOK
  <2>2. log[hpos[c] + 1] \in Items
    BY <2>1, SeqElement, Zenon DEF IInv, TypeOK
  <2>3. Values(c) = Marshalled(c) \o << log[hpos[c] + 1] >>
    BY <1>4, Zenon DEF Values, Marshalled
  <2> QED
    BY <1>2, <1>4, <2>2, <2>3, AppendAsConcat, SMTT(30) DEF HandedTo
<1> QED
  BY <1>2, <1>3, <1>4, Zenon DEF HandedTo

LEMMA ValuesOfNext == IInv' => (\A c \in Consumers : HandedTo(c))'
BY ValuesOf, PTL

\* A step that leaves cursors, history and the positions being marshalled alone is a
\* stuttering step of the queue.
LEMMA StutterStep ==
  ASSUME UNCHANGED <<head, tail, log, taken, out>>,
         \A c \in Consumers : (pc'[c] = "marshal") = (pc[c] = "marshal"),
         \A c \in Consumers : pc[c] = "marshal" => hpos'[c] = hpos[c]
  PROVE  UNCHANGED <<AQueue, AReceived, ALost>>
<1>1. \A c \in Consumers : Values(c)' = Values(c)
  BY Zenon DEF Values
<1> QED
  BY <1>1, Zenon DEF AQueue, AReceived, ALost

\* A Push that wins the compare-and-swap on tail appends its item.
LEMMA AcceptStep ==
  ASSUME IInv, IInv', NEW p \in Producers, PushCas(p), tail = tpos[p]
  PROVE  /\ Len(AQueue) < QueueSize
         /\ AQueue' = Append(AQueue, item[p]) /\ item[p] \in Items
         /\ AReceived' = AReceived /\ ALost' = ALost
<1>0. /\ log \in Seq(Items) /\ Len(log) = tail /\ head \in 0..tail /\ tail \in Nat
      /\ taken \in Seq(Threads) /\ Len(taken) = head /\ PcOK /\ QueueSize \in Nat
  BY RingAssumption DEF IInv, TypeOK, CursorsOK
<1>1. item[p] \in Items
  BY Zenon DEF IInv, TypeOK, ItemOK, PushCas
<1>2. /\ tail' = tail + 1 /\ log' = Append(log, item[p])
      /\ head' = head /\ taken' = taken /\ out' = out /\ hpos' = hpos
  BY Zenon DEF PushCas, locals
<1>3. \A c \in Consumers : pc'[c] = pc[c]
  BY <1>0, RingAssumption, Zenon DEF PushCas, Goto, PcOK, Threads
<1>4. /\ Len(log') = tail + 1 /\ log' \in Seq(Items)
      /\ \A k \in 1..tail : log'[k] = log[k]
      /\ log'[tail + 1] = item[p]
  BY <1>0, <1>1, <1>2, AppendFacts
<1>5. Len(AQueue) < QueueSize
  <2>1. tail' <= head' + QueueSize
    BY Zenon DEF IInv, CursorsOK
  <2>2. \A k \in (head + 1)..tail : log[k] \in Items
    BY <1>0, SeqElement
  <2>3. Len(AQueue) = tail - head
    BY <1>0, <2>2, SubSeqFacts DEF AQueue
  <2> QED
    BY <1>0, <1>2, <2>1, <2>3
<1>6. AQueue' = Append(AQueue, item[p])
  <2>1. AQueue' = SubSeq(log', head + 1, tail + 1)
    BY <1>2, Zenon DEF AQueue
  <2>2. SubSeq(log', head + 1, tail + 1) = SubSeq(log', head + 1, tail) \o << item[p] >>
    <3>1. /\ head + 1 \in 1..Len(log') /\ tail + 1 \in (head + 1)..Len(log')
          /\ (tail + 1) - 1 = tail
      BY <1>0, <1>4
    <3>2. SubSeq(log', head + 1, tail + 1)
            = SubSeq(log', head + 1, (tail + 1) - 1) \o << log'[tail + 1] >>
      BY <1>4, <3>1, SubSeqLast, ZenonT(30)
    <3> QED
      BY <1>4, <3>1, <3>2, ZenonT(30)
  <2>3. /\ \A k \in (head + 1)..tail : log'[k] \in Items /\ log[k] \in Items /\ log'[k] = log[k]
        /\ head + 1 \in Int /\ tail \in Int
    BY <1>0, <1>4
  <2>4. AQueue \in Seq(Items) /\ SubSeq(log', head + 1, tail) \in Seq(Items)
    BY <2>3, SubSeqFacts, Zenon DEF AQueue
  <2>5. SubSeq(log', head + 1, tail) = AQueue
    <3>1. /\ Len(SubSeq(log', head + 1, tail)) = Len(AQueue)
          /\ \A k \in 1..Len(AQueue) : SubSeq(log', head + 1, tail)[k] = AQueue[k]
      BY <1>0, <2>3, SubSeqFacts DEF AQueue
    <3> QED
      BY <2>4, <3>1, SeqSameElements, Zenon
  <2> QED
    BY <1>1, <2>1, <2>2, <2>4, <2>5, AppendAsConcat, Zenon
<1>7. AReceived' = AReceived
  <2>1. ASSUME NEW c \in Consumers PROVE Values(c)' = Values(c)
    <3>1. pc[c] = "marshal" => hpos[c] + 1 \in 1..tail
      <4>1. ASSUME pc[c] = "marshal" PROVE hpos[c] \in Nat /\ hpos[c] \in (tail - QueueSize)..(head - 1)
        BY <4>1, Zenon DEF IInv, TypeOK, HoldsOK, Holds, Threads
      <4> QED
        BY <1>0, <4>1
    <3> QED
      BY <1>2, <1>3, <1>4, <3>1, ZenonT(30) DEF Values
  <2> QED
    BY <2>1, Zenon DEF AReceived
<1>8. ALost' = ALost
  <2>1. \A k \in 1..Len(taken) : log'[k] = log[k]
    BY <1>0, <1>4
  <2> QED
    BY <1>2, <2>1, Zenon DEF ALost
<1> QED
  BY <1>1, <1>5, <1>6, <1>7, <1>8, Zenon

\* A thread that wins the compare-and-swap on head removes the oldest item.
LEMMA RemoveStep ==
  ASSUME IInv, IInv', NEW t \in Threads,
         head' = head + 1, tail' = tail, log' = log, taken' = Append(taken, t)
  PROVE  /\ AQueue # << >> /\ AQueue' = Tail(AQueue) /\ Head(AQueue) = log[head + 1]
         /\ ALost' = IF t \in Producers THEN ALost \cup {Head(AQueue)} ELSE ALost
<1>0. /\ log \in Seq(Items) /\ Len(log) = tail /\ head \in Nat /\ tail \in Nat
      /\ taken \in Seq(Threads) /\ Len(taken) = head
  BY Zenon DEF IInv, TypeOK, CursorsOK
<1>1. head + 1 <= tail
  BY <1>0, Zenon DEF IInv, CursorsOK
<1>2. AQueue # << >> /\ AQueue' = Tail(AQueue) /\ Head(AQueue) = log[head + 1]
  <2>1. head + 1 \in 1..Len(log) /\ Len(log) \in (head + 1)..Len(log)
    BY <1>0, <1>1
  <2>2. Head(AQueue) = log[head + 1] /\ Tail(AQueue) = SubSeq(log, (head + 1) + 1, tail)
    BY <1>0, <2>1, SubSeqHeadTail, Zenon DEF AQueue
  <2>3. AQueue # << >>
    <3>1. \A k \in (head + 1)..tail : log[k] \in Items
      BY <1>0, SeqElement
    <3>2. Len(AQueue) = tail - head
      BY <1>0, <1>1, <3>1, SubSeqFacts DEF AQueue
    <3> QED
      BY <1>0, <1>1, <3>2
  <2> QED
    BY <2>2, <2>3, Zenon DEF AQueue
<1>3. /\ Len(taken') = head + 1 /\ taken'[head + 1] = t
      /\ \A k \in 1..head : taken'[k] = taken[k]
  BY <1>0, AppendFacts
<1>4. {j \in 1..Len(taken') : taken'[j] \in Producers}
        = {j \in 1..Len(taken) : taken[j] \in Producers}
            \cup (IF t \in Producers THEN {head + 1} ELSE {})
  BY <1>0, <1>3
<1>5. ALost' = IF t \in Producers THEN ALost \cup {log[head + 1]} ELSE ALost
  BY <1>4, Zenon DEF ALost
<1> QED
  BY <1>2, <1>5, Zenon

\* popMarshal's compare-and-swap hands the oldest item to the consumer.
LEMMA DequeueStep ==
  ASSUME IInv, IInv', NEW c \in Consumers, PopCas(c), head = hpos[c]
  PROVE  Abstract!Dequeue(c)
<1>0. PcOK /\ c \in Threads /\ c \notin Producers
  BY RingAssumption, Zenon DEF IInv, TypeOK, Threads
<1>1. /\ head' = head + 1 /\ tail' = tail /\ log' = log /\ taken' = Append(taken, c)
      /\ out' = out /\ hpos' = hpos /\ pc[c] = "popCas"
  BY Zenon DEF PopCas, locals
<1>2. pc'[c] = "marshal" /\ \A d \in Consumers \ {c} : pc'[d] = pc[d]
  BY <1>0, Zenon DEF PopCas, Goto, PcOK, Threads
<1>3. /\ AQueue # << >> /\ AQueue' = Tail(AQueue) /\ Head(AQueue) = log[head + 1]
      /\ ALost' = ALost
  BY <1>0, <1>1, RemoveStep, Zenon
<1>4. \A d \in Consumers \ {c} : Values(d)' = Values(d)
  BY <1>1, <1>2, Zenon DEF Values
<1>5. Values(c)' = Append(Values(c), Head(AQueue))
  <2>1. Values(c) = Marshalled(c)
    BY <1>1, ValuesOf, Zenon DEF HandedTo
  <2>2. Values(c)' = Append(Marshalled(c)', log'[hpos'[c] + 1])
    BY <1>2, ValuesOfNext, Zenon DEF HandedTo
  <2>3. Marshalled(c)' = Marshalled(c)
    BY <1>1, Zenon DEF Marshalled
  <2> QED
    BY <1>1, <1>3, <2>1, <2>2, <2>3, Zenon
<1>6. AReceived' = [AReceived EXCEPT ![c] = Append(@, Head(AQueue))]
  BY <1>4, <1>5, Zenon DEF AReceived
<1> QED
  BY <1>3, <1>6, ZenonT(30) DEF Abstract!Dequeue, AQueue, AReceived, ALost

\* Marshal hands out what the queue handed over: nothing is left to happen.
LEMMA MarshalStep ==
  ASSUME IInv, IInv', NEW c \in Consumers, PopMarshal(c)
  PROVE  UNCHANGED <<AQueue, AReceived, ALost>>
<1>0. PcOK /\ c \in Threads /\ out \in [Consumers -> Seq(Nat \X (Items \cup {NoItem}))]
  BY Zenon DEF IInv, TypeOK, Threads
<1>1. /\ head' = head /\ tail' = tail /\ log' = log /\ taken' = taken
      /\ hpos' = hpos /\ pc[c] = "marshal"
      /\ out' = [out EXCEPT ![c] = Append(@, <<hpos[c], data[Idx(hpos[c])]>>)]
  BY Zenon DEF PopMarshal, shared, locals
<1>2. pc'[c] = "popRecycle" /\ \A d \in Consumers \ {c} : pc'[d] = pc[d]
  BY <1>0, Zenon DEF PopMarshal, Goto, PcOK, Threads
<1>3. data[Idx(hpos[c])] = log[hpos[c] + 1]
  BY <1>0, <1>1, Zenon DEF IInv, HoldsOK, Holds
<1>4. \A d \in Consumers \ {c} : Values(d)' = Values(d)
  BY <1>0, <1>1, <1>2, Zenon DEF Values
<1>5. Values(c)' = Values(c)
  <2>1. /\ Values(c) = Append(Marshalled(c), log[hpos[c] + 1]) /\ log[hpos[c] + 1] \in Items
        /\ Marshalled(c) \in Seq(Items \cup {NoItem}) /\ Len(Marshalled(c)) = Len(out[c])
        /\ \A k \in 1..Len(out[c]) : Marshalled(c)[k] = out[c][k][2]
    BY <1>1, ValuesOf, Zenon DEF HandedTo
  <2>2. /\ Values(c)' = Marshalled(c)'
        /\ Marshalled(c)' \in Seq(Items \cup {NoItem}) /\ Len(Marshalled(c)') = Len(out'[c])
        /\ \A k \in 1..Len(out'[c]) : Marshalled(c)'[k] = out'[c][k][2]
    BY <1>2, ValuesOfNext, Zenon DEF HandedTo
  <2> DEFINE m == <<hpos[c], log[hpos[c] + 1]>>
  <2>3. m \in Nat \X (Items \cup {NoItem}) /\ m[2] = log[hpos[c] + 1]
    BY <1>0, <2>1, Zenon DEF IInv, TypeOK
  <2>4. out'[c] = Append(out[c], m)
    BY <1>0, <1>1, <1>3, Zenon
  <2> HIDE DEF m
  <2>5. /\ Len(out'[c]) = Len(out[c]) + 1 /\ out'[c][Len(out[c]) + 1] = m
        /\ \A k \in 1..Len(out[c]) : out'[c][k] = out[c][k]
    BY <1>0, <2>3, <2>4, AppendFacts, SMTT(30)
  <2> DEFINE v == Append(Marshalled(c), log[hpos[c] + 1])
  <2>6. /\ v \in Seq(Items \cup {NoItem}) /\ Len(v) = Len(out[c]) + 1
        /\ v[Len(out[c]) + 1] = log[hpos[c] + 1]
        /\ \A k \in 1..Len(out[c]) : v[k] = Marshalled(c)[k]
    BY <2>1, AppendFacts
  <2> HIDE DEF v
  <2>7. Len(out[c]) \in Nat
    BY <1>0
  <2>8. Len(v) = Len(Marshalled(c)') /\ \A k \in 1..Len(v) : v[k] = Marshalled(c)'[k]
    <3>1. Len(v) = Len(Marshalled(c)')
      BY <2>2, <2>5, <2>6, Zenon
    <3>2. ASSUME NEW k \in 1..Len(out[c]) PROVE v[k] = Marshalled(c)'[k]
      <4>1. k \in 1..Len(out'[c]) /\ out'[c][k] = out[c][k]
        BY <2>5, <2>7, SMTT(30)
      <4>2. v[k] = out[c][k][2]
        BY <2>1, <2>6, Zenon
      <4>3. Marshalled(c)'[k] = out'[c][k][2]
        BY <2>2, <4>1, Zenon
      <4> QED
        BY <4>1, <4>2, <4>3, Zenon
    <3>3. v[Len(out[c]) + 1] = Marshalled(c)'[Len(out[c]) + 1]
      <4>1. Marshalled(c)'[Len(out[c]) + 1] = out'[c][Len(out[c]) + 1][2]
        BY <2>2, <2>5, <2>7
      <4> QED
        BY <4>1, <2>3, <2>5, <2>6, SMTT(30)
    <3>4. 1..Len(v) = (1..Len(out[c])) \cup {Len(out[c]) + 1}
      BY <2>6, <2>7
    <3> QED
      BY <3>1, <3>2, <3>3, <3>4, Zenon
  <2>9. v = Marshalled(c)'
    BY <2>2, <2>6, <2>8, SeqSameElements, Zenon
  <2> QED
    BY <2>1, <2>2, <2>9, Zenon DEF v
<1> QED
  BY <1>1, <1>4, <1>5, Zenon DEF AQueue, AReceived, ALost

\* Every step of the ring is a step of the queue or leaves it alone.
LEMMA RefinementStep ==
  ASSUME IInv, IInv', EvictsByPolicy, [Next]_vars
  PROVE  [Abstract!Next]_Abstract!vars
<1>0. PcOK /\ hpos \in [Threads -> Nat] /\ Producers \cap Consumers = {}
  BY RingAssumption, Zenon DEF IInv, TypeOK
<1>s. ASSUME UNCHANGED <<AQueue, AReceived, ALost>> PROVE [Abstract!Next]_Abstract!vars
  BY <1>s, ZenonT(30) DEF Abstract!vars, AQueue, AReceived, ALost
<1>1. ASSUME NEW p \in Producers, Push(p) \/ PushStep(p) PROVE [Abstract!Next]_Abstract!vars
  <2>1. CASE PushCas(p) /\ tail = tpos[p]
    <3>1. Abstract!Enqueue(item[p]) /\ item[p] \in Items
      BY <2>1, AcceptStep, Zenon DEF Abstract!Enqueue, AQueue, AReceived, ALost
    <3> QED
      BY <3>1, Zenon DEF Abstract!Next
  <2>2. CASE EvictCas(p) /\ head = hpos[p]
    <3>1. /\ head' = head + 1 /\ tail' = tail /\ log' = log /\ taken' = Append(taken, p)
          /\ out' = out /\ hpos' = hpos
      BY <2>2, Zenon DEF EvictCas, locals
    <3>2. p \in Threads /\ Policy = "DropOldest"
      BY <2>2, Zenon DEF EvictCas, EvictsByPolicy, Threads
    <3>3. /\ AQueue # << >> /\ AQueue' = Tail(AQueue)
          /\ ALost' = ALost \cup {Head(AQueue)}
      BY <3>1, <3>2, RemoveStep, Zenon
    <3>4. \A c \in Consumers : pc'[c] = pc[c]
      BY <1>0, <1>1, StepPc, Zenon DEF Threads
    <3>5. AReceived' = AReceived
      BY <3>1, <3>4, Zenon DEF AReceived, Values
    <3>6. Abstract!Evict
      BY <3>2, <3>3, <3>5, ZenonT(30) DEF Abstract!Evict, AQueue, AReceived, ALost
    <3> QED
      BY <3>6, Zenon DEF Abstract!Next
  <2>3. CASE ~(PushCas(p) /\ tail = tpos[p]) /\ ~(EvictCas(p) /\ head = hpos[p])
    <3>1. UNCHANGED <<head, tail, log, taken, out>>
      BY <1>1, <2>3, ZenonT(30) DEF Push, PushStep, PushLoadTail, PushSeqReady, PushSeqFull, PushCas, PushWrite,
           PushPublish, PushDrop, EvictLoadHead, EvictLoadSeq, EvictCas, EvictRecycle, EvictCount,
           shared, locals, history
    <3>2. \A c \in Consumers : pc'[c] = pc[c]
      BY <1>0, <1>1, StepPc DEF Threads
    <3>3. \A c \in Consumers : hpos'[c] = hpos[c]
      BY <1>0, <1>1, ZenonT(30) DEF Push, PushStep, PushLoadTail, PushSeqReady, PushSeqFull, PushCas, PushWrite,
           PushPublish, PushDrop, EvictLoadHead, EvictLoadSeq, EvictCas, EvictRecycle, EvictCount,
           shared, locals, history, Threads
    <3> QED
      BY <1>s, <3>1, <3>2, <3>3, StutterStep, Zenon
  <2> QED
    BY <2>1, <2>2, <2>3, Zenon
<1>2. ASSUME NEW c \in Consumers, PopStep(c) PROVE [Abstract!Next]_Abstract!vars
  <2>1. CASE PopCas(c) /\ head = hpos[c]
    BY <2>1, DequeueStep, Zenon DEF Abstract!Next
  <2>2. CASE PopMarshal(c)
    BY <1>s, <2>2, MarshalStep, Zenon
  <2>3. CASE PopLoadHead(c) \/ PopLoadSeq(c) \/ (PopCas(c) /\ head # hpos[c]) \/ PopRecycle(c)
    <3>1. UNCHANGED <<head, tail, log, taken, out>>
      BY <2>3, Zenon DEF PopLoadHead, PopLoadSeq, PopCas, PopRecycle, shared, locals, history
    <3>2. /\ pc[c] # "marshal"
          /\ \E l \in {"popSeq", "popCas", "idle", "popHead"} : Goto(c, l)
      BY <2>3, ZenonT(30) DEF PopLoadHead, PopLoadSeq, PopCas, PopRecycle
    <3>3. pc'[c] # "marshal" /\ \A d \in Consumers \ {c} : pc'[d] = pc[d]
      BY <1>0, <3>2, Zenon DEF Goto, PcOK, Threads
    <3>4. \A d \in Consumers \ {c} : hpos'[d] = hpos[d]
      BY <1>0, <2>3, Zenon DEF PopLoadHead, PopLoadSeq, PopCas, PopRecycle, locals, Threads
    <3> QED
      BY <1>s, <3>1, <3>2, <3>3, <3>4, StutterStep, Zenon
  <2> QED
    BY <1>2, <2>1, <2>2, <2>3, Zenon DEF PopStep
<1>3. CASE UNCHANGED vars
  <2>1. UNCHANGED <<head, tail, log, taken, out, pc, hpos>>
    BY <1>3, Zenon DEF vars, shared, locals, history
  <2> QED
    BY <1>s, <2>1, StutterStep, Zenon
<1> QED
  BY <1>1, <1>2, <1>3, Zenon DEF Next

LEMMA InitIsEmpty ==
  ASSUME Init PROVE Abstract!Init
<1>1. SubSeq(log, head + 1, tail) = << >>
  BY SubSeqNothing DEF Init
<1>2. \A c \in Consumers : Values(c) = << >>
  <2>1. ASSUME NEW c \in Consumers PROVE Values(c) = << >>
    BY ValuesOf, InvInit DEF HandedTo, Init, Marshalled, Threads
  <2> QED
    BY <2>1, Zenon
<1>3. taken = << >>
  BY Zenon DEF Init
<1> QED
  BY <1>1, <1>2, <1>3 DEF Abstract!Init

LEMMA EvictsByPolicyInit == Init => EvictsByPolicy
BY Zenon DEF Init, EvictsByPolicy, Threads

\* ringbuf.go implements a bounded FIFO queue for any number of producers and consumers,
\* both policies and every QueueSize from two up: a Push appends at its compare-and-swap
\* on tail or does nothing, and the compare-and-swap on head hands out or evicts the
\* oldest item.
THEOREM RingIsQueue ==
  ASSUME QueueSize >= 2
  PROVE  Spec => RefinesQueue
<1>1. Init => Abstract!Init
  BY InitIsEmpty, Zenon
<1>3. IInv => TypeOK
  BY Zenon DEF IInv
<1>4. Spec => []EvictsByPolicy
  BY EvictsByPolicyInit, EvictsByPolicyStep, TypeCorrect, PTL DEF Spec
<1>5. []IInv /\ []EvictsByPolicy /\ [][Next]_vars => [][Abstract!Next]_Abstract!vars
  <2>1. IInv /\ IInv' /\ EvictsByPolicy /\ [Next]_vars => [Abstract!Next]_Abstract!vars
    BY RefinementStep, Zenon
  <2> QED
    BY <2>1, PTL
<1> QED
  BY <1>1, <1>4, <1>5, RingInvariant, PTL DEF Spec, RefinesQueue, Abstract!Spec

-----------------------------------------------------------------------------
(* The ring implements the queue with slots that the engine uses           *)

APending  == {item[p] : p \in {r \in Producers : Claims(r)}}
AHeld     == IF Holds(TheConsumer) THEN head - hpos[TheConsumer] ELSE 0
AEvicting == {head - hpos[p] : p \in {r \in Producers : Holds(r)}}

LEMMA OneConsumer ==
  ASSUME \E c : Consumers = {c}
  PROVE  TheConsumer \in Consumers /\ Consumers = {TheConsumer}
<1>1. PICK c : Consumers = {c}
  BY Zenon
<1>2. TheConsumer \in Consumers
  BY <1>1, Zenon DEF TheConsumer
<1> QED
  BY <1>1, <1>2, Zenon

LEMMA SamePending ==
  ASSUME \A p \in Producers : (Claims(p)' <=> Claims(p)) /\ (Claims(p) => item'[p] = item[p])
  PROVE  APending' = APending
BY Zenon DEF APending

LEMMA SameSlots ==
  ASSUME TheConsumer \in Consumers, head' = head,
         \A t \in Threads : (Holds(t)' <=> Holds(t)) /\ (Holds(t) => hpos'[t] = hpos[t])
  PROVE  AHeld' = AHeld /\ AEvicting' = AEvicting
<1>1. TheConsumer \in Threads /\ \A p \in Producers : p \in Threads
  BY Zenon DEF Threads
<1>2. TheConsumer' = TheConsumer
  BY Zenon DEF TheConsumer
<1>3. AHeld' = AHeld
  BY <1>1, <1>2, Zenon DEF AHeld
<1>4. AEvicting' = AEvicting
  BY <1>1, Zenon DEF AEvicting
<1> QED
  BY <1>3, <1>4, Zenon

\* No item is accepted twice, so an item names its position.
LEMMA LogDistinct ==
  ASSUME TypeOK, ProducerOrder, NEW i \in 1..Len(log), NEW j \in 1..Len(log), log[i] = log[j]
  PROVE  i = j
<1>1. log[i] \in Items /\ Len(log) \in Nat
  BY DEF TypeOK
<1>2. log[i][2] \in Nat
  BY <1>1, RingAssumption DEF Items
<1>3. ~(i < j) /\ ~(j < i)
  BY <1>2 DEF ProducerOrder
<1> QED
  BY <1>1, <1>3

\* A claimant's item is in the log at its position, and nowhere else.
LEMMA ClaimedItem ==
  ASSUME IInv, ProducerOrder, NEW p \in Producers, Claims(p), NEW k \in 1..Len(log), log[k] = item[p]
  PROVE  tpos[p] + 1 = k
<1>1. tpos[p] \in head..(tail - 1) /\ log[tpos[p] + 1] = item[p] /\ Len(log) = tail /\ tail \in Nat /\ head \in Nat
  BY Zenon DEF IInv, ClaimsOK, CursorsOK, TypeOK
<1>2. tpos[p] + 1 \in 1..Len(log)
  BY <1>1
<1> QED
  BY <1>1, <1>2, LogDistinct, Zenon DEF IInv

\* Two claimants carry different items.
LEMMA ClaimantsDiffer ==
  ASSUME IInv, ProducerOrder, NEW p \in Producers, NEW q \in Producers, Claims(p), Claims(q), item[p] = item[q]
  PROVE  p = q
<1>1. /\ tpos[p] \in head..(tail - 1) /\ log[tpos[p] + 1] = item[p] /\ Len(log) = tail /\ tail \in Nat /\ head \in Nat
      /\ tpos[p] \in Nat /\ tpos[q] \in Nat
  BY Zenon DEF IInv, ClaimsOK, CursorsOK, TypeOK
<1>2. tpos[p] + 1 \in 1..Len(log)
  BY <1>1
<1>3. tpos[q] + 1 = tpos[p] + 1
  BY <1>1, <1>2, ClaimedItem, Zenon
<1>4. tpos[q] = tpos[p]
  BY <1>1, <1>3
<1> QED
  BY <1>4, Zenon DEF IInv, ClaimsOK

\* The compare-and-swap on head succeeds only on a published item.
LEMMA TakesPublished ==
  ASSUME IInv, ProducerOrder, NEW t \in Threads, pc[t] \in {"popCas", "evictCas"}, hpos[t] = head, head < tail
  PROVE  log[head + 1] \notin APending
<1>0. head \in Nat /\ tail \in Nat /\ Len(log) = tail /\ seqs[Idx(head)] = head + 1
  BY Zenon DEF IInv, TypeOK, CursorsOK, CasOK
<1>1. SUFFICES ASSUME NEW p \in Producers, Claims(p), item[p] = log[head + 1] PROVE FALSE
  BY Zenon DEF APending
<1>2. head + 1 \in 1..Len(log)
  BY <1>0
<1>3. tpos[p] + 1 = head + 1 /\ tpos[p] \in Nat
  BY <1>1, <1>2, ClaimedItem, Zenon DEF IInv, TypeOK
<1>4. tpos[p] = head
  BY <1>0, <1>3
<1>5. seqs[Idx(head)] = head
  BY <1>1, <1>4, Zenon DEF IInv, ClaimsOK
<1> QED
  BY <1>0, <1>5

\* A holder is at least one and at most QueueSize positions behind the head.
LEMMA HolderBehind ==
  ASSUME IInv, NEW t \in Threads, Holds(t)
  PROVE  head \in Nat /\ hpos[t] \in Nat /\ head - hpos[t] \in Nat /\ head - hpos[t] >= 1
<1>1. head \in Nat /\ hpos[t] \in Nat /\ hpos[t] \in (tail - QueueSize)..(head - 1) /\ tail \in Nat /\ QueueSize \in Nat
  BY RingAssumption, Zenon DEF IInv, TypeOK, HoldsOK
<1> QED
  BY <1>1

\* When the head moves, every slot held is one farther behind it.
LEMMA SlotsRecede ==
  ASSUME IInv, TheConsumer \in Consumers, head' = head + 1, hpos' = hpos,
         NEW t \in Threads, ~Holds(t), hpos[t] = head,
         \A u \in Threads \ {t} : pc'[u] = pc[u], Holds(t)'
  PROVE  /\ t \in Producers => /\ AEvicting' = {d + 1 : d \in AEvicting} \cup {1}
                               /\ AHeld' = IF AHeld = 0 THEN 0 ELSE AHeld + 1
         /\ t = TheConsumer => AHeld = 0 /\ AHeld' = 1 /\ AEvicting' = {d + 1 : d \in AEvicting}
<1>0. /\ head \in Nat /\ Producers \cap Consumers = {} /\ TheConsumer \in Threads
      /\ TheConsumer' = TheConsumer /\ TheConsumer \notin Producers /\ \A p \in Producers : p \in Threads
  BY RingAssumption, Zenon DEF IInv, TypeOK, Threads, TheConsumer
<1>1. \A u \in Threads \ {t} : Holds(u)' <=> Holds(u)
  BY Zenon DEF Holds
<1>2. \A u \in Threads : Holds(u) => /\ (head + 1) - hpos[u] = (head - hpos[u]) + 1
                                     /\ head - hpos[u] \in Nat /\ head - hpos[u] >= 1
  BY HolderBehind
<1>3. (head + 1) - hpos[t] = 1
  BY <1>0
<1>4. ASSUME t \in Producers PROVE AEvicting' = {d + 1 : d \in AEvicting} \cup {1}
  <2>1. AEvicting' = {(head + 1) - hpos[p] : p \in {r \in Producers : Holds(r)'}}
    BY Zenon DEF AEvicting
  <2>2. {r \in Producers : Holds(r)'} = {r \in Producers : Holds(r)} \cup {t}
    BY <1>0, <1>1, <1>4, Zenon
  <2>3. {(head + 1) - hpos[p] : p \in {r \in Producers : Holds(r)} \cup {t}}
          = {(head + 1) - hpos[p] : p \in {r \in Producers : Holds(r)}} \cup {(head + 1) - hpos[t]}
    BY Zenon
  <2>5. {(head + 1) - hpos[p] : p \in {r \in Producers : Holds(r)}}
          = {(head - hpos[p]) + 1 : p \in {r \in Producers : Holds(r)}}
    BY <1>0, <1>2, Zenon
  <2>4. {(head - hpos[p]) + 1 : p \in {r \in Producers : Holds(r)}} = {d + 1 : d \in AEvicting}
    BY Zenon DEF AEvicting
  <2> QED
    BY <1>3, <2>1, <2>2, <2>3, <2>4, <2>5, Zenon
<1>5. ASSUME t \in Producers PROVE AHeld' = IF AHeld = 0 THEN 0 ELSE AHeld + 1
  <2>1. (Holds(TheConsumer)' <=> Holds(TheConsumer)) /\ TheConsumer # t
    BY <1>0, <1>1, <1>5, Zenon
  <2>2. CASE Holds(TheConsumer)
    <3>1. /\ AHeld = head - hpos[TheConsumer] /\ AHeld' = (head + 1) - hpos[TheConsumer]
      BY <1>0, <2>1, <2>2, Zenon DEF AHeld
    <3> QED
      BY <1>0, <1>2, <2>2, <3>1, SMTT(30)
  <2>3. CASE ~Holds(TheConsumer)
    BY <1>0, <2>1, <2>3, Zenon DEF AHeld
  <2> QED
    BY <2>2, <2>3, Zenon
<1>6. ASSUME t = TheConsumer PROVE AHeld = 0 /\ AHeld' = 1
  BY <1>0, <1>3, <1>6, Zenon DEF AHeld
<1>7. ASSUME t = TheConsumer PROVE AEvicting' = {d + 1 : d \in AEvicting}
  <2>1. AEvicting' = {(head + 1) - hpos[p] : p \in {r \in Producers : Holds(r)'}}
    BY Zenon DEF AEvicting
  <2>2. {r \in Producers : Holds(r)'} = {r \in Producers : Holds(r)}
    BY <1>0, <1>1, <1>7, Zenon
  <2>3. {(head + 1) - hpos[p] : p \in {r \in Producers : Holds(r)'}}
          = {(head - hpos[p]) + 1 : p \in {r \in Producers : Holds(r)}}
    BY <1>0, <1>2, <2>2, Zenon
  <2>4. {(head - hpos[p]) + 1 : p \in {r \in Producers : Holds(r)}} = {d + 1 : d \in AEvicting}
    BY Zenon DEF AEvicting
  <2> QED
    BY <2>1, <2>3, <2>4, Zenon
<1> QED
  BY <1>4, <1>5, <1>6, <1>7, Zenon

\* The steps of a producer that neither claim, publish, evict nor recycle.
LEMMA PlainPush ==
  ASSUME IInv, NEW p \in Producers, Push(p) \/ PushStep(p),
         ~(PushCas(p) /\ tail = tpos[p]), ~PushPublish(p), ~(EvictCas(p) /\ head = hpos[p]), ~EvictRecycle(p)
  PROVE  /\ head' = head
         /\ \A q \in Producers : (Claims(q)' <=> Claims(q)) /\ (Claims(q) => item'[q] = item[q])
         /\ \A t \in Threads : (Holds(t)' <=> Holds(t)) /\ (Holds(t) => hpos'[t] = hpos[t])
<1>0. /\ PcOK /\ p \in Threads /\ hpos \in [Threads -> Nat] /\ item \in [Producers -> Items \cup {NoItem}]
      /\ \A q \in Producers : q \in Threads
  BY Zenon DEF IInv, TypeOK, Threads
<1>1. \A u \in Threads \ {p} : pc'[u] = pc[u]
  BY <1>0, StepPc, Zenon
<1>2. /\ \A u \in Threads \ {p} : hpos'[u] = hpos[u]
      /\ \A q \in Producers \ {p} : item'[q] = item[q]
      /\ head' = head
  BY <1>0, ZenonT(30) DEF Push, PushStep, PushLoadTail, PushSeqReady, PushSeqFull, PushCas, PushWrite,
       PushPublish, PushDrop, EvictLoadHead, EvictLoadSeq, EvictCas, EvictRecycle, EvictCount,
       shared, locals, history
<1>3. \A l : Goto(p, l) => pc'[p] = l
  BY <1>0, Zenon DEF Goto, PcOK
<1>6. \A u \in Threads \ {p} : (Claims(u)' <=> Claims(u)) /\ (Holds(u)' <=> Holds(u))
  BY <1>1, Zenon DEF Claims, Holds
<1>4. CASE PushWrite(p)
  <2>1. pc[p] = "write" /\ pc'[p] = "publish" /\ item' = item
    BY <1>3, <1>4, Zenon DEF PushWrite, locals
  <2>2. Claims(p) /\ Claims(p)' /\ ~Holds(p) /\ ~Holds(p)'
    BY <2>1, Zenon DEF Claims, Holds
  <2> QED
    BY <1>0, <1>2, <1>6, <2>1, <2>2, Zenon
<1>5. CASE ~PushWrite(p)
  <2>1. ~Claims(p) /\ ~Holds(p)
    <3>1. pc[p] \notin {"write", "publish", "evictRecycle", "marshal", "popRecycle"}
      BY <1>5, ZenonT(30) DEF Push, PushStep, PushLoadTail, PushSeqReady, PushSeqFull, PushCas,
           PushDrop, EvictLoadHead, EvictLoadSeq, EvictCas, EvictCount
    <3> QED
      BY <3>1, Zenon DEF Claims, Holds
  <2>2. \E l \in {"loadTail", "loadSeq", "casTail", "drop", "idle", "evictHead", "evictSeq", "evictCas"} : Goto(p, l)
    BY <1>5, ZenonT(30) DEF Push, PushStep, PushLoadTail, PushSeqReady, PushSeqFull, PushCas,
         PushDrop, EvictLoadHead, EvictLoadSeq, EvictCas, EvictCount
  <2>3. ~Claims(p)' /\ ~Holds(p)'
    BY <1>3, <2>2, Zenon DEF Claims, Holds
  <2> QED
    BY <1>0, <1>2, <1>6, <2>1, <2>3, Zenon
<1> QED
  BY <1>4, <1>5, Zenon

\* One more slot than those behind the holder fits into the ring.
LEMMA RoomAhead ==
  ASSUME NEW h \in Nat, NEW l \in Nat, NEW N \in Nat, NEW k \in ((l + 1) - N)..(h - 1)
  PROVE  ~((l - h) + (h - k) >= N)
OBVIOUS

\* A Push that wins the compare-and-swap on tail found its slot free.
LEMMA ClaimStep ==
  ASSUME \E c : Consumers = {c}, IInv, IInv', NEW p \in Producers, PushCas(p), tail = tpos[p]
  PROVE  \E x \in Items : SlotView!Claim(x)
<1>0. /\ TheConsumer \in Consumers /\ PcOK /\ p \in Threads /\ \A q \in Producers : q \in Threads
      /\ TheConsumer \in Threads
  BY OneConsumer, Zenon DEF IInv, TypeOK, Threads
<1>1. /\ pc[p] = "casTail" /\ pc'[p] = "write" /\ \A u \in Threads \ {p} : pc'[u] = pc[u]
      /\ hpos' = hpos /\ item' = item /\ head' = head /\ tail' = tail + 1
  BY <1>0, Zenon DEF PushCas, Goto, PcOK, locals
<1>2. (\A t \in Threads : Holds(t)' <=> Holds(t)) /\ Claims(p)'
      /\ \A q \in Producers \ {p} : Claims(q)' <=> Claims(q)
  BY <1>0, <1>1, Zenon DEF Holds, Claims
<1>3. AHeld' = AHeld /\ AEvicting' = AEvicting
  BY <1>0, <1>1, <1>2, SameSlots, Zenon
<1>4. APending' = APending \cup {item[p]}
  <2>1. {r \in Producers : Claims(r)'} = {r \in Producers : Claims(r)} \cup {p}
    BY <1>2, Zenon
  <2> QED
    BY <1>1, <2>1, Zenon DEF APending
<1>5. /\ Len(AQueue) < QueueSize /\ AQueue' = Append(AQueue, item[p]) /\ item[p] \in Items
      /\ AReceived' = AReceived /\ ALost' = ALost
  BY AcceptStep, Zenon
<1>6. Len(AQueue) = tail - head /\ head \in Nat /\ tail \in Nat /\ QueueSize \in Nat
  <2>1. log \in Seq(Items) /\ Len(log) = tail /\ head \in 0..tail /\ tail \in Nat /\ head \in Nat /\ QueueSize \in Nat
    BY RingAssumption DEF IInv, TypeOK, CursorsOK
  <2>2. \A k \in (head + 1)..tail : log[k] \in Items
    BY <2>1, SeqElement
  <2> QED
    BY <2>1, <2>2, SubSeqFacts, SMTT(30) DEF AQueue
<1>7. \A t \in Threads : Holds(t) => ~(Len(AQueue) + (head - hpos[t]) >= QueueSize)
  <2>1. ASSUME NEW t \in Threads, Holds(t) PROVE ~(Len(AQueue) + (head - hpos[t]) >= QueueSize)
    <3>1. hpos'[t] \in (tail' - QueueSize)..(head' - 1)
      BY <1>2, <2>1, Zenon DEF IInv, HoldsOK
    <3>2. hpos[t] \in ((tail + 1) - QueueSize)..(head - 1)
      BY <1>1, <3>1, Zenon
    <3> QED
      BY <1>6, <3>2, RoomAhead, Zenon
  <2> QED
    BY <2>1, Zenon
<1>8. ~(Len(AQueue) + 0 >= QueueSize)
  BY <1>5, <1>6
<1>9. \A d \in {0, AHeld} \cup AEvicting : ~(Len(AQueue) + d >= QueueSize)
  BY <1>0, <1>7, <1>8, Zenon DEF AHeld, AEvicting
<1>10. PICK x \in Items : x = item[p]
  BY <1>5, Zenon
<1>11. SlotView!Claim(x)
  BY <1>3, <1>4, <1>5, <1>9, <1>10, ZenonT(30)
     DEF SlotView!Claim, SlotView!Enqueue, SlotView!NoFreeSlot, AQueue, AReceived, ALost, APending, AHeld, AEvicting
<1> QED
  BY <1>11, Zenon

\* What the two compare-and-swaps on head have in common.
LEMMA HeadReadyStep ==
  ASSUME IInv, IInv', ProducerOrder, NEW t \in Threads, pc[t] \in {"popCas", "evictCas"}, hpos[t] = head,
         head' = head + 1, tail' = tail, log' = log, taken' = Append(taken, t)
  PROVE  SlotView!HeadReady
<1>1. head < tail
  BY DEF IInv, CursorsOK, TypeOK
<1>2. AQueue # << >> /\ Head(AQueue) = log[head + 1]
  BY RemoveStep, Zenon
<1>3. log[head + 1] \notin APending
  BY <1>1, TakesPublished, Zenon
<1> QED
  BY <1>2, <1>3, Zenon DEF SlotView!HeadReady, AQueue, APending

\* Every step of the ring is a step of the queue with slots or leaves it alone.
LEMMA SlotStep ==
  ASSUME \E c : Consumers = {c}, IInv, IInv', ProducerOrder, EvictsByPolicy, [Next]_vars
  PROVE  [SlotView!SlotNext]_SlotView!slotVars
<1>0. /\ PcOK /\ TheConsumer \in Consumers /\ Consumers = {TheConsumer} /\ TheConsumer \in Threads
      /\ hpos \in [Threads -> Nat] /\ Producers \cap Consumers = {} /\ \A q \in Producers : q \in Threads
  BY OneConsumer, RingAssumption, Zenon DEF IInv, TypeOK, Threads
<1>s. ASSUME UNCHANGED <<AQueue, AReceived, ALost>>, UNCHANGED <<APending, AHeld, AEvicting>>
      PROVE  [SlotView!SlotNext]_SlotView!slotVars
  BY <1>s, ZenonT(30)
     DEF SlotView!slotVars, SlotView!vars, AQueue, AReceived, ALost, APending, AHeld, AEvicting
<1>1. ASSUME NEW p \in Producers, Push(p) \/ PushStep(p) PROVE [SlotView!SlotNext]_SlotView!slotVars
  <2>0. p \in Threads /\ (\A u \in Threads \ {p} : pc'[u] = pc[u]) /\ \A c \in Consumers : pc'[c] = pc[c]
    BY <1>0, <1>1, StepPc, Zenon DEF Threads
  <2>p. \A l : Goto(p, l) => pc'[p] = l
    BY <1>0, <2>0, Zenon DEF Goto, PcOK
  <2>1. CASE PushCas(p) /\ tail = tpos[p]
    <3>1. \E x \in Items : SlotView!Claim(x)
      BY <2>1, ClaimStep, Zenon
    <3> QED
      BY <3>1, Zenon DEF SlotView!SlotNext
  <2>2. CASE PushPublish(p)
    <3>1. /\ pc[p] = "publish" /\ pc'[p] = "idle" /\ UNCHANGED <<head, tail, log, taken, out, item, hpos>>
      BY <2>2, <2>p, Zenon DEF PushPublish, locals, history
    <3>2. /\ Claims(p) /\ ~Claims(p)' /\ (\A q \in Producers \ {p} : Claims(q)' <=> Claims(q))
          /\ \A t \in Threads : Holds(t)' <=> Holds(t)
      BY <1>0, <2>0, <3>1, Zenon DEF Claims, Holds
    <3>3. AHeld' = AHeld /\ AEvicting' = AEvicting
      BY <1>0, <3>1, <3>2, SameSlots, Zenon
    <3>4. \A q \in Producers : Claims(q) /\ item[q] = item[p] => q = p
      BY <3>2, ClaimantsDiffer, Zenon
    <3>5. {q \in Producers : Claims(q)'} = {q \in Producers : Claims(q)} \ {p}
      BY <3>2, Zenon
    <3>6. item[p] \in APending /\ APending' = APending \ {item[p]}
      BY <3>1, <3>2, <3>4, <3>5, Zenon DEF APending
    <3>7. UNCHANGED <<AQueue, AReceived, ALost>>
      BY <2>0, <3>1, StutterStep, Zenon
    <3>8. SlotView!Publish
      BY <3>3, <3>6, <3>7, ZenonT(30)
         DEF SlotView!Publish, SlotView!vars, AQueue, AReceived, ALost, APending, AHeld, AEvicting
    <3> QED
      BY <3>8, Zenon DEF SlotView!SlotNext
  <2>3. CASE EvictCas(p) /\ head = hpos[p]
    <3>1. /\ head' = head + 1 /\ tail' = tail /\ log' = log /\ taken' = Append(taken, p)
          /\ out' = out /\ hpos' = hpos /\ item' = item /\ pc[p] = "evictCas" /\ pc'[p] = "evictRecycle"
      BY <2>3, <2>p, Zenon DEF EvictCas, locals
    <3>2. Policy = "DropOldest"
      BY <3>1, Zenon DEF EvictsByPolicy
    <3>3. /\ AQueue # << >> /\ AQueue' = Tail(AQueue) /\ ALost' = ALost \cup {Head(AQueue)}
      BY <2>0, <3>1, RemoveStep, Zenon
    <3>4. AReceived' = AReceived
      BY <2>0, <3>1, Zenon DEF AReceived, Values
    <3>5. SlotView!HeadReady
      BY <2>0, <2>3, <3>1, HeadReadyStep, Zenon
    <3>6. ~Claims(p) /\ ~Claims(p)' /\ ~Holds(p) /\ Holds(p)'
      BY <3>1, Zenon DEF Claims, Holds
    <3>7. APending' = APending
      <4>1. \A q \in Producers : (Claims(q)' <=> Claims(q)) /\ item'[q] = item[q]
        BY <1>0, <2>0, <3>1, <3>6, Zenon DEF Claims
      <4> QED
        BY <4>1, SamePending, Zenon
    <3>8. AEvicting' = {d + 1 : d \in AEvicting} \cup {1} /\ AHeld' = (IF AHeld = 0 THEN 0 ELSE AHeld + 1)
      BY <1>0, <2>0, <2>3, <3>1, <3>6, SlotsRecede, Zenon
    <3>9. SlotView!Evict
      BY <3>2, <3>3, <3>4, ZenonT(30) DEF SlotView!Evict, AQueue, AReceived, ALost
    <3>10. SlotView!EvictHead
      BY <3>5, <3>7, <3>8, <3>9, ZenonT(30) DEF SlotView!EvictHead, SlotView!Farther, APending, AHeld, AEvicting
    <3> QED
      BY <3>10, Zenon DEF SlotView!SlotNext
  <2>4. CASE EvictRecycle(p)
    <3>1. /\ pc[p] = "evictRecycle" /\ pc'[p] = "evictCount"
          /\ UNCHANGED <<head, tail, log, taken, out, item, hpos>>
      BY <2>4, <2>p, Zenon DEF EvictRecycle, locals, history
    <3>2. /\ Holds(p) /\ ~Holds(p)' /\ (\A t \in Threads \ {p} : Holds(t)' <=> Holds(t))
          /\ \A q \in Producers : (Claims(q)' <=> Claims(q)) /\ item'[q] = item[q]
      BY <1>0, <2>0, <3>1, Zenon DEF Claims, Holds
    <3>3. APending' = APending
      BY <3>2, SamePending, Zenon
    <3>4. AHeld' = AHeld
      <4>1. TheConsumer # p /\ TheConsumer' = TheConsumer
        BY <1>0, Zenon DEF TheConsumer
      <4>2. Holds(TheConsumer)' <=> Holds(TheConsumer)
        BY <1>0, <3>2, <4>1, Zenon
      <4> QED
        BY <3>1, <4>1, <4>2, Zenon DEF AHeld
    <3>5. \A q \in Producers : Holds(q) /\ head - hpos[q] = head - hpos[p] => q = p
      <4>1. ASSUME NEW q \in Producers, Holds(q), head - hpos[q] = head - hpos[p] PROVE q = p
        <5>1. head \in Nat /\ hpos[q] \in Nat /\ hpos[p] \in Nat
          BY <1>0, <2>0, <3>2, <4>1, HolderBehind, Zenon
        <5>2. hpos[q] = hpos[p]
          BY <4>1, <5>1
        <5> QED
          BY <1>0, <2>0, <3>2, <4>1, <5>2, Zenon DEF IInv, HoldsOK
      <4> QED
        BY <4>1, Zenon
    <3>6. {q \in Producers : Holds(q)'} = {q \in Producers : Holds(q)} \ {p}
      BY <1>0, <3>2, Zenon
    <3>7. head - hpos[p] \in AEvicting /\ AEvicting' = AEvicting \ {head - hpos[p]}
      BY <3>1, <3>2, <3>5, <3>6, Zenon DEF AEvicting
    <3>8. UNCHANGED <<AQueue, AReceived, ALost>>
      BY <2>0, <3>1, StutterStep, Zenon
    <3>9. SlotView!Recycle
      BY <3>3, <3>4, <3>7, <3>8, ZenonT(30)
         DEF SlotView!Recycle, SlotView!vars, AQueue, AReceived, ALost, APending, AHeld, AEvicting
    <3> QED
      BY <3>9, Zenon DEF SlotView!SlotNext
  <2>5. CASE ~(PushCas(p) /\ tail = tpos[p]) /\ ~PushPublish(p) /\ ~(EvictCas(p) /\ head = hpos[p]) /\ ~EvictRecycle(p)
    <3>1. UNCHANGED <<head, tail, log, taken, out>>
      BY <1>1, <2>5, ZenonT(30) DEF Push, PushStep, PushLoadTail, PushSeqReady, PushSeqFull, PushCas, PushWrite,
           PushPublish, PushDrop, EvictLoadHead, EvictLoadSeq, EvictCas, EvictRecycle, EvictCount,
           shared, locals, history
    <3>2. /\ \A q \in Producers : (Claims(q)' <=> Claims(q)) /\ (Claims(q) => item'[q] = item[q])
          /\ \A t \in Threads : (Holds(t)' <=> Holds(t)) /\ (Holds(t) => hpos'[t] = hpos[t])
      BY <1>1, <2>5, PlainPush, Zenon
    <3>3. \A c \in Consumers : pc[c] = "marshal" => hpos'[c] = hpos[c]
      BY <3>2, Zenon DEF Holds, Threads
    <3>4. UNCHANGED <<AQueue, AReceived, ALost>>
      BY <2>0, <3>1, <3>3, StutterStep, Zenon
    <3>5. UNCHANGED <<APending, AHeld, AEvicting>>
      BY <1>0, <3>1, <3>2, SamePending, SameSlots, Zenon
    <3> QED
      BY <1>s, <3>4, <3>5, Zenon
  <2> QED
    BY <2>1, <2>2, <2>3, <2>4, <2>5, Zenon
<1>2. ASSUME NEW c \in Consumers, PopStep(c) PROVE [SlotView!SlotNext]_SlotView!slotVars
  <2>0. /\ c = TheConsumer /\ c \in Threads /\ c \notin Producers /\ (\A u \in Threads \ {c} : pc'[u] = pc[u])
        /\ \A l : Goto(c, l) => pc'[c] = l
    <3>1. c = TheConsumer /\ c \in Threads /\ c \notin Producers
      BY <1>0, Zenon
    <3>2. \A u \in Threads \ {c} : pc'[u] = pc[u]
      BY <1>0, <1>2, <3>1, StepPc, Zenon
    <3>3. \A l : Goto(c, l) => pc'[c] = l
      BY <1>0, <3>1, Zenon DEF Goto, PcOK
    <3> QED
      BY <3>1, <3>2, <3>3, Zenon
  <2>a. /\ item' = item /\ \A q \in Producers : Claims(q)' <=> Claims(q)
    <3>1. item' = item
      BY <1>2, Zenon DEF PopStep, PopLoadHead, PopLoadSeq, PopCas, PopMarshal, PopRecycle, locals
    <3>2. \A q \in Producers : pc'[q] = pc[q]
      BY <1>0, <2>0, Zenon
    <3> QED
      BY <3>1, <3>2, Zenon DEF Claims
  <2>b. APending' = APending
    BY <2>a, SamePending, Zenon
  <2>1. CASE PopCas(c) /\ head = hpos[c]
    <3>1. /\ head' = head + 1 /\ tail' = tail /\ log' = log /\ taken' = Append(taken, c) /\ hpos' = hpos
          /\ pc[c] = "popCas" /\ pc'[c] = "marshal"
      BY <2>0, <2>1, Zenon DEF PopCas, locals
    <3>2. SlotView!HeadReady
      BY <2>0, <2>1, <3>1, HeadReadyStep, Zenon
    <3>3. ~Holds(c) /\ Holds(c)'
      BY <3>1, Zenon DEF Holds
    <3>4. AHeld = 0 /\ AHeld' = 1 /\ AEvicting' = {d + 1 : d \in AEvicting}
      BY <1>0, <2>0, <2>1, <3>1, <3>3, SlotsRecede, Zenon
    <3>5. SlotView!Dequeue(c)
      BY <2>1, DequeueStep, Zenon DEF Abstract!Dequeue, SlotView!Dequeue
    <3>6. SlotView!Take(c)
      BY <2>b, <3>2, <3>4, <3>5, ZenonT(30) DEF SlotView!Take, SlotView!Farther, APending, AHeld, AEvicting
    <3> QED
      BY <3>6, Zenon DEF SlotView!SlotNext
  <2>2. CASE PopMarshal(c)
    <3>1. pc[c] = "marshal" /\ pc'[c] = "popRecycle" /\ hpos' = hpos /\ head' = head
      BY <2>0, <2>2, Zenon DEF PopMarshal, shared, locals
    <3>2. \A t \in Threads : Holds(t)' <=> Holds(t)
      BY <2>0, <3>1, Zenon DEF Holds
    <3>3. UNCHANGED <<APending, AHeld, AEvicting>>
      BY <1>0, <2>b, <3>1, <3>2, SameSlots, Zenon
    <3> QED
      BY <1>s, <2>2, <3>3, MarshalStep, Zenon
  <2>3. CASE PopRecycle(c)
    <3>1. /\ pc[c] = "popRecycle" /\ pc'[c] = "idle" /\ UNCHANGED <<head, tail, log, taken, out, hpos>>
      BY <2>0, <2>3, Zenon DEF PopRecycle, locals, history
    <3>2. Holds(c) /\ ~Holds(c)' /\ \A q \in Producers : Holds(q)' <=> Holds(q)
      BY <1>0, <2>0, <3>1, Zenon DEF Holds
    <3>3. AEvicting' = AEvicting
      BY <3>1, <3>2, Zenon DEF AEvicting
    <3>4. AHeld # 0 /\ AHeld' = 0
      <4>1. AHeld = head - hpos[c] /\ AHeld' = 0
        BY <1>0, <2>0, <3>2, Zenon DEF AHeld, TheConsumer
      <4>2. head - hpos[c] \in Nat /\ head - hpos[c] >= 1
        BY <2>0, <3>2, HolderBehind, Zenon
      <4> QED
        BY <4>1, <4>2
    <3>5. UNCHANGED <<AQueue, AReceived, ALost>>
      <4>1. \A d \in Consumers : d = c
        BY <1>0, <2>0, Zenon
      <4>2. /\ \A d \in Consumers : (pc'[d] = "marshal") = (pc[d] = "marshal")
            /\ \A d \in Consumers : hpos'[d] = hpos[d]
        BY <3>1, <4>1, Zenon
      <4> QED
        BY <3>1, <4>2, StutterStep, Zenon
    <3>6. SlotView!Release
      BY <2>b, <3>3, <3>4, <3>5, ZenonT(30)
         DEF SlotView!Release, SlotView!vars, AQueue, AReceived, ALost, APending, AHeld, AEvicting
    <3> QED
      BY <3>6, Zenon DEF SlotView!SlotNext
  <2>4. CASE PopLoadHead(c) \/ PopLoadSeq(c) \/ (PopCas(c) /\ head # hpos[c])
    <3>1. UNCHANGED <<head, tail, log, taken, out>>
      BY <2>4, Zenon DEF PopLoadHead, PopLoadSeq, PopCas, shared, locals, history
    <3>2. /\ pc[c] \in {"idle", "popHead", "popSeq", "popCas"}
          /\ \E l \in {"popSeq", "popCas", "idle", "popHead"} : Goto(c, l)
      BY <2>4, ZenonT(30) DEF PopLoadHead, PopLoadSeq, PopCas
    <3>3. pc'[c] \in {"popSeq", "popCas", "idle", "popHead"}
      BY <2>0, <3>2, Zenon
    <3>4. \A t \in Threads \ {c} : hpos'[t] = hpos[t]
      BY <1>0, <2>0, <2>4, ZenonT(30) DEF PopLoadHead, PopLoadSeq, PopCas, locals
    <3>5. \A t \in Threads : (Holds(t)' <=> Holds(t)) /\ (Holds(t) => hpos'[t] = hpos[t])
      BY <2>0, <3>2, <3>3, <3>4, Zenon DEF Holds
    <3>6. UNCHANGED <<APending, AHeld, AEvicting>>
      BY <1>0, <2>b, <3>1, <3>5, SameSlots, Zenon
    <3>7. UNCHANGED <<AQueue, AReceived, ALost>>
      <4>1. \A d \in Consumers : d = c
        BY <1>0, <2>0, Zenon
      <4>2. /\ \A d \in Consumers : (pc'[d] = "marshal") = (pc[d] = "marshal")
            /\ \A d \in Consumers : pc[d] # "marshal"
        BY <3>2, <3>3, <4>1, Zenon
      <4> QED
        BY <3>1, <4>2, StutterStep, Zenon
    <3> QED
      BY <1>s, <3>6, <3>7, Zenon
  <2> QED
    BY <1>2, <2>1, <2>2, <2>3, <2>4, Zenon DEF PopStep
<1>3. CASE UNCHANGED vars
  <2>1. UNCHANGED <<head, tail, log, taken, out, pc, hpos, item>>
    BY <1>3, Zenon DEF vars, shared, locals, history
  <2>2. UNCHANGED <<AQueue, AReceived, ALost>>
    BY <2>1, StutterStep, Zenon
  <2>3. /\ \A q \in Producers : Claims(q)' <=> Claims(q)
        /\ \A u \in Threads : Holds(u)' <=> Holds(u)
    BY <2>1, Zenon DEF Claims, Holds
  <2>4. UNCHANGED <<APending, AHeld, AEvicting>>
    BY <1>0, <2>1, <2>3, SamePending, SameSlots, Zenon
  <2> QED
    BY <1>s, <2>2, <2>4, Zenon
<1> QED
  BY <1>1, <1>2, <1>3, Zenon DEF Next

\* With one consumer ringbuf.go implements the queue with slots that the engine's model
\* uses, for any number of producers, both policies and every QueueSize from two up: a
\* Push succeeds only on a recycled slot, only published items are taken or evicted, and
\* a slot whose holder is between its compare-and-swap on head and the store that
\* recycles it is not given away.
THEOREM RingIsSlotQueue ==
  ASSUME QueueSize >= 2, \E c : Consumers = {c}
  PROVE  Spec => RefinesSlots
<1>1. Init => SlotView!SlotInit
  <2> SUFFICES ASSUME Init PROVE SlotView!SlotInit
    BY Zenon
  <2>1. Abstract!Init
    BY InitIsEmpty, Zenon
  <2>2. \A t \in Threads : ~Claims(t) /\ ~Holds(t)
    BY Zenon DEF Init, Claims, Holds
  <2>3. APending = {} /\ AHeld = 0 /\ AEvicting = {}
    BY <2>2, OneConsumer, Zenon DEF APending, AHeld, AEvicting, Threads
  <2> QED
    BY <2>1, <2>3, Zenon DEF SlotView!SlotInit, SlotView!Init, Abstract!Init, APending, AHeld, AEvicting
<1>2. Spec => []EvictsByPolicy
  BY EvictsByPolicyInit, EvictsByPolicyStep, TypeCorrect, PTL DEF Spec
<1>3. []IInv /\ []ProducerOrder /\ []EvictsByPolicy /\ [][Next]_vars => [][SlotView!SlotNext]_SlotView!slotVars
  <2>1. IInv /\ IInv' /\ ProducerOrder /\ EvictsByPolicy /\ [Next]_vars => [SlotView!SlotNext]_SlotView!slotVars
    BY SlotStep, Zenon
  <2> QED
    BY <2>1, PTL
<1> QED
  BY <1>1, <1>2, <1>3, RingInvariant, PushesInOrder, PTL DEF Spec, RefinesSlots, SlotView!SlotSpec

=============================================================================
