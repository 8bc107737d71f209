---------------------------- MODULE RingBufTypes ----------------------------
(***************************************************************************)
(* Which slot a position uses, type correctness of RingBuf, what each step *)
(* does to the calls in progress, and the order of each producer's items.  *)
(* All of it follows from the control flow alone, whatever the cells hold, *)
(* and so for every QueueSize.                                             *)
(***************************************************************************)
EXTENDS RingBuf, TLAPS

\* The window of positions a producer may claim grows by one when head does.
LEMMA NextWindow ==
  ASSUME NEW h \in Nat, NEW N \in Nat
  PROVE  (h + 1) + N - 1 = h + N
OBVIOUS

\* pos & mask is always a valid index of the slot arrays.
LEMMA IdxInSlots ==
  ASSUME NEW p \in Nat
  PROVE  Idx(p) \in Slots
BY RingAssumption DEF Idx, Slots

\* A position is its lap times QueueSize plus its slot index.
LEMMA DivMod ==
  ASSUME NEW p \in Nat
  PROVE  /\ p \div QueueSize \in Nat
         /\ p % QueueSize \in 0..(QueueSize - 1)
         /\ p = QueueSize * (p \div QueueSize) + (p % QueueSize)
<1>1. QueueSize \in Nat /\ QueueSize > 0
  BY RingAssumption
<1>2. p % QueueSize \in 0..(QueueSize - 1)
  BY <1>1
<1>3. p \div QueueSize \in Nat
  BY <1>1
<1>4. p = QueueSize * (p \div QueueSize) + (p % QueueSize)
  BY <1>1
<1> QED BY <1>2, <1>3, <1>4, Zenon

\* Positions of different laps are at least one lap apart.
LEMMA MulGap ==
  ASSUME NEW N \in Nat, NEW a \in Nat, NEW b \in Nat, a < b
  PROVE  N * b >= N * a + N
<1> DEFINE d == b - a - 1
<1>1. d \in Nat /\ b = a + 1 + d
  OBVIOUS
<1>2. N * d >= 0
  BY <1>1
<1>3. N * b = N * a + N + N * d
  BY <1>1
<1> HIDE DEF d
<1>4. N * b \in Int /\ N * a \in Int /\ N * d \in Int
  BY <1>1
<1> QED BY <1>2, <1>3, <1>4

\* Lap and slot index determine each other: remainders are unique.
LEMMA ModUnique ==
  ASSUME NEW N \in Nat, NEW a \in Nat, NEW b \in Nat,
         NEW r \in 0..(N - 1), NEW s \in 0..(N - 1),
         N * a + r = N * b + s
  PROVE  r = s
<1>0. N * a \in Int /\ N * b \in Int
  OBVIOUS
<1>1. CASE a = b
  BY <1>0, <1>1
<1>2. CASE a < b
  <2>1. N * b >= N * a + N
    BY <1>2, MulGap, Zenon
  <2> QED BY <1>0, <2>1
<1>3. CASE b < a
  <2>1. N * a >= N * b + N
    BY <1>3, MulGap, Zenon
  <2> QED BY <1>0, <2>1
<1> QED BY <1>1, <1>2, <1>3

\* A position and the one a lap later use the same slot, which is why
\* recycling stores pos + mask + 1 for the next producer.
LEMMA IdxNextLap ==
  ASSUME NEW p \in Nat
  PROVE  Idx(p + QueueSize) = Idx(p)
<1> DEFINE a == p \div QueueSize
           b == (p + QueueSize) \div QueueSize
           r == p % QueueSize
           s == (p + QueueSize) % QueueSize
<1>0. QueueSize \in Nat
  BY RingAssumption, Zenon
<1>1. a \in Nat /\ r \in 0..(QueueSize - 1) /\ p = QueueSize * a + r
  BY DivMod, Zenon
<1>2. p + QueueSize \in Nat
  BY <1>0
<1>3. b \in Nat /\ s \in 0..(QueueSize - 1) /\ p + QueueSize = QueueSize * b + s
  BY <1>2, DivMod, Zenon
<1> HIDE DEF a, b, r, s
<1>4. QueueSize * (a + 1) + r = QueueSize * b + s
  <2>1. QueueSize * (a + 1) = QueueSize * a + QueueSize
    BY <1>0, <1>1
  <2> QED BY <1>0, <1>1, <1>3, <2>1
<1>5. a + 1 \in Nat
  BY <1>1
<1>6. r = s
  BY <1>0, <1>1, <1>3, <1>4, <1>5, ModUnique, Zenon
<1> QED BY <1>6, Zenon DEF Idx, r, s

\* Positions less than a lap apart use different slots.
LEMMA IdxDistinct ==
  ASSUME NEW p \in Nat, NEW q \in Nat, p < q, q < p + QueueSize
  PROVE  Idx(p) # Idx(q)
<1> DEFINE a == p \div QueueSize
           b == q \div QueueSize
           r == p % QueueSize
           s == q % QueueSize
<1>0. QueueSize \in Nat
  BY RingAssumption, Zenon
<1>1. a \in Nat /\ r \in 0..(QueueSize - 1) /\ p = QueueSize * a + r
  BY DivMod, Zenon
<1>2. b \in Nat /\ s \in 0..(QueueSize - 1) /\ q = QueueSize * b + s
  BY DivMod, Zenon
<1> HIDE DEF a, b, r, s
<1>3. SUFFICES ASSUME r = s PROVE FALSE
  BY Zenon DEF Idx, r, s
<1>4. QueueSize * a \in Int /\ QueueSize * b \in Int
  BY <1>0, <1>1, <1>2
<1>5. CASE a < b
  <2>1. QueueSize * b >= QueueSize * a + QueueSize
    BY <1>0, <1>1, <1>2, <1>5, MulGap, Zenon
  <2> QED BY <1>0, <1>1, <1>2, <1>3, <1>4, <2>1
<1>6. CASE b <= a
  <2>1. CASE b = a
    BY <1>1, <1>2, <1>3, <1>4, <2>1
  <2>2. CASE b < a
    <3>1. QueueSize * a >= QueueSize * b + QueueSize
      BY <1>0, <1>1, <1>2, <2>2, MulGap, Zenon
    <3> QED BY <1>0, <1>1, <1>2, <1>3, <1>4, <3>1
  <2> QED BY <1>1, <1>2, <1>6, <2>1, <2>2
<1> QED BY <1>1, <1>2, <1>5, <1>6

\* Two live positions that use one slot are the same position.
LEMMA SameSlot ==
  ASSUME NEW a \in Nat, NEW b \in Nat, Idx(a) = Idx(b),
         a < b + QueueSize, b < a + QueueSize
  PROVE  a = b
<1>1. CASE a < b
  BY <1>1, IdxDistinct, Zenon
<1>2. CASE b < a
  BY <1>2, IdxDistinct, Zenon
<1> QED BY <1>1, <1>2

\* newRingbuf: slot i starts as the slot of position i.
LEMMA IdxInit ==
  ASSUME NEW i \in Slots
  PROVE  Idx(i) = i
BY RingAssumption DEF Idx, Slots

-----------------------------------------------------------------------------
\* A jump of one thread keeps every program counter in its type and
\* moves no other thread.
LEMMA GotoPc ==
  ASSUME PcOK, NEW t \in Threads, NEW l, Goto(t, l),
         t \in Producers => l \in PushLabels,
         t \in Consumers => l \in PopLabels
  PROVE  /\ PcOK'
         /\ pc'[t] = l
         /\ \A u \in Threads \ {t} : pc'[u] = pc[u]
<1>1. pc' = [pc EXCEPT ![t] = l] /\ l \in PushLabels \cup PopLabels
  BY Zenon DEF Goto, Threads
<1>2. pc' \in [Threads -> PushLabels \cup PopLabels]
  BY <1>1, Zenon DEF PcOK
<1>3. pc'[t] = l /\ \A u \in Threads \ {t} : pc'[u] = pc[u]
  BY <1>1, Zenon DEF PcOK
<1> QED BY <1>2, <1>3, Zenon DEF PcOK, Threads

\* newRingbuf establishes the types.
LEMMA TypeInit == Init => TypeOK
BY RingAssumption DEF Init, TypeOK, PcOK, ItemOK, Slots, Threads, PushLabels, PopLabels

\* A step of a thread moves its own program counter to a label of its kind.
LEMMA StepPc ==
  ASSUME PcOK, NEW t \in Threads, (t \in Producers /\ (Push(t) \/ PushStep(t))) \/ (t \in Consumers /\ PopStep(t))
  PROVE  PcOK' /\ \A u \in Threads \ {t} : pc'[u] = pc[u]
<1>1. CASE t \in Producers /\ (Push(t) \/ PushStep(t))
  <2>1. \E l \in PushLabels : Goto(t, l)
    BY <1>1, Zenon DEF Push, PushStep, PushLoadTail, PushSeqReady, PushSeqFull, PushCas,
      PushWrite, PushPublish, PushDrop, EvictLoadHead, EvictLoadSeq, EvictCas,
      EvictRecycle, EvictCount, PushLabels
  <2> QED BY <1>1, <2>1, GotoPc, RingAssumption, Zenon
<1>2. CASE t \in Consumers /\ PopStep(t)
  <2>1. \E l \in PopLabels : Goto(t, l)
    BY <1>2, Zenon DEF PopStep, PopLoadHead, PopLoadSeq, PopCas, PopMarshal, PopRecycle, PopLabels
  <2> QED BY <1>2, <2>1, GotoPc, RingAssumption, Zenon
<1> QED BY <1>1, <1>2, Zenon

\* A producer inside push always holds the item it was called with.
LEMMA StepItem ==
  ASSUME TypeOK, [Next]_vars
  PROVE  ItemOK'
<1> USE DEF TypeOK, ItemOK
<1>1. ASSUME NEW p \in Producers, Push(p) PROVE ItemOK'
  <2>1. item' = [item EXCEPT ![p] = <<p, pushed[p] + 1>>]
    BY <1>1, Zenon DEF Push
  <2>2. <<p, pushed[p] + 1>> \in Items
    BY <1>1, RingAssumption DEF Push, Items
  <2>3. \A q \in Producers \ {p} : pc'[q] = pc[q]
    BY <1>1, StepPc, Zenon DEF Threads
  <2> QED BY <2>1, <2>2, <2>3, Zenon
<1>2. ASSUME NEW p \in Producers, PushStep(p) PROVE ItemOK'
  <2>1. item' = item /\ pc[p] # "idle"
    BY <1>2, Zenon DEF PushStep, PushLoadTail, PushSeqReady, PushSeqFull, PushCas,
      PushWrite, PushPublish, PushDrop, EvictLoadHead, EvictLoadSeq, EvictCas,
      EvictRecycle, EvictCount, locals
  <2>2. \A q \in Producers \ {p} : pc'[q] = pc[q]
    BY <1>2, StepPc, Zenon DEF Threads
  <2> QED BY <2>1, <2>2, Zenon
<1>3. ASSUME NEW c \in Consumers, PopStep(c) PROVE ItemOK'
  <2>1. item' = item
    BY <1>3, Zenon DEF PopStep, PopLoadHead, PopLoadSeq, PopCas, PopMarshal, PopRecycle, locals
  <2>2. \A q \in Producers : pc'[q] = pc[q]
    BY <1>3, StepPc, RingAssumption DEF Threads
  <2> QED BY <2>1, <2>2, Zenon
<1>4. CASE UNCHANGED vars
  BY <1>4, Zenon DEF vars, locals
<1> QED BY <1>1, <1>2, <1>3, <1>4, Zenon DEF Next

\* Every step of push, evictOldest and popMarshal preserves the types.
LEMMA TypeStep == TypeOK /\ [Next]_vars => TypeOK'
<1> SUFFICES ASSUME TypeOK, [Next]_vars PROVE TypeOK'
  BY Zenon
<1> USE DEF TypeOK
<1>i. ItemOK'
  BY StepItem, Zenon
<1>0. \A t \in Threads : Idx(hpos[t]) \in Slots
  BY IdxInSlots, Zenon
<1>1. ASSUME NEW p \in Producers, Push(p) \/ PushStep(p) PROVE TypeOK'
  <2>0. PcOK' /\ p \in Threads
    BY <1>1, StepPc, Zenon DEF Threads
  <2>i. Idx(tpos[p]) \in Slots
    BY IdxInSlots, Zenon
  <2> USE <1>i, <2>0
  <2>p. CASE Push(p)
    <3>1. <<p, pushed[p] + 1>> \in Items /\ pushed[p] + 1 \in 0..MaxPush
      BY <2>p, RingAssumption DEF Push, Items
    <3> QED BY <2>p, <3>1, Zenon DEF Push, shared
  <2>1. CASE PushLoadTail(p)
    BY <2>1, Zenon DEF PushLoadTail, shared, history
  <2>2. CASE PushSeqReady(p)
    BY <2>2, Zenon DEF PushSeqReady, shared, locals, history
  <2>3. CASE PushSeqFull(p)
    BY <2>3 DEF PushSeqFull, shared, history
  <2>4. CASE PushCas(p)
    <3>1. item[p] \in Items
      BY <2>4, Zenon DEF PushCas, ItemOK
    <3>a. \/ log' = log /\ tail' = tail
          \/ log' = Append(log, item[p]) /\ tail' = tpos[p] + 1
      BY <2>4, Zenon DEF PushCas
    <3>b. Append(log, item[p]) \in Seq(Items)
      BY <3>1
    <3>2. log' \in Seq(Items)
      BY <3>a, <3>b, Zenon
    <3>3. tail' \in Nat
      BY <3>a
    <3> QED BY <2>4, <3>2, <3>3, Zenon DEF PushCas, locals
  <2>5. CASE PushWrite(p)
    BY <2>i, <2>5, Zenon DEF PushWrite, locals, history
  <2>6. CASE PushPublish(p)
    BY <2>i, <2>6 DEF PushPublish, PublishedSeq, locals, history
  <2>7. CASE PushDrop(p)
    BY <2>7 DEF PushDrop, locals, history
  <2>8. CASE EvictLoadHead(p)
    BY <2>8, Zenon DEF EvictLoadHead, shared, history
  <2>9. CASE EvictLoadSeq(p)
    BY <2>9, Zenon DEF EvictLoadSeq, shared, locals, history
  <2>10. CASE EvictCas(p)
    <3>a. \/ taken' = taken /\ head' = head
          \/ taken' = Append(taken, p) /\ head' = hpos[p] + 1
      BY <2>10, Zenon DEF EvictCas
    <3>b. Append(taken, p) \in Seq(Threads)
      OBVIOUS
    <3>1. taken' \in Seq(Threads)
      BY <3>a, <3>b, Zenon
    <3>2. head' \in Nat
      BY <3>a
    <3> QED BY <2>10, <3>1, <3>2, Zenon DEF EvictCas, locals
  <2>11. CASE EvictRecycle(p)
    <3>1. seqs' \in [Slots -> Nat]
      BY <1>0, <2>11, RingAssumption DEF EvictRecycle, RecycledSeq
    <3> QED BY <2>11, <3>1, Zenon DEF EvictRecycle, locals, history
  <2>12. CASE EvictCount(p)
    BY <2>12 DEF EvictCount, locals, history
  <2> QED BY <1>1, <2>p, <2>1, <2>2, <2>3, <2>4, <2>5, <2>6, <2>7, <2>8, <2>9,
             <2>10, <2>11, <2>12, ZenonT(30) DEF PushStep
<1>2. ASSUME NEW c \in Consumers, PopStep(c) PROVE TypeOK'
  <2>0. PcOK' /\ c \in Threads
    BY <1>2, StepPc, Zenon DEF Threads
  <2> USE <1>i, <2>0
  <2>1. CASE PopLoadHead(c)
    BY <2>1, Zenon DEF PopLoadHead, shared, history
  <2>2. CASE PopLoadSeq(c)
    BY <2>2, Zenon DEF PopLoadSeq, shared, locals, history
  <2>3. CASE PopCas(c)
    <3>a. \/ taken' = taken /\ head' = head
          \/ taken' = Append(taken, c) /\ head' = hpos[c] + 1
      BY <2>3, Zenon DEF PopCas
    <3>b. Append(taken, c) \in Seq(Threads)
      OBVIOUS
    <3>1. taken' \in Seq(Threads)
      BY <3>a, <3>b, Zenon
    <3>2. head' \in Nat
      BY <3>a
    <3> QED BY <2>3, <3>1, <3>2, Zenon DEF PopCas, locals
  <2>4. CASE PopMarshal(c)
    BY <1>0, <2>4, SMTT(30) DEF PopMarshal, shared, locals
  <2>5. CASE PopRecycle(c)
    <3>1. seqs' \in [Slots -> Nat]
      BY <1>0, <2>5, RingAssumption DEF PopRecycle, RecycledSeq
    <3> QED BY <2>5, <3>1, Zenon DEF PopRecycle, locals, history
  <2> QED BY <1>2, <2>1, <2>2, <2>3, <2>4, <2>5, Zenon DEF PopStep
<1>3. CASE UNCHANGED vars
  BY <1>i, <1>3, Zenon DEF vars, shared, locals, history, PcOK
<1> QED BY <1>1, <1>2, <1>3, Zenon DEF Next

\* The variables of push, evictOldest and popMarshal stay in their types,
\* for every number of threads and every QueueSize.
THEOREM TypeCorrect == Spec => []TypeOK
<1>1. TypeOK /\ [Next]_vars => TypeOK'
  BY TypeStep, Zenon
<1> QED BY TypeInit, <1>1, PTL DEF Spec

-----------------------------------------------------------------------------
(* Order and counts                                                        *)

\* Push calls that are neither accepted nor counted as dropped yet; evictions that
\* are not counted yet.
Undecided == {p \in Producers : pc[p] \notin {"idle", "write", "publish"}}
Evicting  == {p \in Producers : pc[p] \in {"evictRecycle", "evictCount"}}

\* The steps that decide something, by what they do to the history and the counters.
Enters(p) ==
  /\ p \notin Undecided /\ Undecided' = Undecided \cup {p} /\ pushed[p] < MaxPush
  /\ pushed' = [pushed EXCEPT ![p] = @ + 1]
  /\ item' = [item EXCEPT ![p] = <<p, pushed[p] + 1>>]
  /\ UNCHANGED <<Evicting, log, taken, dropped, evicted>>

Accepted(p) ==
  /\ p \in Undecided /\ Undecided' = Undecided \ {p}
  /\ log' = Append(log, item[p])
  /\ UNCHANGED <<Evicting, item, pushed, taken, dropped, evicted>>

Refused(p) ==
  /\ p \in Undecided /\ Undecided' = Undecided \ {p}
  /\ dropped' = dropped + 1
  /\ UNCHANGED <<Evicting, item, pushed, log, taken, evicted>>

Takes(t) ==
  /\ taken' = Append(taken, t)
  /\ IF t \in Producers THEN t \notin Evicting /\ Evicting' = Evicting \cup {t}
                        ELSE Evicting' = Evicting
  /\ UNCHANGED <<Undecided, item, pushed, log, dropped, evicted>>

Counted(p) ==
  /\ p \in Evicting /\ Evicting' = Evicting \ {p}
  /\ evicted' = evicted + 1
  /\ UNCHANGED <<Undecided, item, pushed, log, taken, dropped>>

\* Which steps of push, evictOldest and popMarshal decide what; the others leave the
\* history and the counters alone.
LEMMA StepEffects ==
  ASSUME TypeOK, [Next]_vars
  PROVE  \/ \E p \in Producers : Enters(p) \/ Accepted(p) \/ Refused(p) \/ Counted(p)
         \/ \E t \in Threads : Takes(t)
         \/ UNCHANGED <<Undecided, Evicting, item, pushed, log, taken, dropped, evicted>>
<1>0. PcOK /\ pushed \in [Producers -> 0..MaxPush] /\ item \in [Producers -> Items \cup {NoItem}]
  BY Zenon DEF TypeOK
<1>1. ASSUME NEW p \in Producers, NEW l, Goto(p, l)
      PROVE  /\ p \in Threads /\ pc'[p] = l
             /\ \A r \in Producers \ {p} : pc'[r] = pc[r]
  BY <1>0, <1>1, ZenonT(30) DEF Goto, PcOK, Threads
<1>2. ASSUME NEW c \in Consumers, NEW l, Goto(c, l)
      PROVE  Undecided' = Undecided /\ Evicting' = Evicting
  <2>1. \A r \in Producers : pc'[r] = pc[r]
    BY <1>0, <1>2, RingAssumption, Zenon DEF Goto, PcOK, Threads
  <2> QED
    BY <2>1, Zenon DEF Undecided, Evicting
<1>3. ASSUME NEW p \in Producers, NEW l, Goto(p, l)
      PROVE  /\ l \notin {"idle", "write", "publish"} => Undecided' = Undecided \cup {p}
             /\ l \in {"idle", "write", "publish"} => Undecided' = Undecided \ {p}
             /\ l \in {"evictRecycle", "evictCount"} => Evicting' = Evicting \cup {p}
             /\ l \notin {"evictRecycle", "evictCount"} => Evicting' = Evicting \ {p}
  BY <1>1, <1>3 DEF Undecided, Evicting
<1>4. ASSUME NEW p \in Producers, Push(p) \/ PushStep(p)
      PROVE  \/ Enters(p) \/ Accepted(p) \/ Refused(p) \/ Counted(p) \/ Takes(p)
             \/ UNCHANGED <<Undecided, Evicting, item, pushed, log, taken, dropped, evicted>>
  <2>p. CASE Push(p)
    <3>1. p \notin Undecided /\ p \notin Evicting /\ Goto(p, "loadTail")
      BY <2>p, Zenon DEF Push, Undecided, Evicting
    <3>2. Undecided' = Undecided \cup {p} /\ Evicting' = Evicting
      BY <1>3, <3>1
    <3> QED
      BY <2>p, <3>1, <3>2, Zenon DEF Push, Enters, shared
  <2>1. CASE PushLoadTail(p) \/ PushSeqReady(p) \/ PushSeqFull(p) \/ EvictLoadHead(p) \/ EvictLoadSeq(p)
    <3>1. /\ p \in Undecided /\ p \notin Evicting
          /\ \E l \in {"loadSeq", "casTail", "loadTail", "drop", "evictHead", "evictSeq", "evictCas"} : Goto(p, l)
      BY <2>1, Zenon DEF PushLoadTail, PushSeqReady, PushSeqFull, EvictLoadHead, EvictLoadSeq,
                  Undecided, Evicting
    <3>2. Undecided' = Undecided /\ Evicting' = Evicting
      BY <1>3, <3>1
    <3> QED
      BY <2>1, <3>2, Zenon DEF PushLoadTail, PushSeqReady, PushSeqFull, EvictLoadHead, EvictLoadSeq,
                        shared, locals, history
  <2>2. CASE PushCas(p)
    <3>1. p \in Undecided /\ p \notin Evicting
      BY <2>2, Zenon DEF PushCas, Undecided, Evicting
    <3>2. CASE tail = tpos[p]
      <4>1. Goto(p, "write") /\ log' = Append(log, item[p])
        BY <2>2, <3>2, Zenon DEF PushCas
      <4>2. Undecided' = Undecided \ {p} /\ Evicting' = Evicting \ {p}
        BY <1>3, <4>1, Zenon
      <4>3. Evicting' = Evicting
        BY <3>1, <4>2, Zenon
      <4> QED
        BY <2>2, <3>1, <4>1, <4>2, <4>3, Zenon DEF PushCas, Accepted, locals
    <3>3. CASE tail # tpos[p]
      <4>1. Goto(p, "loadTail") /\ log' = log
        BY <2>2, <3>3, Zenon DEF PushCas
      <4>2. Undecided' = Undecided /\ Evicting' = Evicting
        BY <1>3, <3>1, <4>1
      <4> QED
        BY <2>2, <4>1, <4>2, Zenon DEF PushCas, locals
    <3> QED
      BY <3>2, <3>3
  <2>3. CASE PushWrite(p) \/ PushPublish(p)
    <3>1. p \notin Undecided /\ p \notin Evicting /\ \E l \in {"publish", "idle"} : Goto(p, l)
      BY <2>3, Zenon DEF PushWrite, PushPublish, Undecided, Evicting
    <3>2. Undecided' = Undecided /\ Evicting' = Evicting
      BY <1>3, <3>1
    <3> QED
      BY <2>3, <3>2, Zenon DEF PushWrite, PushPublish, locals, history
  <2>4. CASE PushDrop(p)
    <3>1. p \in Undecided /\ p \notin Evicting /\ Goto(p, "idle")
      BY <2>4, Zenon DEF PushDrop, Undecided, Evicting
    <3>2. Undecided' = Undecided \ {p} /\ Evicting' = Evicting
      BY <1>3, <3>1
    <3> QED
      BY <2>4, <3>1, <3>2, Zenon DEF PushDrop, Refused, locals, history
  <2>5. CASE EvictCas(p)
    <3>1. p \in Undecided /\ p \notin Evicting
      BY <2>5, Zenon DEF EvictCas, Undecided, Evicting
    <3>2. CASE head = hpos[p]
      <4>1. Goto(p, "evictRecycle") /\ taken' = Append(taken, p)
        BY <2>5, <3>2 DEF EvictCas
      <4>2. Undecided' = Undecided \cup {p} /\ Evicting' = Evicting \cup {p}
        BY <1>3, <4>1, Zenon
      <4>3. Undecided' = Undecided
        BY <3>1, <4>2, Zenon
      <4> QED
        BY <2>5, <3>1, <4>1, <4>2, <4>3, Zenon DEF EvictCas, Takes, locals
    <3>3. CASE head # hpos[p]
      <4>1. Goto(p, "loadTail") /\ taken' = taken
        BY <2>5, <3>3, Zenon DEF EvictCas
      <4>2. Undecided' = Undecided /\ Evicting' = Evicting
        BY <1>3, <3>1, <4>1
      <4> QED
        BY <2>5, <4>1, <4>2, Zenon DEF EvictCas, locals
    <3> QED
      BY <3>2, <3>3, ZenonT(30)
  <2>6. CASE EvictRecycle(p)
    <3>1. p \in Undecided /\ p \in Evicting /\ Goto(p, "evictCount")
      BY <2>6, Zenon DEF EvictRecycle, Undecided, Evicting
    <3>2. Undecided' = Undecided /\ Evicting' = Evicting
      BY <1>3, <3>1
    <3> QED
      BY <2>6, <3>2, Zenon DEF EvictRecycle, locals, history
  <2>7. CASE EvictCount(p)
    <3>1. p \in Undecided /\ p \in Evicting /\ Goto(p, "loadTail")
      BY <2>7, Zenon DEF EvictCount, Undecided, Evicting
    <3>2. Undecided' = Undecided /\ Evicting' = Evicting \ {p}
      BY <1>3, <3>1
    <3> QED
      BY <2>7, <3>1, <3>2, Zenon DEF EvictCount, Counted, locals, history
  <2> QED
    BY <1>4, <2>p, <2>1, <2>2, <2>3, <2>4, <2>5, <2>6, <2>7, ZenonT(30) DEF PushStep
<1>5. ASSUME NEW c \in Consumers, PopStep(c)
      PROVE  \/ Takes(c)
             \/ UNCHANGED <<Undecided, Evicting, item, pushed, log, taken, dropped, evicted>>
  <2>0. Undecided' = Undecided /\ Evicting' = Evicting /\ c \notin Producers
    <3>1. \E l \in PopLabels : Goto(c, l)
      BY <1>5, Zenon DEF PopStep, PopLoadHead, PopLoadSeq, PopCas, PopMarshal, PopRecycle, PopLabels
    <3> QED
      BY <1>2, <3>1, RingAssumption, Zenon
  <2>1. CASE PopCas(c)
    BY <2>0, <2>1, Zenon DEF PopCas, Takes, locals
  <2>2. CASE PopLoadHead(c) \/ PopLoadSeq(c) \/ PopMarshal(c) \/ PopRecycle(c)
    BY <2>0, <2>2, Zenon DEF PopLoadHead, PopLoadSeq, PopMarshal, PopRecycle, shared, locals, history
  <2> QED
    BY <1>5, <2>1, <2>2, Zenon DEF PopStep
<1>6. CASE UNCHANGED vars
  BY <1>6, Zenon DEF vars, shared, locals, history, Undecided, Evicting
<1> QED
  BY <1>4, <1>5, <1>6, Zenon DEF Next, Threads

-----------------------------------------------------------------------------
(* The order of a producer's items                                         *)

\* A call that is undecided has an item newer than all its producer has had accepted.
OrderInv ==
  /\ \A p \in Undecided : item[p] = <<p, pushed[p]>>
  /\ \A i \in 1..Len(log) :
       /\ log[i][2] <= pushed[log[i][1]]
       /\ log[i][1] \in Undecided => log[i][2] < pushed[log[i][1]]
  /\ ProducerOrder

\* Every step of push keeps each producer's items in the order of its calls.
LEMMA OrderStep == TypeOK /\ OrderInv /\ [Next]_vars => OrderInv'
<1> SUFFICES ASSUME TypeOK, OrderInv, [Next]_vars PROVE OrderInv'
  BY Zenon
<1>0. /\ log \in Seq(Items) /\ Len(log) \in Nat
      /\ pushed \in [Producers -> 0..MaxPush] /\ MaxPush \in Nat
      /\ item \in [Producers -> Items \cup {NoItem}]
      /\ Undecided \subseteq Producers
  BY RingAssumption DEF TypeOK, Undecided
<1>1. \A i \in 1..Len(log) : log[i][1] \in Producers /\ log[i][2] \in 1..MaxPush
  BY <1>0 DEF Items
<1>2. ASSUME NEW p \in Producers, Enters(p) PROVE OrderInv'
  <2>1. /\ pushed'[p] = pushed[p] + 1 /\ item'[p] = <<p, pushed[p] + 1>>
        /\ \A r \in Producers \ {p} : pushed'[r] = pushed[r] /\ item'[r] = item[r]
        /\ p \notin Undecided /\ Undecided' = Undecided \cup {p} /\ log' = log
    BY <1>0, <1>2, Zenon DEF Enters
  <2>2. \A r \in Undecided' : item'[r] = <<r, pushed'[r]>>
    BY <1>0, <2>1, Zenon DEF OrderInv
  <2>3. \A i \in 1..Len(log) :
          /\ log[i][2] <= pushed'[log[i][1]]
          /\ log[i][1] \in Undecided' => log[i][2] < pushed'[log[i][1]]
    BY <1>0, <1>1, <2>1, SMTT(30) DEF OrderInv
  <2> QED
    BY <2>1, <2>2, <2>3, Zenon DEF OrderInv, ProducerOrder
<1>3. ASSUME NEW p \in Producers, Accepted(p) PROVE OrderInv'
  <2>1. /\ pushed' = pushed /\ item' = item
        /\ p \in Undecided /\ Undecided' = Undecided \ {p} /\ log' = Append(log, item[p])
        /\ item[p] = <<p, pushed[p]>>
    BY <1>3, Zenon DEF Accepted, OrderInv
  <2>2. item[p] \in Items
    <3>1. pc[p] # "idle"
      BY <2>1, Zenon DEF Undecided
    <3> QED
      BY <3>1, Zenon DEF TypeOK, ItemOK
  <2>3. /\ Len(log') = Len(log) + 1 /\ log'[Len(log) + 1] = <<p, pushed[p]>>
        /\ \A i \in 1..Len(log) : log'[i] = log[i]
    BY <1>0, <2>1, <2>2
  <2>4. \A i \in 1..Len(log) : log[i][1] = p => log[i][2] < pushed[p]
    BY <2>1, Zenon DEF OrderInv
  <2>5. \A i \in 1..Len(log') :
          /\ log'[i][2] <= pushed[log'[i][1]]
          /\ log'[i][1] \in Undecided \ {p} => log'[i][2] < pushed[log'[i][1]]
    <3>1. ASSUME NEW i \in 1..Len(log)
          PROVE  /\ log'[i][2] <= pushed[log'[i][1]]
                 /\ log'[i][1] \in Undecided \ {p} => log'[i][2] < pushed[log'[i][1]]
      BY <2>3, Zenon DEF OrderInv
    <3>2. /\ log'[Len(log) + 1][2] <= pushed[log'[Len(log) + 1][1]]
          /\ log'[Len(log) + 1][1] \notin Undecided \ {p}
      BY <1>0, <2>3
    <3> QED
      BY <1>0, <2>3, <3>1, <3>2
  <2>6. ProducerOrder'
    <3> SUFFICES ASSUME NEW i \in 1..Len(log'), NEW j \in 1..Len(log'),
                        i < j, log'[i][1] = log'[j][1]
                 PROVE  log'[i][2] < log'[j][2]
      BY ZenonT(30) DEF ProducerOrder
    <3>1. i \in 1..Len(log) /\ log'[i] = log[i]
      BY <1>0, <2>3
    <3>2. CASE j \in 1..Len(log)
      BY <2>3, <3>1, <3>2, Zenon DEF OrderInv, ProducerOrder
    <3>3. CASE j = Len(log) + 1
      BY <2>3, <2>4, <3>1, <3>3
    <3> QED
      BY <1>0, <2>3, <3>2, <3>3
  <2> QED
    BY <2>1, <2>5, <2>6, ZenonT(30) DEF OrderInv
<1>4. ASSUME log' = log, pushed' = pushed, item' = item, Undecided' \subseteq Undecided
      PROVE  OrderInv'
  BY <1>4, Zenon DEF OrderInv, ProducerOrder
<1>5. ASSUME NEW p \in Producers, Refused(p) \/ Counted(p) PROVE OrderInv'
  BY <1>4, <1>5, Zenon DEF Refused, Counted
<1>6. ASSUME NEW t \in Threads, Takes(t) PROVE OrderInv'
  BY <1>4, <1>6, Zenon DEF Takes
<1> QED
  BY <1>2, <1>3, <1>4, <1>5, <1>6, StepEffects, Zenon

\* The items of one producer enter the ring in the order of its Push calls, each at
\* most once, for every number of threads and every QueueSize.
THEOREM PushesInOrder == Spec => []ProducerOrder
<1>1. Init => OrderInv
  BY DEF Init, OrderInv, ProducerOrder, Undecided, Threads
<1>2. OrderInv => ProducerOrder
  BY Zenon DEF OrderInv
<1> QED
  BY <1>1, <1>2, OrderStep, TypeCorrect, PTL DEF Spec

=============================================================================
