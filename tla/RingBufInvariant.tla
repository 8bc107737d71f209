-------------------------- MODULE RingBufInvariant --------------------------
(***************************************************************************)
(* newRingbuf establishes the inductive invariant IInv of RingBuf, and     *)
(* every step preserves it: those of push, and those of popMarshal and     *)
(* evictOldest that take an item, read it and recycle its slot.            *)
(*                                                                         *)
(* The latter need QueueSize >= 2: with one slot, pos + 1 means both       *)
(* published and free for the next lap.                                    *)
(***************************************************************************)
EXTENDS RingBufTypes, TLAPS

\* newRingbuf establishes the inductive invariant.
LEMMA InvInit == Init => IInv
<1> SUFFICES ASSUME Init PROVE IInv
  BY Zenon
<1> USE RingAssumption
<1>1. TypeOK
  BY TypeInit, Zenon
<1>2. CursorsOK
  BY DEF Init, CursorsOK, Threads
<1>3. CellsOK
  <2>1. ASSUME NEW q \in 0..(QueueSize - 1) PROVE seqs[Idx(q)] = q
    BY IdxInit, Zenon DEF Init, Slots
  <2>2. head = 0 /\ tail = 0
    BY Zenon DEF Init
  <2>3. \A q \in tail..(head + QueueSize - 1) : q \in 0..(QueueSize - 1)
    BY <2>2
  <2>4. \A q \in tail..(head + QueueSize - 1) : seqs[Idx(q)] = q
    BY <2>1, <2>3, Zenon
  <2> QED BY <2>2, <2>4 DEF CellsOK
<1>4. ClaimsOK /\ HoldsOK /\ CasOK
  BY Zenon DEF Init, ClaimsOK, HoldsOK, CasOK, Claims, Holds, Threads
<1>5. QueuedPreserved /\ DeliveredIntact
  BY DEF Init, QueuedPreserved, DeliveredIntact
<1> QED BY <1>1, <1>2, <1>3, <1>4, <1>5, Zenon DEF IInv

\* A step that touches neither the cursors nor the slots (the loads, the
\* failed compare-and-swaps, the returns) preserves the invariant.
LEMMA QuietStep ==
  ASSUME IInv, TypeOK', UNCHANGED <<head, tail, seqs, data, log, taken, out>>,
         NEW t \in Threads,
         \A u \in Threads \ {t} : pc'[u] = pc[u] /\ hpos'[u] = hpos[u],
         \A p \in Producers \ {t} : tpos'[p] = tpos[p] /\ item'[p] = item[p],
         ~Claims(t), ~Holds(t),
         pc'[t] \notin {"write", "publish", "marshal", "popRecycle", "evictRecycle"},
         t \in Producers => tpos'[t] <= tail,
         hpos'[t] <= head,
         t \in Producers /\ pc'[t] = "casTail" /\ tpos'[t] = tail => seqs[Idx(tail)] = tail,
         pc'[t] \in {"popCas", "evictCas"} /\ hpos'[t] = head => seqs[Idx(head)] = head + 1
  PROVE  IInv'
<1> USE DEF IInv
<1>0. Producers \subseteq Threads /\ Consumers \subseteq Threads
  BY Zenon DEF Threads
<1>1. CursorsOK'
  BY <1>0, Zenon DEF CursorsOK
<1>2. /\ ~Claims(t)' /\ ~Holds(t)'
      /\ \A u \in Threads \ {t} : (Claims(u)' <=> Claims(u)) /\ (Holds(u)' <=> Holds(u))
  BY Zenon DEF Claims, Holds
<1>3. CellsOK'
  <2>1. ASSUME NEW q \in head..(tail - 1)
        PROVE  \/ seqs[Idx(q)] = q + 1
               \/ seqs[Idx(q)] = q /\ \E p \in Producers : Claims(p)' /\ tpos'[p] = q
    BY <1>0, <1>2 DEF CellsOK
  <2>2. ASSUME NEW q \in tail..(head + QueueSize - 1)
        PROVE  \/ seqs[Idx(q)] = q
               \/ /\ seqs[Idx(q)] = q - QueueSize + 1
                  /\ \E u \in Threads : Holds(u)' /\ hpos'[u] = q - QueueSize
    BY <1>0, <1>2 DEF CellsOK
  <2> QED BY <2>1, <2>2, Zenon DEF CellsOK
<1>4. ClaimsOK'
  BY <1>0, <1>2 DEF ClaimsOK
<1>5. HoldsOK'
  BY <1>2 DEF HoldsOK
<1>6. CasOK'
  BY <1>0 DEF CasOK
<1>7. QueuedPreserved'
  BY Zenon DEF QueuedPreserved
<1>8. DeliveredIntact'
  BY <1>0 DEF DeliveredIntact
<1> QED BY <1>1, <1>3, <1>4, <1>5, <1>6, <1>7, <1>8, Zenon

\* A producer that wins the tail compare-and-swap owns the position it
\* claimed: the invariant is preserved.
LEMMA PushCasInv ==
  ASSUME QueueSize >= 2, IInv, TypeOK', NEW p \in Producers, PushCas(p),
         \A u \in Threads \ {p} : pc'[u] = pc[u],
         tail = tpos[p], pc'[p] = "write"
  PROVE  IInv'
<1> USE DEF IInv
<1>0. /\ Producers \subseteq Threads /\ Consumers \subseteq Threads
      /\ QueueSize \in Nat /\ head \in Nat /\ tail \in Nat
      /\ pc[p] = "casTail"
      /\ seqs \in [Slots -> Nat]
      /\ \A r \in Producers : tpos[r] \in Nat
      /\ \A u \in Threads : hpos[u] \in Nat
  BY RingAssumption, Zenon DEF Threads, TypeOK, PushCas
<1>1. /\ tail' = tail + 1
      /\ log' = Append(log, item[p])
      /\ head' = head /\ seqs' = seqs /\ data' = data /\ tpos' = tpos
      /\ hpos' = hpos /\ item' = item /\ taken' = taken /\ out' = out
  BY <1>0, Zenon DEF PushCas, locals
<1>2. /\ Len(log') = Len(log) + 1
      /\ \A i \in 1..Len(log) : log'[i] = log[i]
      /\ log'[Len(log) + 1] = item[p]
      /\ Len(log) = tail
  <2>1. log \in Seq(Items) /\ item[p] \in Items
    BY <1>0, Zenon DEF TypeOK, ItemOK
  <2> QED BY <1>1, <2>1 DEF CursorsOK
<1>3. seqs[Idx(tail)] = tail
  BY <1>0, Zenon DEF CasOK
<1>4. tail < head + QueueSize
  <2>1. SUFFICES ASSUME tail = head + QueueSize PROVE FALSE
    BY <1>0 DEF CursorsOK
  <2>2. Idx(tail) = Idx(head)
    BY <1>0, <2>1, IdxNextLap, Zenon
  <2>3. seqs[Idx(head)] \in {head, head + 1}
    BY <1>0, <2>1 DEF CellsOK
  <2> QED BY <1>0, <1>3, <2>1, <2>2, <2>3
<1>5. /\ Claims(p)' /\ ~Claims(p) /\ ~Holds(p) /\ ~Holds(p)'
      /\ \A u \in Threads \ {p} : (Claims(u)' <=> Claims(u)) /\ (Holds(u)' <=> Holds(u))
  BY <1>0, Zenon DEF Claims, Holds
<1>6. CursorsOK'
  <2>1. /\ head' <= tail' /\ tail' <= head' + QueueSize
        /\ Len(log') = tail' /\ Len(taken') = head'
    BY <1>0, <1>1, <1>2, <1>4 DEF CursorsOK
  <2>2. /\ \A r \in Producers : tpos'[r] <= tail'
        /\ \A u \in Threads : hpos'[u] <= head'
    BY <1>0, <1>1 DEF CursorsOK
  <2> QED BY <2>1, <2>2, Zenon DEF CursorsOK
<1>7. CellsOK'
  <2>1. ASSUME NEW q \in head..tail
        PROVE  \/ seqs[Idx(q)] = q + 1
               \/ seqs[Idx(q)] = q /\ \E r \in Producers : Claims(r)' /\ tpos[r] = q
    <3>1. CASE q = tail
      BY <1>3, <1>5, <3>1, Zenon
    <3>2. CASE q \in head..(tail - 1)
      BY <1>0, <1>5, <3>2, Zenon DEF CellsOK
    <3> QED BY <1>0, <3>1, <3>2
  <2>2. ASSUME NEW q \in (tail + 1)..(head + QueueSize - 1)
        PROVE  \/ seqs[Idx(q)] = q
               \/ /\ seqs[Idx(q)] = q - QueueSize + 1
                  /\ \E u \in Threads : Holds(u)' /\ hpos[u] = q - QueueSize
    <3>1. q \in tail..(head + QueueSize - 1)
      BY <1>0
    <3> QED BY <1>0, <1>5, <3>1, Zenon DEF CellsOK
  <2>3. ASSUME NEW q \in 0..tail PROVE seqs[Idx(q)] >= q
    BY <1>0, <1>3 DEF CellsOK
  <2>4. /\ head'..(tail' - 1) = head..tail
        /\ tail'..(head' + QueueSize - 1) = (tail + 1)..(head + QueueSize - 1)
        /\ 0..(tail' - 1) = 0..tail
    BY <1>0, <1>1, SMTT(30)
  <2> QED BY <1>1, <2>1, <2>2, <2>3, <2>4, ZenonT(30) DEF CellsOK
<1>8. ClaimsOK'
  <2>1. ASSUME NEW r \in Producers, Claims(r)'
        PROVE  /\ tpos[r] \in head..tail
               /\ seqs[Idx(tpos[r])] = tpos[r]
               /\ log'[tpos[r] + 1] = item[r]
               /\ pc'[r] = "publish" => data[Idx(tpos[r])] = item[r]
    <3>1. CASE r = p
      BY <1>0, <1>2, <1>3, <3>1 DEF CursorsOK
    <3>2. CASE r # p
      <4>1. /\ tpos[r] \in head..(tail - 1)
            /\ seqs[Idx(tpos[r])] = tpos[r]
            /\ log[tpos[r] + 1] = item[r]
            /\ pc[r] = "publish" => data[Idx(tpos[r])] = item[r]
        BY <1>0, <1>5, <2>1, <3>2, Zenon DEF ClaimsOK
      <4>2. tpos[r] + 1 \in 1..Len(log)
        <5>1. /\ head \in Nat /\ tail \in Nat /\ Len(log) = tail
              /\ tpos[r] \in head..(tail - 1)
          BY <1>0, <1>2, <4>1, Zenon
        <5> QED BY <5>1
      <4>3. log'[tpos[r] + 1] = log[tpos[r] + 1]
        BY <1>2, <4>2, Zenon
      <4>4. tpos[r] \in head..tail
        BY <1>0, <4>1
      <4> QED BY <1>0, <3>2, <4>1, <4>3, <4>4, Zenon DEF Threads
    <3> QED BY <3>1, <3>2, Zenon
  <2>2. ASSUME NEW r \in Producers, NEW s \in Producers,
               Claims(r)', Claims(s)', tpos[r] = tpos[s]
        PROVE  r = s
    <3>1. \A x \in Producers \ {p} : Claims(x)' => tpos[x] # tail
      BY <1>0, <1>5 DEF ClaimsOK
    <3> QED BY <1>0, <1>5, <2>2, <3>1, Zenon DEF ClaimsOK
  <2>a. head'..(tail' - 1) = head..tail
    BY <1>0, <1>1
  <2>3. ASSUME NEW r \in Producers, Claims(r)'
        PROVE  /\ tpos'[r] \in head'..(tail' - 1)
               /\ seqs'[Idx(tpos'[r])] = tpos'[r]
               /\ log'[tpos'[r] + 1] = item'[r]
               /\ pc'[r] = "publish" => data'[Idx(tpos'[r])] = item'[r]
    BY <1>1, <2>a, <2>1, <2>3, Zenon
  <2> QED BY <1>1, <2>2, <2>3, Zenon DEF ClaimsOK
<1>9. HoldsOK'
  <2>1. ASSUME NEW u \in Threads, Holds(u)'
        PROVE  /\ hpos[u] \in ((tail + 1) - QueueSize)..(head - 1)
               /\ seqs[Idx(hpos[u])] = hpos[u] + 1
               /\ data[Idx(hpos[u])] = log'[hpos[u] + 1]
               /\ taken[hpos[u] + 1] = u
    <3>1. /\ hpos[u] \in (tail - QueueSize)..(head - 1)
          /\ seqs[Idx(hpos[u])] = hpos[u] + 1
          /\ data[Idx(hpos[u])] = log[hpos[u] + 1]
          /\ taken[hpos[u] + 1] = u
      BY <1>5, <2>1, Zenon DEF HoldsOK
    <3>2. hpos[u] # tail - QueueSize
      <4>1. SUFFICES ASSUME tail = hpos[u] + QueueSize PROVE FALSE
        BY <1>0
      <4>2. Idx(tail) = Idx(hpos[u])
        BY <1>0, <4>1, IdxNextLap, Zenon
      <4> QED BY <1>0, <1>3, <3>1, <4>1, <4>2
    <3>3. log'[hpos[u] + 1] = log[hpos[u] + 1]
      <4>1. hpos[u] + 1 \in 1..Len(log)
        BY <1>0, <1>2, <3>1, SMTT(30) DEF CursorsOK
      <4> QED BY <1>2, <4>1, Zenon
    <3> QED BY <1>0, <3>1, <3>2, <3>3
  <2>2. \A u, v \in Threads : Holds(u)' /\ Holds(v)' /\ hpos[u] = hpos[v] => u = v
    BY <1>5, Zenon DEF HoldsOK
  <2>a. ((tail + 1) - QueueSize)..(head - 1) = (tail' - QueueSize)..(head' - 1)
    <3>1. tail' = tail + 1 /\ head' = head
      BY <1>1, Zenon
    <3> QED BY <1>0, <3>1, Zenon
  <2>3. ASSUME NEW u \in Threads, Holds(u)'
        PROVE  /\ hpos'[u] \in (tail' - QueueSize)..(head' - 1)
               /\ seqs'[Idx(hpos'[u])] = hpos'[u] + 1
               /\ data'[Idx(hpos'[u])] = log'[hpos'[u] + 1]
               /\ taken'[hpos'[u] + 1] = u
    BY <1>1, <2>a, <2>1, <2>3, Zenon
  <2> QED BY <1>1, <2>2, <2>3, Zenon DEF HoldsOK
<1>10. CasOK'
  <2>1. \A r \in Producers : tpos[r] # tail + 1
    BY <1>0 DEF CursorsOK
  <2> QED BY <1>0, <1>1, <2>1, ZenonT(30) DEF CasOK
<1>11. QueuedPreserved'
  <2>1. ASSUME NEW q \in head..tail, seqs[Idx(q)] = q + 1
        PROVE  data[Idx(q)] = log'[q + 1]
    <3>1. q \in head..(tail - 1)
      BY <1>0, <1>3, <2>1
    <3>2. data[Idx(q)] = log[q + 1]
      BY <2>1, <3>1, Zenon DEF QueuedPreserved
    <3>3. q + 1 \in 1..Len(log)
      BY <1>0, <1>2, <3>1
    <3> QED BY <1>2, <3>2, <3>3, Zenon
  <2>2. head'..(tail' - 1) = head..tail
    BY <1>0, <1>1
  <2> QED BY <1>1, <2>1, <2>2, Zenon DEF QueuedPreserved
<1>12. DeliveredIntact'
  <2>1. ASSUME NEW c \in Consumers, NEW k \in 1..Len(out[c])
        PROVE  out[c][k][2] = log'[out[c][k][1] + 1]
    <3>1. out[c] \in Seq(Nat \X (Items \cup {NoItem}))
      BY Zenon DEF TypeOK
    <3>2. out[c][k][1] \in Nat
      BY <3>1
    <3>3. out[c][k][1] < head /\ out[c][k][2] = log[out[c][k][1] + 1]
      BY DEF DeliveredIntact
    <3>4. \A x \in Nat : x < head => x + 1 \in 1..Len(log)
      BY <1>0, <1>2 DEF CursorsOK
    <3> QED BY <1>2, <3>2, <3>3, <3>4, Zenon
  <2>2. p \notin Consumers
    BY RingAssumption, Zenon
  <2>3. \A c \in Consumers : pc'[c] = pc[c]
    BY <1>0, <2>2, ZenonT(30)
  <2>4. ASSUME NEW c \in Consumers, NEW k \in 1..Len(out'[c])
        PROVE  /\ out'[c][k][1] < head'
               /\ taken'[out'[c][k][1] + 1] = c
               /\ out'[c][k][2] = log'[out'[c][k][1] + 1]
               /\ pc'[c] = "marshal" => out'[c][k][1] < hpos'[c]
               /\ \A j \in 1..(k - 1) : out'[c][j][1] < out'[c][k][1]
    BY <1>1, <2>1, <2>3, ZenonT(30) DEF DeliveredIntact
  <2> QED BY <2>4, ZenonT(30) DEF DeliveredIntact
<1> QED BY <1>6, <1>7, <1>8, <1>9, <1>10, <1>11, <1>12, Zenon

\* Writing the item into the claimed slot disturbs no queued item.
LEMMA PushWriteInv ==
  ASSUME IInv, TypeOK', NEW p \in Producers, PushWrite(p)
  PROVE  IInv'
<1> USE DEF IInv
<1>0. /\ Producers \subseteq Threads /\ Consumers \subseteq Threads
      /\ QueueSize \in Nat /\ head \in Nat /\ tail \in Nat
      /\ pc[p] = "write" /\ p \notin Consumers
      /\ data \in [Slots -> Items \cup {NoItem}]
      /\ \A r \in Producers : tpos[r] \in Nat
      /\ \A u \in Threads : hpos[u] \in Nat
  BY RingAssumption, Zenon DEF Threads, TypeOK, PushWrite
<1>1. /\ data' = [data EXCEPT ![Idx(tpos[p])] = item[p]]
      /\ head' = head /\ tail' = tail /\ seqs' = seqs /\ tpos' = tpos
      /\ hpos' = hpos /\ item' = item /\ log' = log /\ taken' = taken /\ out' = out
  BY ZenonT(30) DEF PushWrite, locals, history
<1>2. pc'[p] = "publish" /\ \A u \in Threads \ {p} : pc'[u] = pc[u]
  BY <1>0, ZenonT(30) DEF PushWrite, Goto, TypeOK, PcOK
<1>3. \A u \in Threads : (Claims(u)' <=> Claims(u)) /\ (Holds(u)' <=> Holds(u))
  BY <1>0, <1>2, Zenon DEF Claims, Holds
<1>4. /\ tpos[p] \in head..(tail - 1) /\ seqs[Idx(tpos[p])] = tpos[p]
      /\ log[tpos[p] + 1] = item[p]
  BY <1>0, Zenon DEF ClaimsOK, Claims
<1>5. /\ data'[Idx(tpos[p])] = item[p]
      /\ \A i \in Slots : i # Idx(tpos[p]) => data'[i] = data[i]
  BY <1>0, <1>1, IdxInSlots, Zenon
<1>6. CursorsOK' /\ CasOK'
  BY <1>0, <1>1, <1>2, Zenon DEF CursorsOK, CasOK
<1>7. CellsOK'
  BY <1>0, <1>1, <1>3, Zenon DEF CellsOK
<1>8. ClaimsOK'
  <2>1. ASSUME NEW r \in Producers, Claims(r)', pc'[r] = "publish"
        PROVE  data'[Idx(tpos[r])] = item[r]
    <3>1. CASE r = p
      BY <1>5, <3>1, Zenon
    <3>2. CASE r # p
      <4>1. Claims(r) /\ pc[r] = "publish" /\ tpos[r] # tpos[p]
        BY <1>0, <1>2, <1>3, <2>1, <3>2, Zenon DEF ClaimsOK, Claims
      <4>2. /\ data[Idx(tpos[r])] = item[r]
            /\ seqs[Idx(tpos[r])] = tpos[r]
        BY <4>1, Zenon DEF ClaimsOK
      <4> QED BY <1>0, <1>4, <1>5, <4>1, <4>2, IdxInSlots, Zenon
    <3> QED BY <3>1, <3>2, Zenon
  <2> QED BY <1>0, <1>1, <1>3, <2>1, Zenon DEF ClaimsOK
<1>9. HoldsOK'
  <2>1. ASSUME NEW u \in Threads, Holds(u)
        PROVE  data'[Idx(hpos[u])] = log[hpos[u] + 1]
    <3>1. /\ hpos[u] \in (tail - QueueSize)..(head - 1)
          /\ data[Idx(hpos[u])] = log[hpos[u] + 1]
      BY <2>1, Zenon DEF HoldsOK
    <3>2. hpos[u] < tpos[p] /\ tpos[p] < hpos[u] + QueueSize
      BY <1>0, <1>4, <3>1
    <3>3. Idx(hpos[u]) # Idx(tpos[p])
      BY <1>0, <3>2, IdxDistinct, Zenon
    <3> QED BY <1>0, <1>5, <3>1, <3>3, IdxInSlots, Zenon
  <2> QED BY <1>1, <1>3, <2>1, Zenon DEF HoldsOK
<1>10. QueuedPreserved'
  <2>1. ASSUME NEW q \in head..(tail - 1), seqs[Idx(q)] = q + 1
        PROVE  data'[Idx(q)] = log[q + 1]
    <3>1. q \in Nat /\ Idx(q) \in Slots
      BY <1>0, IdxInSlots
    <3>2. Idx(q) # Idx(tpos[p])
      <4>1. CASE q < tpos[p]
        <5>1. tpos[p] < q + QueueSize
          BY <1>0, <1>4 DEF CursorsOK
        <5> QED BY <1>0, <3>1, <4>1, <5>1, IdxDistinct, Zenon
      <4>2. CASE tpos[p] < q
        <5>1. q < tpos[p] + QueueSize
          BY <1>0, <1>4 DEF CursorsOK
        <5> QED BY <1>0, <3>1, <4>2, <5>1, IdxDistinct, Zenon
      <4>3. CASE q = tpos[p]
        BY <1>0, <1>4, <2>1, <4>3
      <4> QED BY <1>0, <3>1, <4>1, <4>2, <4>3
    <3> QED BY <1>5, <2>1, <3>1, <3>2, Zenon DEF QueuedPreserved
  <2> QED BY <1>1, <2>1, Zenon DEF QueuedPreserved
<1>11. DeliveredIntact'
  <2>1. \A c \in Consumers : pc'[c] = pc[c]
    BY <1>0, <1>2, Zenon
  <2> QED BY <1>1, <2>1 DEF DeliveredIntact
<1> QED BY <1>6, <1>7, <1>8, <1>9, <1>10, <1>11, Zenon

\* Storing pos + 1 publishes the item just written and nothing else.
LEMMA PushPublishInv ==
  ASSUME IInv, TypeOK', NEW p \in Producers, PushPublish(p)
  PROVE  IInv'
<1> USE DEF IInv
<1>0. /\ Producers \subseteq Threads /\ Consumers \subseteq Threads
      /\ QueueSize \in Nat /\ head \in Nat /\ tail \in Nat
      /\ seqs \in [Slots -> Nat]
      /\ \A r \in Producers : tpos[r] \in Nat
      /\ \A u \in Threads : hpos[u] \in Nat
      /\ pc[p] = "publish" /\ p \notin Consumers
  BY RingAssumption, ZenonT(30) DEF Threads, TypeOK, PushPublish
<1>1. /\ seqs' = [seqs EXCEPT ![Idx(tpos[p])] = tpos[p] + 1]
      /\ head' = head /\ tail' = tail /\ data' = data /\ tpos' = tpos
      /\ hpos' = hpos /\ item' = item /\ log' = log /\ taken' = taken /\ out' = out
  BY Zenon DEF PushPublish, PublishedSeq, locals, history
<1>2. pc'[p] = "idle" /\ \A u \in Threads \ {p} : pc'[u] = pc[u]
  BY <1>0, Zenon DEF PushPublish, Goto, TypeOK, PcOK
<1>3. /\ Claims(p) /\ ~Claims(p)' /\ ~Holds(p)
      /\ \A u \in Threads \ {p} : Claims(u)' <=> Claims(u)
      /\ \A u \in Threads : Holds(u)' <=> Holds(u)
  BY <1>0, <1>2, Zenon DEF Claims, Holds
<1>4. /\ tpos[p] \in head..(tail - 1) /\ seqs[Idx(tpos[p])] = tpos[p]
      /\ log[tpos[p] + 1] = item[p] /\ data[Idx(tpos[p])] = item[p]
  BY <1>0, <1>3, Zenon DEF ClaimsOK
<1>5. /\ seqs'[Idx(tpos[p])] = tpos[p] + 1
      /\ \A i \in Slots : i # Idx(tpos[p]) => seqs'[i] = seqs[i]
  BY <1>0, <1>1, IdxInSlots, Zenon
\* The window of QueueSize positions from head on maps to distinct slots.
<1>6. ASSUME NEW q \in head..(head + QueueSize - 1), q # tpos[p]
      PROVE  seqs'[Idx(q)] = seqs[Idx(q)]
  <2>1. q \in Nat /\ Idx(q) \in Slots
    BY <1>0, IdxInSlots
  <2>2. q < tpos[p] + QueueSize /\ tpos[p] < q + QueueSize
    BY <1>0, <1>4, SMTT(30) DEF CursorsOK
  <2> QED BY <1>0, <1>5, <1>6, <2>1, <2>2, SameSlot, Zenon
<1>7. CursorsOK'
  BY <1>1, Zenon DEF CursorsOK
<1>8. CellsOK'
  <2>1. ASSUME NEW q \in head..(tail - 1)
        PROVE  \/ seqs'[Idx(q)] = q + 1
               \/ seqs'[Idx(q)] = q /\ \E r \in Producers : Claims(r)' /\ tpos[r] = q
    <3>1. CASE q = tpos[p]
      BY <1>5, <3>1, Zenon
    <3>2. CASE q # tpos[p]
      <4>1. seqs'[Idx(q)] = seqs[Idx(q)]
        BY <1>0, <1>6, <3>2 DEF CursorsOK
      <4> QED BY <1>0, <1>3, <3>2, <4>1, Zenon DEF CellsOK
    <3> QED BY <3>1, <3>2, Zenon
  <2>2. ASSUME NEW q \in tail..(head + QueueSize - 1)
        PROVE  \/ seqs'[Idx(q)] = q
               \/ /\ seqs'[Idx(q)] = q - QueueSize + 1
                  /\ \E u \in Threads : Holds(u)' /\ hpos[u] = q - QueueSize
    <3>1. seqs'[Idx(q)] = seqs[Idx(q)]
      BY <1>0, <1>4, <1>6 DEF CursorsOK
    <3> QED BY <1>3, <3>1, Zenon DEF CellsOK
  <2>3. ASSUME NEW q \in 0..(tail - 1) PROVE seqs'[Idx(q)] >= q
    <3>1. q \in Nat /\ Idx(q) \in Slots /\ seqs[Idx(q)] \in Nat /\ seqs[Idx(q)] >= q
      BY <1>0, IdxInSlots DEF CellsOK
    <3> QED BY <1>0, <1>4, <1>5, <3>1
  <2> QED BY <1>1, <2>1, <2>2, <2>3, Zenon DEF CellsOK
<1>9. ClaimsOK'
  <2>1. ASSUME NEW r \in Producers, Claims(r)'
        PROVE  Claims(r) /\ r # p /\ tpos[r] \in head..(tail - 1) /\ tpos[r] # tpos[p]
    BY <1>0, <1>3, <2>1, Zenon DEF ClaimsOK
  <2>2. ASSUME NEW r \in Producers, Claims(r)'
        PROVE  seqs'[Idx(tpos[r])] = tpos[r]
    <3>1. tpos[r] \in head..(head + QueueSize - 1)
      BY <1>0, <2>1, <2>2 DEF CursorsOK
    <3> QED BY <1>6, <2>1, <2>2, <3>1, Zenon DEF ClaimsOK
  <2>3. \A r \in Producers : Claims(r)' => pc'[r] = pc[r]
    BY <1>0, <1>2, <2>1, Zenon
  <2> QED BY <1>1, <2>1, <2>2, <2>3, SMTT(30) DEF ClaimsOK
<1>10. HoldsOK'
  <2>1. ASSUME NEW u \in Threads, Holds(u)
        PROVE  seqs'[Idx(hpos[u])] = hpos[u] + 1
    <3>1. /\ hpos[u] \in (tail - QueueSize)..(head - 1)
          /\ seqs[Idx(hpos[u])] = hpos[u] + 1
      BY <2>1, Zenon DEF HoldsOK
    <3>2. hpos[u] < tpos[p] /\ tpos[p] < hpos[u] + QueueSize
      BY <1>0, <1>4, <3>1
    <3>3. Idx(hpos[u]) # Idx(tpos[p])
      BY <1>0, <3>2, IdxDistinct, Zenon
    <3> QED BY <1>0, <1>5, <3>1, <3>3, IdxInSlots, ZenonT(30)
  <2> QED BY <1>1, <1>3, <2>1, Zenon DEF HoldsOK
<1>11. CasOK'
  <2>1. ASSUME NEW r \in Producers, pc'[r] = "casTail", tpos[r] = tail
        PROVE  seqs'[Idx(tail)] = tail
    <3>1. seqs[Idx(tail)] = tail
      BY <1>0, <1>2, <2>1, Zenon DEF CasOK
    <3>2. Idx(tail) # Idx(tpos[p])
      BY <1>0, <1>4, <3>1
    <3> QED BY <1>0, <1>5, <3>1, <3>2, IdxInSlots, ZenonT(30)
  <2>2. ASSUME NEW u \in Threads, pc'[u] \in {"popCas", "evictCas"}, hpos[u] = head
        PROVE  seqs'[Idx(head)] = head + 1
    <3>1. seqs[Idx(head)] = head + 1
      BY <1>0, <1>2, <2>2, Zenon DEF CasOK
    <3>2. CASE Idx(head) = Idx(tpos[p])
      <4>1. tpos[p] = head + 1 /\ tpos[p] < head + QueueSize
        BY <1>0, <1>4, <3>1, <3>2 DEF CursorsOK
      <4> QED BY <1>0, <3>2, <4>1, IdxDistinct
    <3>3. CASE Idx(head) # Idx(tpos[p])
      BY <1>0, <1>5, <3>1, <3>3, IdxInSlots, Zenon
    <3> QED BY <3>2, <3>3, Zenon
  <2> QED BY <1>1, <2>1, <2>2, Zenon DEF CasOK
<1>12. QueuedPreserved'
  <2>1. ASSUME NEW q \in head..(tail - 1), seqs'[Idx(q)] = q + 1
        PROVE  data[Idx(q)] = log[q + 1]
    <3>1. CASE q = tpos[p]
      BY <1>4, <3>1, Zenon
    <3>2. CASE q # tpos[p]
      <4>1. seqs'[Idx(q)] = seqs[Idx(q)]
        BY <1>0, <1>6, <3>2 DEF CursorsOK
      <4> QED BY <2>1, <4>1, Zenon DEF QueuedPreserved
    <3> QED BY <3>1, <3>2, Zenon
  <2> QED BY <1>1, <2>1, Zenon DEF QueuedPreserved
<1>13. DeliveredIntact'
  <2>1. \A c \in Consumers : pc'[c] = pc[c]
    BY <1>0, <1>2, Zenon
  <2> QED BY <1>1, <2>1 DEF DeliveredIntact
<1> QED BY <1>7, <1>8, <1>9, <1>10, <1>11, <1>12, <1>13, Zenon

-----------------------------------------------------------------------------
(* popMarshal and evictOldest                                              *)

\* What Append does to the elements of a sequence.
LEMMA Appended ==
  ASSUME NEW S, NEW s \in Seq(S), NEW x \in S
  PROVE  /\ Len(Append(s, x)) = Len(s) + 1
         /\ \A i \in 1..Len(s) : Append(s, x)[i] = s[i]
         /\ Append(s, x)[Len(s) + 1] = x
  OBVIOUS

\* A position that is not a lap after another: that one is not a lap before it.
LEMMA OtherLap ==
  ASSUME NEW i \in Int, NEW q \in Int, NEW size \in Int, q # i + size
  PROVE  i # q - size
  OBVIOUS

\* A queued position is in the window of the ring, and not at or past tail.
LEMMA QueuedInWindow ==
  ASSUME NEW h \in Nat, NEW t \in Nat, NEW size \in Nat, NEW x \in t..(h + size - 1),
         NEW q \in h..(t - 1)
  PROVE  q \in h..(h + size - 1) /\ q # x
  OBVIOUS

\* The head compare-and-swap, of popMarshal or evictOldest, takes the
\* oldest published item; needs two slots or more, see QueueSize = 1.
LEMMA TakeHeadInv ==
  ASSUME QueueSize >= 2, IInv, TypeOK', NEW t \in Threads,
         pc[t] \in {"popCas", "evictCas"}, head = hpos[t],
         head' = head + 1, taken' = Append(taken, t),
         pc'[t] \in {"marshal", "evictRecycle"},
         \A u \in Threads \ {t} : pc'[u] = pc[u],
         tail' = tail, seqs' = seqs, data' = data, log' = log, out' = out,
         tpos' = tpos, hpos' = hpos, item' = item
  PROVE  IInv'
<1> USE DEF IInv
<1>0. /\ Producers \subseteq Threads /\ Consumers \subseteq Threads
      /\ QueueSize \in Nat /\ head \in Nat /\ tail \in Nat
      /\ seqs \in [Slots -> Nat]
      /\ \A r \in Producers : tpos[r] \in Nat
      /\ \A u \in Threads : hpos[u] \in Nat
  BY RingAssumption, Zenon DEF Threads, TypeOK
<1>1. /\ Len(taken') = Len(taken) + 1
      /\ \A i \in 1..Len(taken) : taken'[i] = taken[i]
      /\ taken'[Len(taken) + 1] = t
      /\ Len(taken) = head
  <2>1. taken \in Seq(Threads)
    BY Zenon DEF TypeOK
  <2>2. Len(taken) = head
    BY Zenon DEF CursorsOK
  <2>3. /\ Len(Append(taken, t)) = Len(taken) + 1
        /\ \A i \in 1..Len(taken) : Append(taken, t)[i] = taken[i]
        /\ Append(taken, t)[Len(taken) + 1] = t
    BY <2>1, Appended, Zenon
  <2> QED BY <2>2, <2>3, Zenon
<1>2. seqs[Idx(head)] = head + 1
  BY Zenon DEF CasOK
<1>3. head < tail
  <2>1. SUFFICES ASSUME head = tail PROVE FALSE
    BY <1>0 DEF CursorsOK
  <2>2. head \in tail..(head + QueueSize - 1)
    BY <1>0, <2>1
  <2>3. seqs[Idx(head)] = head \/ seqs[Idx(head)] = head - QueueSize + 1
    BY <2>2, Zenon DEF CellsOK
  <2> QED BY <1>0, <1>2, <2>3
<1>4. /\ Holds(t)' /\ ~Holds(t) /\ ~Claims(t) /\ ~Claims(t)'
      /\ \A u \in Threads \ {t} : (Claims(u)' <=> Claims(u)) /\ (Holds(u)' <=> Holds(u))
  BY Zenon DEF Claims, Holds
<1>5. CursorsOK'
  <2>1. /\ head' <= tail' /\ tail' <= head' + QueueSize
        /\ Len(log') = tail' /\ Len(taken') = head'
    BY <1>0, <1>1, <1>3 DEF CursorsOK
  <2>2. /\ \A r \in Producers : tpos'[r] <= tail'
        /\ \A u \in Threads : hpos'[u] <= head'
    BY <1>0, SMTT(30) DEF CursorsOK
  <2> QED BY <2>1, <2>2, ZenonT(30) DEF CursorsOK
<1>6. CellsOK'
  <2>1. ASSUME NEW q \in (head + 1)..(tail - 1)
        PROVE  \/ seqs[Idx(q)] = q + 1
               \/ seqs[Idx(q)] = q /\ \E r \in Producers : Claims(r)' /\ tpos[r] = q
    <3>1. q \in head..(tail - 1)
      BY <1>0
    <3> QED BY <1>0, <1>4, <3>1, ZenonT(30) DEF CellsOK
  <2>2. ASSUME NEW q \in tail..(head + QueueSize)
        PROVE  \/ seqs[Idx(q)] = q
               \/ /\ seqs[Idx(q)] = q - QueueSize + 1
                  /\ \E u \in Threads : Holds(u)' /\ hpos[u] = q - QueueSize
    <3>1. CASE q = head + QueueSize
      <4>1. Idx(q) = Idx(head)
        BY <1>0, <3>1, IdxNextLap, ZenonT(30)
      <4>2. seqs[Idx(q)] = q - QueueSize + 1 /\ hpos[t] = q - QueueSize
        BY <1>0, <1>2, <3>1, <4>1, SMTT(30)
      <4> QED BY <1>4, <4>2, ZenonT(30)
    <3>2. CASE q # head + QueueSize
      <4>a. q \in Int /\ tail <= q /\ q <= head + QueueSize
        BY <1>0
      <4>0. q < head + QueueSize
        BY <1>0, <3>2, <4>a
      <4>1. q \in tail..(head + QueueSize - 1)
        BY <1>0, <4>a, <4>0, SMTT(30)
      <4> QED BY <1>0, <1>4, <4>1, Zenon DEF CellsOK
    <3> QED BY <3>1, <3>2, Zenon
  <2>3. (head' + QueueSize - 1) = head + QueueSize
    BY <1>0, NextWindow, Zenon
  <2> QED BY <2>1, <2>2, <2>3, ZenonT(30) DEF CellsOK
<1>7. ClaimsOK'
  <2>1. ASSUME NEW r \in Producers, Claims(r)'
        PROVE  Claims(r) /\ pc'[r] = pc[r] /\ tpos[r] \in (head + 1)..(tail - 1)
    <3>1. Claims(r) /\ r # t
      BY <1>0, <1>4, <2>1, ZenonT(30)
    <3>2. tpos[r] # head
      <4>1. seqs[Idx(tpos[r])] = tpos[r]
        BY <3>1, Zenon DEF ClaimsOK
      <4>2. head # head + 1
        BY <1>0
      <4> QED BY <1>2, <4>1, <4>2, Zenon
    <3> QED BY <1>0, <3>1, <3>2, SMTT(30) DEF ClaimsOK
  <2> QED BY <2>1 DEF ClaimsOK
<1>8. HoldsOK'
  <2>1. ASSUME NEW u \in Threads, Holds(u)'
        PROVE  /\ hpos'[u] \in (tail' - QueueSize)..(head' - 1)
               /\ seqs'[Idx(hpos'[u])] = hpos'[u] + 1
               /\ data'[Idx(hpos'[u])] = log'[hpos'[u] + 1]
               /\ taken'[hpos'[u] + 1] = u
    <3>1. CASE u = t
      <4>1. hpos[t] \in (tail - QueueSize)..head
        BY <1>0 DEF CursorsOK
      <4>a. head \in head..(tail - 1)
        BY <1>0, <1>3
      <4>2. data[Idx(head)] = log[head + 1]
        BY <1>2, <4>a, ZenonT(30) DEF QueuedPreserved
      <4> QED BY <1>0, <1>1, <1>2, <3>1, <4>1, <4>2, SMTT(30)
    <3>2. CASE u # t
      <4>1. /\ hpos[u] \in (tail - QueueSize)..(head - 1)
            /\ seqs[Idx(hpos[u])] = hpos[u] + 1
            /\ data[Idx(hpos[u])] = log[hpos[u] + 1]
            /\ taken[hpos[u] + 1] = u
        BY <1>4, <2>1, <3>2, ZenonT(30) DEF HoldsOK
      <4>2. taken'[hpos[u] + 1] = taken[hpos[u] + 1]
        BY <1>0, <1>1, <4>1, SMTT(30)
      <4> QED BY <1>0, <4>1, <4>2, SMTT(30)
    <3> QED BY <3>1, <3>2, ZenonT(30)
  <2>2. ASSUME NEW u \in Threads, NEW v \in Threads,
               Holds(u)', Holds(v)', hpos[u] = hpos[v]
        PROVE  u = v
    <3>1. \A x \in Threads \ {t} : Holds(x)' => hpos[x] # head
      BY <1>0, <1>4, SMTT(30) DEF HoldsOK
    <3> QED BY <1>4, <2>2, <3>1, SMTT(30) DEF HoldsOK
  <2> QED BY <2>1, <2>2, Zenon DEF HoldsOK
<1>9. CasOK'
  <2>1. \A u \in Threads : hpos[u] # head + 1
    BY <1>0 DEF CursorsOK
  <2>2. \A r \in Producers : pc'[r] = "casTail" => pc[r] = "casTail"
    BY <1>0, Zenon
  <2> QED BY <2>1, <2>2, ZenonT(30) DEF CasOK
<1>10. QueuedPreserved'
  <2>1. \A q \in (head + 1)..(tail - 1) : q \in head..(tail - 1)
    BY <1>0
  <2> QED BY <2>1, ZenonT(30) DEF QueuedPreserved
<1>11. DeliveredIntact'
  <2>1. ASSUME NEW c \in Consumers, NEW k \in 1..Len(out'[c])
        PROVE  /\ out'[c][k][1] < head'
               /\ taken'[out'[c][k][1] + 1] = c
               /\ out'[c][k][2] = log'[out'[c][k][1] + 1]
               /\ pc'[c] = "marshal" => out'[c][k][1] < hpos'[c]
               /\ \A j \in 1..(k - 1) : out'[c][j][1] < out'[c][k][1]
    <3>1. out[c] \in Seq(Nat \X (Items \cup {NoItem}))
      BY ZenonT(30) DEF TypeOK
    <3> DEFINE x == out[c][k][1]
    <3>2. x \in Nat
      BY <3>1, SMTT(30)
    <3>3. /\ x < head
          /\ taken[x + 1] = c
          /\ out[c][k][2] = log[x + 1]
          /\ pc[c] = "marshal" => x < hpos[c]
          /\ \A j \in 1..(k - 1) : out[c][j][1] < x
      BY Zenon DEF DeliveredIntact
    <3> HIDE DEF x
    <3>4. taken'[x + 1] = taken[x + 1] /\ x < head + 1
      BY <1>0, <1>1, <3>2, <3>3
    <3>5. pc'[c] = "marshal" => x < hpos[c]
      BY <1>0, <3>3, ZenonT(30)
    <3> QED BY <3>3, <3>4, <3>5, ZenonT(30) DEF x
  <2> QED BY <2>1, ZenonT(30) DEF DeliveredIntact
<1> QED BY <1>5, <1>6, <1>7, <1>8, <1>9, <1>10, <1>11, ZenonT(30)

\* Storing pos + mask + 1 frees the slot only once its holder is done.
LEMMA RecycleInv ==
  ASSUME QueueSize >= 2, IInv, TypeOK', NEW t \in Threads,
         pc[t] \in {"popRecycle", "evictRecycle"},
         seqs' = [seqs EXCEPT ![Idx(hpos[t])] = hpos[t] + QueueSize],
         pc'[t] \in {"idle", "evictCount"},
         \A u \in Threads \ {t} : pc'[u] = pc[u],
         head' = head, tail' = tail, data' = data, log' = log, taken' = taken,
         out' = out, tpos' = tpos, hpos' = hpos, item' = item
  PROVE  IInv'
<1> USE DEF IInv
<1>0. /\ Producers \subseteq Threads /\ Consumers \subseteq Threads
      /\ QueueSize \in Nat /\ head \in Nat /\ tail \in Nat
      /\ seqs \in [Slots -> Nat]
      /\ \A r \in Producers : tpos[r] \in Nat
      /\ \A u \in Threads : hpos[u] \in Nat
  BY RingAssumption, ZenonT(30) DEF Threads, TypeOK
<1>1. /\ Holds(t) /\ ~Holds(t)' /\ ~Claims(t) /\ ~Claims(t)'
      /\ \A u \in Threads \ {t} : (Claims(u)' <=> Claims(u)) /\ (Holds(u)' <=> Holds(u))
  BY ZenonT(30) DEF Claims, Holds
<1> DEFINE next == hpos[t] + QueueSize
<1>2. /\ hpos[t] \in (tail - QueueSize)..(head - 1)
      /\ seqs[Idx(hpos[t])] = hpos[t] + 1
  BY <1>1, Zenon DEF HoldsOK
<1>3. /\ next \in Nat /\ next \in tail..(head + QueueSize - 1)
      /\ Idx(next) = Idx(hpos[t]) /\ seqs[Idx(next)] = next - QueueSize + 1
  BY <1>0, <1>2, IdxNextLap
<1>4. /\ seqs'[Idx(next)] = next
      /\ \A i \in Slots : i # Idx(next) => seqs'[i] = seqs[i]
  BY <1>0, <1>3, IdxInSlots, Zenon
<1>n. next = hpos[t] + QueueSize
  BY Zenon
<1> HIDE DEF next
\* The window of QueueSize positions from head on maps to distinct slots.
<1>5. ASSUME NEW q \in head..(head + QueueSize - 1), q # next
      PROVE  seqs'[Idx(q)] = seqs[Idx(q)]
  <2>1. q \in Nat /\ Idx(q) \in Slots
    BY <1>0, IdxInSlots
  <2>2. q < next + QueueSize /\ next < q + QueueSize
    BY <1>0, <1>3, SMTT(30) DEF CursorsOK
  <2> QED BY <1>3, <1>4, <1>5, <2>1, <2>2, SameSlot, Zenon
<1>q. \A q \in head..(tail - 1) : seqs'[Idx(q)] = seqs[Idx(q)]
  <2>1. \A q \in head..(tail - 1) : q \in head..(head + QueueSize - 1) /\ q # next
    BY <1>0, <1>3, QueuedInWindow, Zenon
  <2> QED BY <1>5, <2>1, Zenon
<1>6. CursorsOK'
  BY Zenon DEF CursorsOK
<1>7. CellsOK'
  <2>1. ASSUME NEW q \in head..(tail - 1)
        PROVE  \/ seqs'[Idx(q)] = q + 1
               \/ seqs'[Idx(q)] = q /\ \E r \in Producers : Claims(r)' /\ tpos[r] = q
    <3>1. seqs'[Idx(q)] = seqs[Idx(q)]
      BY <1>q, Zenon
    <3> QED BY <1>0, <1>1, <3>1, ZenonT(30) DEF CellsOK
  <2>2. ASSUME NEW q \in tail..(head + QueueSize - 1)
        PROVE  \/ seqs'[Idx(q)] = q
               \/ /\ seqs'[Idx(q)] = q - QueueSize + 1
                  /\ \E u \in Threads : Holds(u)' /\ hpos[u] = q - QueueSize
    <3>1. CASE q = next
      BY <1>4, <3>1, Zenon
    <3>2. CASE q # next
      <4>1. seqs'[Idx(q)] = seqs[Idx(q)]
        <5>1. head <= tail
          BY Zenon DEF CursorsOK
        <5>2. q \in head..(head + QueueSize - 1)
          BY <1>0, <5>1
        <5> QED BY <1>5, <3>2, <5>2, Zenon
      <4>2. hpos[t] # q - QueueSize
        <5>1. hpos[t] \in Int /\ q \in Int /\ QueueSize \in Int
          BY <1>0
        <5> QED BY <1>n, <3>2, <5>1, OtherLap, Zenon
      <4> QED BY <1>1, <4>1, <4>2, ZenonT(30) DEF CellsOK
    <3> QED BY <3>1, <3>2, ZenonT(30)
  <2>3. ASSUME NEW q \in 0..(tail - 1) PROVE seqs'[Idx(q)] >= q
    <3>1. q \in Nat /\ Idx(q) \in Slots /\ seqs[Idx(q)] \in Nat /\ seqs[Idx(q)] >= q
      BY <1>0, IdxInSlots, SMTT(30) DEF CellsOK
    <3> QED BY <1>0, <1>3, <1>4, <3>1, SMTT(30)
  <2> QED BY <2>1, <2>2, <2>3, SMTT(30) DEF CellsOK
<1>8. ClaimsOK'
  <2>1. ASSUME NEW r \in Producers, Claims(r)'
        PROVE  Claims(r) /\ pc'[r] = pc[r] /\ tpos[r] \in head..(tail - 1)
    BY <1>0, <1>1, <2>1, Zenon DEF ClaimsOK
  <2>2. ASSUME NEW r \in Producers, Claims(r)'
        PROVE  seqs'[Idx(tpos[r])] = tpos[r]
    <3>1. tpos[r] \in head..(head + QueueSize - 1) /\ tpos[r] # next
      BY <1>0, <1>3, <2>1, <2>2, SMTT(30) DEF CursorsOK
    <3> QED BY <1>5, <2>1, <2>2, <3>1 DEF ClaimsOK
  <2> QED BY <2>1, <2>2, ZenonT(30) DEF ClaimsOK
<1>9. HoldsOK'
  <2>1. ASSUME NEW u \in Threads, Holds(u)'
        PROVE  Holds(u) /\ u # t /\ hpos[u] # hpos[t]
    BY <1>1, <2>1, ZenonT(30) DEF HoldsOK
  <2>2. ASSUME NEW u \in Threads, Holds(u)'
        PROVE  seqs'[Idx(hpos[u])] = hpos[u] + 1
    <3>1. /\ hpos[u] \in (tail - QueueSize)..(head - 1)
          /\ seqs[Idx(hpos[u])] = hpos[u] + 1
      BY <2>1, <2>2, Zenon DEF HoldsOK
    <3>2. hpos[u] < hpos[t] + QueueSize /\ hpos[t] < hpos[u] + QueueSize
      BY <1>0, <1>2, <3>1, SMTT(30) DEF CursorsOK
    <3>3. Idx(hpos[u]) # Idx(hpos[t])
      BY <1>0, <2>1, <2>2, <3>2, SameSlot, Zenon
    <3> QED BY <1>0, <1>3, <1>4, <3>1, <3>3, IdxInSlots, Zenon
  <2> QED BY <2>1, <2>2, Zenon DEF HoldsOK
<1>10. CasOK'
  <2>1. ASSUME NEW r \in Producers, pc'[r] = "casTail", tpos[r] = tail
        PROVE  seqs'[Idx(tail)] = tail
    <3>1. seqs[Idx(tail)] = tail
      BY <1>0, <2>1, Zenon DEF CasOK
    <3>2. Idx(tail) # Idx(next)
      <4>1. tail < next + QueueSize /\ next < tail + QueueSize
        BY <1>0, <1>3, SMTT(30) DEF CursorsOK
      <4>2. tail # next
        BY <1>0, <1>3, <3>1
      <4> QED BY <1>0, <1>3, <4>1, <4>2, SameSlot, Zenon
    <3> QED BY <1>0, <1>4, <3>1, <3>2, IdxInSlots, Zenon
  <2>2. ASSUME NEW u \in Threads, pc'[u] \in {"popCas", "evictCas"}, hpos[u] = head
        PROVE  seqs'[Idx(head)] = head + 1
    <3>1. seqs[Idx(head)] = head + 1
      BY <2>2, Zenon DEF CasOK
    <3>2. CASE Idx(head) = Idx(next)
      BY <1>0, <1>2, <1>3, <3>1, <3>2
    <3>3. CASE Idx(head) # Idx(next)
      BY <1>0, <1>4, <3>1, <3>3, IdxInSlots, Zenon
    <3> QED BY <3>2, <3>3, Zenon
  <2> QED BY <2>1, <2>2, Zenon DEF CasOK
<1>11. QueuedPreserved'
  BY <1>q, Zenon DEF QueuedPreserved
<1>12. DeliveredIntact'
  BY <1>0 DEF DeliveredIntact
<1> QED BY <1>6, <1>7, <1>8, <1>9, <1>10, <1>11, <1>12, ZenonT(30)

\* Marshal reads the item that was queued at the claimed position.
LEMMA PopMarshalInv ==
  ASSUME IInv, TypeOK', NEW c \in Consumers, PopMarshal(c)
  PROVE  IInv'
<1> USE DEF IInv
<1>0. /\ Producers \subseteq Threads /\ Consumers \subseteq Threads
      /\ QueueSize \in Nat /\ head \in Nat /\ tail \in Nat
      /\ seqs \in [Slots -> Nat]
      /\ \A r \in Producers : tpos[r] \in Nat
      /\ \A u \in Threads : hpos[u] \in Nat
      /\ pc[c] = "marshal" /\ c \notin Producers
      /\ \A d \in Consumers : out[d] \in Seq(Nat \X (Items \cup {NoItem}))
  BY RingAssumption, Zenon DEF Threads, TypeOK, PopMarshal
<1>1. /\ out' = [out EXCEPT ![c] = Append(@, <<hpos[c], data[Idx(hpos[c])]>>)]
      /\ head' = head /\ tail' = tail /\ seqs' = seqs /\ data' = data /\ tpos' = tpos
      /\ hpos' = hpos /\ item' = item /\ log' = log /\ taken' = taken
  BY ZenonT(30) DEF PopMarshal, shared, locals
<1>2. pc'[c] = "popRecycle" /\ \A u \in Threads \ {c} : pc'[u] = pc[u]
  BY <1>0, ZenonT(30) DEF PopMarshal, Goto, TypeOK, PcOK
<1>3. \A u \in Threads : (Claims(u)' <=> Claims(u)) /\ (Holds(u)' <=> Holds(u))
  BY <1>0, <1>2, Zenon DEF Claims, Holds
<1>4. /\ hpos[c] < head
      /\ data[Idx(hpos[c])] = log[hpos[c] + 1]
      /\ taken[hpos[c] + 1] = c
  BY <1>0 DEF HoldsOK, Holds
<1>5. CursorsOK' /\ CasOK' /\ QueuedPreserved'
  BY <1>0, <1>1, <1>2, ZenonT(30) DEF CursorsOK, CasOK, QueuedPreserved
<1>6. CellsOK' /\ ClaimsOK' /\ HoldsOK'
  <2>1. \A r \in Producers : pc'[r] = pc[r]
    BY <1>0, <1>2, SMTT(30)
  <2>2. CellsOK'
    BY <1>0, <1>1, <1>3, Zenon DEF CellsOK
  <2>3. ClaimsOK'
    BY <1>0, <1>1, <1>3, <2>1, ZenonT(30) DEF ClaimsOK
  <2>4. HoldsOK'
    BY <1>1, <1>3, ZenonT(30) DEF HoldsOK
  <2> QED BY <2>2, <2>3, <2>4
<1>7. DeliveredIntact'
  <2>1. ASSUME NEW d \in Consumers, NEW k \in 1..Len(out'[d])
        PROVE  /\ out'[d][k][1] < head'
               /\ taken'[out'[d][k][1] + 1] = d
               /\ out'[d][k][2] = log'[out'[d][k][1] + 1]
               /\ pc'[d] = "marshal" => out'[d][k][1] < hpos'[d]
               /\ \A j \in 1..(k - 1) : out'[d][j][1] < out'[d][k][1]
    <3>1. CASE d # c
      <4>1. out'[d] = out[d] /\ pc'[d] = pc[d]
        <5>1. out'[d] = out[d]
          BY <1>1, <3>1, Zenon DEF TypeOK
        <5>2. pc'[d] = pc[d]
          BY <1>0, <1>2, <3>1, Zenon
        <5> QED BY <5>1, <5>2
      <4>2. /\ out[d][k][1] < head
            /\ taken[out[d][k][1] + 1] = d
            /\ out[d][k][2] = log[out[d][k][1] + 1]
            /\ pc[d] = "marshal" => out[d][k][1] < hpos[d]
            /\ \A j \in 1..(k - 1) : out[d][j][1] < out[d][k][1]
        BY <2>1, <4>1, SMTT(30) DEF DeliveredIntact
      <4> QED BY <1>1, <4>1, <4>2, ZenonT(30)
    <3>2. CASE d = c
      <4> DEFINE new == <<hpos[c], data[Idx(hpos[c])]>>
      <4>1. out'[c] = Append(out[c], new)
        BY <1>1 DEF TypeOK
      <4>2. /\ new[1] = hpos[c] /\ new[2] = data[Idx(hpos[c])]
            /\ out[c] \in Seq(Nat \X (Items \cup {NoItem}))
        BY <1>0
      <4> HIDE DEF new
      <4>3. /\ Len(out'[c]) = Len(out[c]) + 1
            /\ \A i \in 1..Len(out[c]) : out'[c][i] = out[c][i]
            /\ out'[c][Len(out[c]) + 1] = new
            /\ Len(out[c]) \in Nat
        BY <4>1, <4>2, SMTT(30)
      <4>4. \A i \in 1..Len(out[c]) :
              /\ out[c][i][1] < head
              /\ taken[out[c][i][1] + 1] = c
              /\ out[c][i][2] = log[out[c][i][1] + 1]
              /\ out[c][i][1] < hpos[c]
              /\ \A j \in 1..(i - 1) : out[c][j][1] < out[c][i][1]
        BY <1>0, SMTT(30) DEF DeliveredIntact
      <4>5. head' = head /\ taken' = taken /\ log' = log /\ pc'[d] # "marshal" /\ out'[d] = out'[c]
        BY <1>1, <1>2, <3>2, ZenonT(30)
      <4>6. CASE k = Len(out[c]) + 1
        <5>1. out'[d][k][1] = hpos[c] /\ out'[d][k][2] = data[Idx(hpos[c])]
          BY <4>2, <4>3, <4>5, <4>6
        <5>2. \A j \in 1..(k - 1) : out'[d][j] = out[c][j] /\ out[c][j][1] < hpos[c]
          BY <4>3, <4>4, <4>5, <4>6
        <5> QED BY <1>4, <3>2, <4>5, <5>1, <5>2, ZenonT(30)
      <4>7. CASE k \in 1..Len(out[c])
        <5>1. \A j \in 1..(k - 1) : j \in 1..Len(out[c])
          BY <4>3, <4>7
        <5>2. out'[d][k] = out[c][k] /\ \A j \in 1..(k - 1) : out'[d][j] = out[c][j]
          BY <4>3, <4>5, <4>7, <5>1, Zenon
        <5>3. /\ out[c][k][1] < head
              /\ taken[out[c][k][1] + 1] = c
              /\ out[c][k][2] = log[out[c][k][1] + 1]
              /\ \A j \in 1..(k - 1) : out[c][j][1] < out[c][k][1]
          BY <4>4, <4>7, Zenon
        <5> QED BY <3>2, <4>5, <5>2, <5>3, ZenonT(30)
      <4>8. k = Len(out[c]) + 1 \/ k \in 1..Len(out[c])
        <5>1. k \in 1..(Len(out[c]) + 1)
          BY <2>1, <3>2, <4>3
        <5> QED BY <4>3, <5>1
      <4> QED BY <4>6, <4>7, <4>8, ZenonT(30)
    <3> QED BY <3>1, <3>2, Zenon
  <2> QED BY <2>1, ZenonT(30) DEF DeliveredIntact
<1> QED BY <1>5, <1>6, <1>7, Zenon

-----------------------------------------------------------------------------
(* Every step                                                               *)

\* Every step preserves the inductive invariant.
LEMMA InvStep ==
  ASSUME QueueSize >= 2, IInv, [Next]_vars
  PROVE  IInv'
<1>0. /\ TypeOK /\ TypeOK' /\ PcOK
      /\ Producers \subseteq Threads /\ Consumers \subseteq Threads
      /\ Producers \cap Consumers = {}
      /\ head \in Nat /\ tail \in Nat
      /\ hpos \in [Threads -> Nat] /\ tpos \in [Producers -> Nat]
      /\ item \in [Producers -> Items \cup {NoItem}]
  BY TypeStep, RingAssumption, Zenon DEF IInv, TypeOK, Threads
<1>c. /\ \A p \in Producers : tpos[p] <= tail
      /\ \A t \in Threads : hpos[t] <= head
  BY DEF IInv, CursorsOK
<1>1. ASSUME NEW p \in Producers, Push(p) \/ PushStep(p) PROVE IInv'
  <2>0. p \in Threads /\ \A u \in Threads \ {p} : pc'[u] = pc[u]
    BY <1>0, <1>1, StepPc, ZenonT(30)
  <2>p. CASE Push(p)
    <3>1. pc[p] = "idle" /\ pc'[p] = "loadTail"
      BY <1>0, <2>0, <2>p DEF Push, Goto, PcOK
    <3>2. /\ UNCHANGED <<head, tail, seqs, data, log, taken, out, tpos, hpos>>
          /\ \A r \in Producers \ {p} : item'[r] = item[r]
      BY <1>0, <2>p, SMTT(30) DEF Push, shared
    <3> QED BY <1>0, <1>c, <2>0, <3>1, <3>2, QuietStep DEF Claims, Holds
  <2>1. CASE PushLoadTail(p)
    <3>1. pc[p] = "loadTail" /\ pc'[p] = "loadSeq"
      BY <1>0, <2>0, <2>1 DEF PushLoadTail, Goto, PcOK
    <3>2. /\ UNCHANGED <<head, tail, seqs, data, log, taken, out, hpos, item>>
          /\ tpos'[p] = tail /\ \A r \in Producers \ {p} : tpos'[r] = tpos[r]
      BY <1>0, <2>1, SMTT(30) DEF PushLoadTail, shared, history
    <3> QED BY <1>0, <1>c, <2>0, <3>1, <3>2, QuietStep, SMTT(30) DEF Claims, Holds
  <2>2. CASE PushSeqReady(p)
    <3>1. /\ pc[p] = "loadSeq"
          /\ \/ pc'[p] = "casTail" /\ PushDiff(p) = 0
             \/ pc'[p] = "loadTail"
      BY <1>0, <2>0, <2>2 DEF PushSeqReady, Goto, PcOK
    <3>2. UNCHANGED <<head, tail, seqs, data, log, taken, out, tpos, hpos, item>>
      BY <2>2 DEF PushSeqReady, shared, locals, history
    <3>3. PushDiff(p) = 0 => seqs[Idx(tpos[p])] = tpos[p]
      <4>1. seqs[Idx(tpos[p])] \in Nat /\ tpos[p] \in Nat
        BY <1>0, IdxInSlots, ZenonT(30) DEF TypeOK
      <4> QED BY <4>1 DEF PushDiff
    <3> QED BY <1>0, <1>c, <2>0, <3>1, <3>2, <3>3, QuietStep, SMTT(30) DEF Claims, Holds
  <2>3. CASE PushSeqFull(p)
    <3>1. pc[p] = "loadSeq" /\ pc'[p] \in {"drop", "evictHead"}
      BY <1>0, <2>0, <2>3 DEF PushSeqFull, Goto, PcOK
    <3>2. UNCHANGED <<head, tail, seqs, data, log, taken, out, tpos, hpos, item>>
      BY <2>3 DEF PushSeqFull, shared, history
    <3> QED BY <1>0, <1>c, <2>0, <3>1, <3>2, QuietStep, ZenonT(30) DEF Claims, Holds
  <2>4. CASE PushCas(p)
    <3>1. pc[p] = "casTail"
      BY <2>4 DEF PushCas
    <3>2. CASE tail = tpos[p]
      <4>1. pc'[p] = "write"
        BY <1>0, <2>0, <2>4, <3>2, SMTT(30) DEF PushCas, Goto, PcOK
      <4> QED BY <1>0, <2>0, <2>4, <3>2, <4>1, PushCasInv
    <3>3. CASE tail # tpos[p]
      <4>1. pc'[p] = "loadTail"
        BY <1>0, <2>0, <2>4, <3>3, SMTT(30) DEF PushCas, Goto, PcOK
      <4>2. UNCHANGED <<head, tail, seqs, data, log, taken, out, tpos, hpos, item>>
        BY <2>4, <3>3, ZenonT(30) DEF PushCas, locals
      <4> QED BY <1>0, <1>c, <2>0, <3>1, <4>1, <4>2, QuietStep DEF Claims, Holds
    <3> QED BY <3>2, <3>3
  <2>5. CASE PushWrite(p)
    BY <1>0, <2>5, PushWriteInv
  <2>6. CASE PushPublish(p)
    BY <1>0, <2>6, PushPublishInv, SMTT(30)
  <2>7. CASE PushDrop(p)
    <3>1. pc[p] = "drop" /\ pc'[p] = "idle"
      BY <1>0, <2>0, <2>7 DEF PushDrop, Goto, PcOK
    <3>2. UNCHANGED <<head, tail, seqs, data, log, taken, out, tpos, hpos, item>>
      BY <2>7, SMTT(30) DEF PushDrop, locals, history
    <3> QED BY <1>0, <1>c, <2>0, <3>1, <3>2, QuietStep DEF Claims, Holds
  <2>8. CASE EvictLoadHead(p)
    <3>1. pc[p] = "evictHead" /\ pc'[p] = "evictSeq"
      BY <1>0, <2>0, <2>8 DEF EvictLoadHead, Goto, PcOK
    <3>2. /\ UNCHANGED <<head, tail, seqs, data, log, taken, out, tpos, item>>
          /\ hpos'[p] = head /\ \A u \in Threads \ {p} : hpos'[u] = hpos[u]
      BY <1>0, <2>0, <2>8, ZenonT(30) DEF EvictLoadHead, shared, history
    <3>3. /\ ~Claims(p) /\ ~Holds(p) /\ tpos'[p] <= tail
          /\ pc'[p] \notin {"write", "publish", "marshal", "popRecycle", "evictRecycle",
                           "casTail", "popCas", "evictCas"}
      BY <1>c, <3>1, <3>2 DEF Claims, Holds
    <3>4. hpos'[p] <= head
      BY <1>0, <3>2
    <3> QED BY <1>0, <2>0, <3>2, <3>3, <3>4, QuietStep
  <2>9. CASE EvictLoadSeq(p)
    <3>1. /\ pc[p] = "evictSeq"
          /\ \/ pc'[p] = "evictCas" /\ HeadPublished(p)
             \/ pc'[p] = "loadTail"
      BY <1>0, <2>0, <2>9 DEF EvictLoadSeq, Goto, PcOK
    <3>2. UNCHANGED <<head, tail, seqs, data, log, taken, out, tpos, hpos, item>>
      BY <2>9 DEF EvictLoadSeq, shared, locals, history
    <3>3. HeadPublished(p) => seqs[Idx(hpos[p])] = hpos[p] + 1
      BY DEF HeadPublished
    <3> QED BY <1>0, <1>c, <2>0, <3>1, <3>2, <3>3, QuietStep, ZenonT(30) DEF Claims, Holds
  <2>10. CASE EvictCas(p)
    <3>1. pc[p] = "evictCas"
      BY <2>10, SMTT(30) DEF EvictCas
    <3>2. CASE head = hpos[p]
      <4>1. pc'[p] = "evictRecycle"
        BY <1>0, <2>0, <2>10, <3>2, SMTT(30) DEF EvictCas, Goto, PcOK
      <4>2. /\ head' = head + 1 /\ taken' = Append(taken, p)
            /\ tail' = tail /\ seqs' = seqs /\ data' = data /\ log' = log /\ out' = out
            /\ tpos' = tpos /\ hpos' = hpos /\ item' = item
        BY <2>10, <3>2, ZenonT(30) DEF EvictCas, locals
      <4> QED BY <1>0, <2>0, <3>1, <3>2, <4>1, <4>2, TakeHeadInv
    <3>3. CASE head # hpos[p]
      <4>1. pc'[p] = "loadTail"
        BY <1>0, <2>0, <2>10, <3>3, SMTT(30) DEF EvictCas, Goto, PcOK
      <4>2. UNCHANGED <<head, tail, seqs, data, log, taken, out, tpos, hpos, item>>
        BY <2>10, <3>3, Zenon DEF EvictCas, locals
      <4> QED BY <1>0, <1>c, <2>0, <3>1, <4>1, <4>2, QuietStep DEF Claims, Holds
    <3> QED BY <3>2, <3>3
  <2>11. CASE EvictRecycle(p)
    <3>1. pc[p] = "evictRecycle" /\ pc'[p] = "evictCount"
      BY <1>0, <2>0, <2>11 DEF EvictRecycle, Goto, PcOK
    <3>2. /\ seqs' = [seqs EXCEPT ![Idx(hpos[p])] = hpos[p] + QueueSize]
          /\ head' = head /\ tail' = tail /\ data' = data /\ log' = log
          /\ taken' = taken /\ out' = out /\ tpos' = tpos /\ hpos' = hpos /\ item' = item
      BY <2>11, SMTT(30) DEF EvictRecycle, RecycledSeq, locals, history
    <3> QED BY <1>0, <2>0, <3>1, <3>2, RecycleInv, ZenonT(30)
  <2>12. CASE EvictCount(p)
    <3>1. pc[p] = "evictCount" /\ pc'[p] = "loadTail"
      BY <1>0, <2>0, <2>12 DEF EvictCount, Goto, PcOK
    <3>2. UNCHANGED <<head, tail, seqs, data, log, taken, out, tpos, hpos, item>>
      BY <2>12 DEF EvictCount, locals, history
    <3> QED BY <1>0, <1>c, <2>0, <3>1, <3>2, QuietStep DEF Claims, Holds
  <2> QED BY <1>1, <2>p, <2>1, <2>2, <2>3, <2>4, <2>5, <2>6, <2>7, <2>8, <2>9,
             <2>10, <2>11, <2>12, SMTT(30) DEF PushStep
<1>2. ASSUME NEW c \in Consumers, PopStep(c) PROVE IInv'
  <2>0. c \in Threads /\ c \notin Producers /\ \A u \in Threads \ {c} : pc'[u] = pc[u]
    BY <1>0, <1>2, StepPc, SMTT(30)
  <2>1. CASE PopLoadHead(c)
    <3>1. pc[c] \in {"idle", "popHead"} /\ pc'[c] = "popSeq"
      BY <1>0, <2>0, <2>1, SMTT(30) DEF PopLoadHead, Goto, PcOK
    <3>2. /\ UNCHANGED <<head, tail, seqs, data, log, taken, out, tpos, item>>
          /\ hpos'[c] = head /\ \A u \in Threads \ {c} : hpos'[u] = hpos[u]
      BY <1>0, <2>0, <2>1, SMTT(30) DEF PopLoadHead, shared, history
    <3> QED BY <1>0, <1>c, <2>0, <3>1, <3>2, QuietStep DEF Claims, Holds
  <2>2. CASE PopLoadSeq(c)
    <3>1. /\ pc[c] = "popSeq"
          /\ \/ pc'[c] = "popCas" /\ PopDiff(c) = 0
             \/ pc'[c] \in {"idle", "popHead"}
      BY <1>0, <2>0, <2>2 DEF PopLoadSeq, Goto, PcOK
    <3>2. UNCHANGED <<head, tail, seqs, data, log, taken, out, tpos, hpos, item>>
      BY <2>2 DEF PopLoadSeq, shared, locals, history
    <3>3. PopDiff(c) = 0 => seqs[Idx(hpos[c])] = hpos[c] + 1
      <4>1. seqs[Idx(hpos[c])] \in Nat /\ hpos[c] \in Nat
        BY <1>0, <2>0, IdxInSlots, ZenonT(30) DEF TypeOK
      <4> QED BY <4>1 DEF PopDiff
    <3> QED BY <1>0, <1>c, <2>0, <3>1, <3>2, <3>3, QuietStep, ZenonT(30) DEF Claims, Holds
  <2>3. CASE PopCas(c)
    <3>1. pc[c] = "popCas"
      BY <2>3, SMTT(30) DEF PopCas
    <3>2. CASE head = hpos[c]
      <4>1. pc'[c] = "marshal"
        BY <1>0, <2>0, <2>3, <3>2 DEF PopCas, Goto, PcOK
      <4>2. /\ head' = head + 1 /\ taken' = Append(taken, c)
            /\ tail' = tail /\ seqs' = seqs /\ data' = data /\ log' = log /\ out' = out
            /\ tpos' = tpos /\ hpos' = hpos /\ item' = item
        BY <2>3, <3>2, SMTT(30) DEF PopCas, locals
      <4> QED BY <1>0, <2>0, <3>1, <3>2, <4>1, <4>2, TakeHeadInv
    <3>3. CASE head # hpos[c]
      <4>1. pc'[c] = "popHead"
        BY <1>0, <2>0, <2>3, <3>3, SMTT(30) DEF PopCas, Goto, PcOK
      <4>2. UNCHANGED <<head, tail, seqs, data, log, taken, out, tpos, hpos, item>>
        BY <2>3, <3>3, Zenon DEF PopCas, locals
      <4> QED BY <1>0, <1>c, <2>0, <3>1, <4>1, <4>2, QuietStep, ZenonT(30) DEF Claims, Holds
    <3> QED BY <3>2, <3>3
  <2>4. CASE PopMarshal(c)
    BY <1>0, <2>4, PopMarshalInv
  <2>5. CASE PopRecycle(c)
    <3>1. pc[c] = "popRecycle" /\ pc'[c] = "idle"
      BY <1>0, <2>0, <2>5 DEF PopRecycle, Goto, PcOK
    <3>2. /\ seqs' = [seqs EXCEPT ![Idx(hpos[c])] = hpos[c] + QueueSize]
          /\ head' = head /\ tail' = tail /\ data' = data /\ log' = log
          /\ taken' = taken /\ out' = out /\ tpos' = tpos /\ hpos' = hpos /\ item' = item
      BY <2>5 DEF PopRecycle, RecycledSeq, locals, history
    <3> QED BY <1>0, <2>0, <3>1, <3>2, RecycleInv, ZenonT(30)
  <2> QED BY <1>2, <2>1, <2>2, <2>3, <2>4, <2>5, SMTT(30) DEF PopStep
<1>3. CASE UNCHANGED vars
  <2>1. UNCHANGED <<head, tail, seqs, data, pc, tpos, hpos, item, log, taken, out>>
    BY <1>3 DEF vars, shared, locals, history
  <2>2. CursorsOK' /\ CellsOK' /\ CasOK' /\ QueuedPreserved' /\ DeliveredIntact'
    <3>1. CursorsOK' /\ CasOK'
      BY <2>1, Zenon DEF IInv, CursorsOK, CasOK
    <3>2. CellsOK'
      BY <2>1, Zenon DEF IInv, CellsOK, Claims, Holds
    <3>3. QueuedPreserved'
      BY <2>1 DEF IInv, QueuedPreserved
    <3>4. DeliveredIntact'
      BY <2>1 DEF IInv, DeliveredIntact
    <3> QED BY <3>1, <3>2, <3>3, <3>4
  <2>3. ClaimsOK' /\ HoldsOK'
    BY <2>1, ZenonT(30) DEF IInv, ClaimsOK, HoldsOK, Claims, Holds
  <2> QED BY <1>0, <2>2, <2>3 DEF IInv
<1> QED BY <1>1, <1>2, <1>3 DEF Next

-----------------------------------------------------------------------------
\* IInv is an invariant of the ring, for every number of producers and
\* consumers, either policy, any retry cap and every QueueSize from two up.
THEOREM RingInvariant ==
  ASSUME QueueSize >= 2
  PROVE  Spec => []IInv
<1>1. IInv /\ [Next]_vars => IInv'
  BY InvStep
<1> QED BY InvInit, <1>1, PTL DEF Spec

=============================================================================
