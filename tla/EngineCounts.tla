----------------------------- MODULE EngineCounts ----------------------------
(***************************************************************************)
(* The accounts of batcher.go: where every pushed item is, what each       *)
(* counter has seen of it, what a call of Stats may report, and what a     *)
(* clean shutdown leaves behind.                                           *)
(***************************************************************************)
EXTENDS EngineOrder, FiniteSetTheorems

-----------------------------------------------------------------------------
(* The ring's account                                                      *)

\* Items the ring has let go, taken or evicted: the position of head.
Gone == Cardinality(lost) + Len(received[Drainer])

\* Every accepted item is queued, taken or evicted, and the ring holds no more than
\* Capacity of them together with the slots popMarshal keeps from being reused.
RingLedger ==
  /\ dropped \in Nat /\ held \in Nat /\ pushes <= MaxPush /\ pending \subseteq 1..pushes
  /\ pushes = dropped + Gone + Len(queue)
  /\ Len(queue) + held <= Capacity
  /\ IF dpc = "marshal" THEN held > 0 ELSE held = 0

\* A slot whose eviction is under way is within Capacity of the tail, every Push call
\* that found no slot is one of those MaxPush allows, and an eviction is counted after
\* the item is gone.
SlotLedger ==
  /\ pushes + blocked <= MaxPush
  /\ \A d \in evicting : d \in Nat \ {0} /\ Len(queue) + d <= Capacity
  /\ evicted \in Nat /\ evicted <= Cardinality(lost)

LEMMA LostFinite ==
  ASSUME pushes \in Nat, QueueInv
  PROVE  IsFiniteSet(lost) /\ Cardinality(lost) \in Nat
<1>1. IsFiniteSet(1..pushes)
  BY FS_Interval
<1> QED
  BY <1>1, FS_Subset, FS_CardinalityType, ZenonT(30) DEF QueueInv

\* How the ring's variables move.
LEMMA RingSteps ==
  ASSUME FlushInv, QueueInv, [Next]_vars
  PROVE  LET q == Len(queue)
             r == Len(received[Drainer])
         IN
         /\ q \in Nat /\ r \in Nat /\ pushes \in Nat /\ Cardinality(lost) \in Nat
         /\ \/ /\ Push /\ Len(queue') = q + 1 /\ pushes' = pushes + 1
               /\ UNCHANGED <<received, lost, dropped, held, dpc>>
            \/ /\ PushDropped /\ pushes' = pushes + 1 /\ dropped' = dropped + 1
               /\ UNCHANGED <<queue, received, lost, pending, held, dpc>>
            \/ /\ EvictOldest /\ q > 0 /\ Len(queue') = q - 1
               /\ Cardinality(lost') = Cardinality(lost) + 1
               /\ UNCHANGED <<received, pending, pushes, dropped, dpc>>
            \/ /\ PopClaim /\ q > 0 /\ Len(queue') = q - 1 /\ Len(received'[Drainer]) = r + 1
               /\ dpc = "pop" /\ dpc' = "marshal" /\ held' = 1
               /\ UNCHANGED <<lost, pending, pushes, dropped>>
            \/ /\ UNCHANGED <<queue, received, lost, pushes, dropped>> /\ pending' \subseteq pending
               /\ evicting' \subseteq evicting /\ (PushFull \/ blocked' = blocked \/ blocked' = blocked - 1)
               /\ \/ held' = held /\ dpc # "marshal" /\ dpc' # "marshal"
                  \/ held' = held /\ dpc' = dpc
                  \/ held' = 0 /\ dpc = "marshal" /\ dpc' # "marshal"
<1>0. /\ queue \in Seq(Items) /\ received[Drainer] \in Seq(Items) /\ pushes \in Nat
      /\ received \in [{Drainer} -> Seq(Items)] /\ IsFiniteSet(lost) /\ Cardinality(lost) \in Nat
  BY LostFinite, Zenon DEF FlushInv, FlushTypes
<1>1. Len(queue) \in Nat /\ Len(received[Drainer]) \in Nat
  BY <1>0
<1>2. ASSUME Push
      PROVE  /\ Push /\ Len(queue') = Len(queue) + 1 /\ pushes' = pushes + 1
             /\ UNCHANGED <<received, lost, dropped, held, dpc>>
  <2>1. /\ queue' = Append(queue, pushes + 1) /\ pushes' = pushes + 1
        /\ UNCHANGED <<received, lost, dropped, held, dpc>>
    BY <1>2, PushStep, Zenon DEF NotProducer
  <2>2. pushes + 1 \in Items
    <3>1. pushes + blocked < MaxPush /\ blocked \in Nat /\ MaxPush \in Nat
      BY <1>2, PushStep, EngineAssumption, Zenon DEF Producing, FlushInv, FlushTypes
    <3> QED
      BY <1>0, <3>1 DEF Items
  <2>3. Len(queue') = Len(queue) + 1
    BY <1>0, <2>1, <2>2
  <2> QED
    BY <1>2, <2>1, <2>3, Zenon
<1>3. ASSUME PushDropped
      PROVE  /\ PushDropped /\ pushes' = pushes + 1 /\ dropped' = dropped + 1
             /\ UNCHANGED <<queue, received, lost, pending, held, dpc>>
  BY <1>3, DropStep, Zenon DEF NotProducer
<1>4. ASSUME EvictOldest
      PROVE  /\ EvictOldest /\ Len(queue) > 0 /\ Len(queue') = Len(queue) - 1
             /\ Cardinality(lost') = Cardinality(lost) + 1
             /\ UNCHANGED <<received, pending, pushes, dropped, dpc>>
  <2>1. /\ queue # << >> /\ queue' = Tail(queue) /\ lost' = lost \cup {Head(queue)}
        /\ UNCHANGED <<received, pending, pushes, dropped, dpc>>
    BY <1>4, EvictStep, Zenon DEF NotProducer
  <2>2. Len(queue) > 0 /\ Len(queue') = Len(queue) - 1 /\ Head(queue) = queue[1] /\ 1 \in DOMAIN queue
    BY <1>0, <2>1
  <2>3. queue[1] \in Nat
    BY <1>0, <2>2, EngineAssumption, SMTT(30) DEF Items
  <2>4. queue[1] \notin lost
    BY <2>2, <2>3 DEF QueueInv
  <2>5. Cardinality(lost') = Cardinality(lost) + 1
    BY <1>0, <2>1, <2>2, <2>4, FS_AddElement, ZenonT(30)
  <2> QED
    BY <1>4, <2>1, <2>2, <2>5, Zenon
<1>5. ASSUME PopClaim
      PROVE  /\ PopClaim /\ Len(queue) > 0 /\ Len(queue') = Len(queue) - 1
             /\ Len(received'[Drainer]) = Len(received[Drainer]) + 1
             /\ dpc = "pop" /\ dpc' = "marshal" /\ held' = 1
             /\ UNCHANGED <<lost, pending, pushes, dropped>>
  <2>1. queue # << >> /\ queue' = Tail(queue) /\ held' = 1 /\ UNCHANGED <<pending, pushes, dropped>>
    BY <1>5, TakeStep, Zenon
  <2>2. Len(queue) > 0 /\ Len(queue') = Len(queue) - 1
    BY <1>0, <2>1
  <2> QED
    BY <1>5, <2>1, <2>2, PopTop, Zenon
<1>6. ASSUME [Next]_vars, ~Push, ~PushDropped, ~EvictOldest, ~PopClaim
      PROVE  /\ UNCHANGED <<queue, received, lost, pushes, dropped>> /\ pending' \subseteq pending
             /\ evicting' \subseteq evicting /\ (PushFull \/ blocked' = blocked \/ blocked' = blocked - 1)
             /\ \/ held' = held /\ dpc # "marshal" /\ dpc' # "marshal"
                \/ held' = held /\ dpc' = dpc
                \/ held' = 0 /\ dpc = "marshal" /\ dpc' # "marshal"
  <2>1. CASE Transmit \/ StatsLoad \/ UNCHANGED vars
    BY <2>1, Zenon DEF Transmit, OutsideSink, StatsLoad, ringVars, vars
  <2>6. CASE PushFull \/ Publish \/ EvictNothing \/ EvictRecycle \/ EvictCount
    BY <2>6, QuietStep, Zenon DEF NotProducer
  <2>2. CASE LoopStep
    <3>1. UNCHANGED ringVars /\ (dpc' = dpc \/ (mpc = "select" /\ dpc' = "pop"))
      BY <2>2, Zenon DEF LoopStep, Start, Cancel, ShutdownDeadline, FinalReturn, Tick, CtxDone, BeginDrain
    <3> QED
      BY <3>1, Zenon DEF ringVars, FlushInv, DrainInv
  <2>3. ASSUME NEW w \in MarshalResults, Marshal(w)
        PROVE  /\ UNCHANGED <<queue, received, lost, pending, evicting, blocked, pushes, dropped>>
               /\ held' = 0 /\ dpc = "marshal" /\ dpc' # "marshal"
    BY <2>3, ReleaseStep, Zenon DEF Marshal
  <2>4. CASE StopDrain \/ DrainEmpty \/ Seal \/ Compress \/ CompressFails \/ Flush \/ FlushBusy
             \/ AwaitResult \/ AwaitTimeout
    BY <2>4, Zenon DEF StopDrain, DrainEmpty, Seal, Compress, CompressFails, Flush, FlushBusy, AwaitResult,
                AwaitTimeout, EndDrain, ringVars
  <2>5. ASSUME NEW f \in 1..MaxPush, FlightStep(f) PROVE UNCHANGED <<ringVars, dpc>>
    BY <2>5, Zenon DEF FlightStep, SinkWrite, CopyingFlush, SinkFail, Send, Clear, OutsideSink
  <2> QED
    BY <1>6, <2>1, <2>2, <2>3, <2>4, <2>5, <2>6, Zenon DEF Next, ProducerStep, DrainStep, ringVars
<1> QED
  BY <1>0, <1>1, <1>2, <1>3, <1>4, <1>5, <1>6, Zenon

LEMMA RingLedgerStep ==
  ASSUME FlushInv, QueueInv, RingLedger, SlotLedger, [Next]_vars
  PROVE  RingLedger'
<1>0. /\ Len(queue) \in Nat /\ Len(received[Drainer]) \in Nat /\ pushes \in Nat
      /\ Cardinality(lost) \in Nat /\ Gone \in Nat /\ MaxPush \in Nat /\ Capacity \in Nat
  <2>1. /\ Len(queue) \in Nat /\ Len(received[Drainer]) \in Nat /\ pushes \in Nat
        /\ Cardinality(lost) \in Nat
    BY RingSteps, Zenon
  <2>2. Gone \in Nat
    BY <2>1 DEF Gone
  <2>3. MaxPush \in Nat /\ Capacity \in Nat
    BY EngineAssumption, Zenon
  <2> QED
    BY <2>1, <2>2, <2>3, Zenon
<1>1. CASE /\ Push /\ Len(queue') = Len(queue) + 1 /\ pushes' = pushes + 1
           /\ UNCHANGED <<received, lost, dropped, held, dpc>>
  <2>1. pushes < MaxPush /\ Len(queue) + held < Capacity /\ pending' = pending \cup {pushes + 1}
    <3>1. blocked \in Nat /\ held \in Nat
      BY Zenon DEF FlushInv, FlushTypes, RingLedger
    <3>2. ~(Len(queue) + held >= Capacity)
      BY <1>1, PushStep, Zenon DEF Ring!NoFreeSlot
    <3>3. pushes + blocked < MaxPush /\ pending' = pending \cup {pushes + 1}
      BY <1>1, PushStep, Zenon DEF Producing
    <3> QED
      BY <1>0, <3>1, <3>2, <3>3
  <2>2. Gone' = Gone /\ pending' \subseteq 1..pushes'
    <3>1. Gone' = Gone
      BY <1>1, Zenon DEF Gone
    <3>2. pending \subseteq 1..pushes
      BY Zenon DEF RingLedger
    <3> QED
      BY <1>0, <1>1, <2>1, <3>1, <3>2
  <2> QED
    BY <1>0, <1>1, <2>1, <2>2 DEF RingLedger
<1>2. CASE /\ PushDropped /\ pushes' = pushes + 1 /\ dropped' = dropped + 1
           /\ UNCHANGED <<queue, received, lost, pending, held, dpc>>
  <2>1. pushes < MaxPush
    <3>1. blocked \in Nat /\ blocked > 0 /\ pushes + blocked <= MaxPush
      BY <1>2, DropStep, Zenon DEF SlotLedger, FlushInv, FlushTypes
    <3> QED
      BY <1>0, <3>1
  <2>2. Gone' = Gone /\ pending' \subseteq 1..pushes'
    BY <1>0, <1>2 DEF Gone, RingLedger
  <2> QED
    BY <1>0, <1>2, <2>1, <2>2 DEF RingLedger
<1>3. CASE /\ EvictOldest /\ Len(queue) > 0 /\ Len(queue') = Len(queue) - 1
           /\ Cardinality(lost') = Cardinality(lost) + 1
           /\ UNCHANGED <<received, pending, pushes, dropped, dpc>>
  <2>1. held' = IF held = 0 THEN 0 ELSE held + 1
    BY <1>3, EvictStep, Zenon
  <2>2. Gone' = Gone + 1
    BY <1>0, <1>3, SMTT(30) DEF Gone
  <2> QED
    BY <1>0, <1>3, <2>1, <2>2 DEF RingLedger
<1>4. CASE /\ PopClaim /\ Len(queue) > 0 /\ Len(queue') = Len(queue) - 1
           /\ Len(received'[Drainer]) = Len(received[Drainer]) + 1
           /\ dpc = "pop" /\ dpc' = "marshal" /\ held' = 1
           /\ UNCHANGED <<lost, pending, pushes, dropped>>
  <2>1. Gone' = Gone + 1
    BY <1>0, <1>4 DEF Gone
  <2> QED
    BY <1>0, <1>4, <2>1 DEF RingLedger
<1>5. CASE /\ UNCHANGED <<queue, received, lost, pushes, dropped>> /\ pending' \subseteq pending
           /\ evicting' \subseteq evicting /\ (PushFull \/ blocked' = blocked \/ blocked' = blocked - 1)
           /\ \/ held' = held /\ dpc # "marshal" /\ dpc' # "marshal"
              \/ held' = held /\ dpc' = dpc
              \/ held' = 0 /\ dpc = "marshal" /\ dpc' # "marshal"
  <2>1. Gone' = Gone
    BY <1>5, Zenon DEF Gone
  <2> QED
    BY <1>0, <1>5, <2>1 DEF RingLedger
<1> QED
  BY <1>1, <1>2, <1>3, <1>4, <1>5, RingSteps

LEMMA EvictingFinite ==
  ASSUME Capacity \in Nat, Len(queue) \in Nat,
         \A d \in evicting : d \in Nat \ {0} /\ Len(queue) + d <= Capacity
  PROVE  Cardinality(evicting) \in Nat
<1>1. evicting \subseteq 1..Capacity
  OBVIOUS
<1>2. IsFiniteSet(1..Capacity)
  BY FS_Interval
<1> QED
  BY <1>1, <1>2, FS_Subset, FS_CardinalityType, ZenonT(30)

\* Only the producer that evicted adds to the counter.
LEMMA EvictedSteps ==
  ASSUME [Next]_vars
  PROVE  evicted' = evicted \/ EvictCount
<1>1. CASE Transmit \/ StatsLoad \/ UNCHANGED vars
  BY <1>1, Zenon DEF Transmit, OutsideSink, StatsLoad, ringVars, vars
<1>2. CASE ProducerStep
  BY <1>2, PushStep, DropStep, EvictStep, QuietStep, Zenon DEF ProducerStep
<1>3. CASE LoopStep
  BY <1>3, Zenon DEF LoopStep, Start, Cancel, ShutdownDeadline, FinalReturn, Tick, CtxDone, BeginDrain, ringVars
<1>4. ASSUME NEW w \in MarshalResults, Marshal(w) PROVE evicted' = evicted
  BY <1>4, ReleaseStep, Zenon
<1>5. CASE PopClaim \/ StopDrain \/ DrainEmpty \/ Seal \/ Compress \/ CompressFails \/ Flush \/ FlushBusy
           \/ AwaitResult \/ AwaitTimeout
  BY <1>5, TakeStep, Zenon DEF StopDrain, DrainEmpty, Seal, Compress, CompressFails, Flush, FlushBusy,
              AwaitResult, AwaitTimeout, ringVars
<1>6. ASSUME NEW f \in 1..MaxPush, FlightStep(f) PROVE evicted' = evicted
  BY <1>6, Zenon DEF FlightStep, SinkWrite, CopyingFlush, SinkFail, Send, Clear, OutsideSink, ringVars
<1> QED
  BY <1>1, <1>2, <1>3, <1>4, <1>5, <1>6, Zenon DEF Next, DrainStep

LEMMA SlotLedgerStep ==
  ASSUME FlushInv, QueueInv, RingLedger, SlotLedger, [Next]_vars
  PROVE  SlotLedger'
<1>0. /\ Len(queue) \in Nat /\ pushes \in Nat /\ blocked \in Nat /\ MaxPush \in Nat /\ Capacity \in Nat
      /\ pushes + blocked <= MaxPush /\ \A d \in evicting : d \in Nat \ {0} /\ Len(queue) + d <= Capacity
  <2>1. Len(queue) \in Nat
    BY RingSteps, Zenon
  <2> QED
    BY <2>1, EngineAssumption, Zenon DEF FlushInv, FlushTypes, SlotLedger
<1> DEFINE Claims == /\ pushes + blocked <= MaxPush
                     /\ \A d \in evicting : d \in Nat \ {0} /\ Len(queue) + d <= Capacity
<1>1. Claims'
  <2>1. CASE Push /\ Len(queue') = Len(queue) + 1
    <3>1. \A d \in evicting : ~(Len(queue) + d >= Capacity)
      BY <2>1, PushStep, Zenon DEF Ring!NoFreeSlot
    <3>2. pushes + blocked < MaxPush /\ pushes' = pushes + 1 /\ blocked' = blocked /\ evicting' = evicting
      BY <2>1, PushStep, Zenon DEF Producing
    <3> QED
      BY <1>0, <2>1, <3>1, <3>2
  <2>2. CASE PushDropped
    <3>1. /\ blocked > 0 /\ pushes' = pushes + 1 /\ blocked' = blocked - 1 /\ UNCHANGED <<evicting, queue>>
      BY <2>2, DropStep, Zenon
    <3> QED
      BY <1>0, <3>1
  <2>3. CASE EvictOldest /\ Len(queue) > 0 /\ Len(queue') = Len(queue) - 1
    <3>1. blocked' = blocked - 1 /\ pushes' = pushes /\ evicting' = {d + 1 : d \in evicting} \cup {1}
      BY <2>3, EvictStep, Zenon
    <3>2. Len(queue) <= Capacity
      BY <1>0 DEF RingLedger
    <3> QED
      BY <1>0, <2>3, <3>1, <3>2
  <2>4. CASE PopClaim /\ Len(queue) > 0 /\ Len(queue') = Len(queue) - 1
    <3>1. UNCHANGED <<blocked, pushes>> /\ evicting' = {d + 1 : d \in evicting}
      BY <2>4, TakeStep, Zenon
    <3> QED
      BY <1>0, <2>4, <3>1
  <2>5. CASE /\ queue' = queue /\ pushes' = pushes /\ evicting' \subseteq evicting
             /\ PushFull \/ blocked' = blocked \/ blocked' = blocked - 1
    <3>1. CASE PushFull
      <4>1. pushes + blocked < MaxPush /\ blocked' = blocked + 1
        BY <3>1, Zenon DEF PushFull, Producing
      <4> QED
        BY <1>0, <2>5, <4>1
    <3>2. CASE blocked' = blocked \/ blocked' = blocked - 1
      BY <1>0, <2>5, <3>2
    <3> QED
      BY <2>5, <3>1, <3>2, Zenon
  <2> HIDE DEF Claims
  <2> QED
    BY <2>1, <2>2, <2>3, <2>4, <2>5, RingSteps, Zenon
<1> HIDE DEF Claims
<1>2. evicted' \in Nat /\ evicted' <= Cardinality(lost')
  <2> DEFINE l == Cardinality(lost)
             e == Cardinality(evicting)
  <2>1. l \in Nat /\ l' \in {l, l + 1} /\ evicted \in Nat /\ evicted <= l
    BY RingSteps, Zenon DEF SlotLedger
  <2>2. CASE evicted' = evicted
    <3> HIDE DEF l
    <3>1. evicted <= l'
      BY <2>1
    <3> QED
      BY <2>1, <2>2, <3>1, Zenon DEF l
  <2>3. CASE EvictCount
    <3>1. evicted' = evicted + 1 /\ evicted + e < l /\ l' = l
      BY <2>3, Zenon DEF EvictCount, queueVars
    <3>2. e \in Nat
      BY <1>0, EvictingFinite, Zenon
    <3> HIDE DEF l, e
    <3>3. evicted + 1 \in Nat /\ evicted + 1 <= l
      BY <2>1, <3>1, <3>2
    <3> QED
      BY <3>1, <3>3, Zenon DEF l
  <2> QED
    BY <2>2, <2>3, EvictedSteps, Zenon
<1> QED
  BY <1>1, <1>2, Zenon DEF SlotLedger, Claims

-----------------------------------------------------------------------------
(* The drain's account                                                     *)

Taken      == Len(received[Drainer])
InFrame    == IF dpc = "idle" THEN 0 ELSE n
Unsealed   == IF dpc \in {"pop", "marshal", "seal"} THEN n ELSE 0
Claimed    == IF dpc = "marshal" THEN 1 ELSE 0
InProgress == IF dpc \in {"compress", "flush", "await"} THEN 1 ELSE 0

CounterTypes ==
  /\ truncated \in Nat /\ flushedItems \in Nat /\ flushedBatches \in Nat
  /\ flushErrs \in Nat /\ compressReports \in Nat

\* Every item taken is flushed, truncated or in the frame under way, but for those of
\* frames whose flush or compression failed; frames are no more than the items they
\* carry; and each sequence number has its outcome.
FrameLedger ==
  /\ CounterTypes
  /\ flushedItems + truncated + InFrame + Claimed <= Taken
  /\ HasSink /\ flushErrs + compressReports = 0
       => flushedItems + truncated + InFrame + Claimed = Taken
  /\ sealed + truncated + Unsealed + Claimed <= Taken
  /\ sealed = flushedBatches + flushErrs + compressReports + InProgress

\* Outside the drain only the start of the next one matters to it.
LEMMA DrainMoves ==
  ASSUME FlushInv, [Next]_vars
  PROVE  \/ UNCHANGED <<dpc, n, Taken, sealed, truncated, flushedItems, flushedBatches, flushErrs,
                        compressReports>>
         \/ /\ dpc = "idle" /\ dpc' = "pop" /\ n' = 0
            /\ UNCHANGED <<Taken, sealed, truncated, flushedItems, flushedBatches, flushErrs,
                           compressReports>>
         \/ DrainStep
<1>1. CASE ProducerStep \/ Transmit \/ StatsLoad \/ UNCHANGED vars
  BY <1>1, ProducersKeep, Zenon DEF NotProducer, Transmit,
              OutsideSink, StatsLoad, frameVars, flushVars, ringVars, vars,
              n, Taken
<1>2. ASSUME NEW f \in 1..MaxPush, FlightStep(f) PROVE UNCHANGED <<ringVars, dpc, frameVars, flushVars>>
  BY <1>2, ZenonT(30) DEF FlightStep, SinkWrite, CopyingFlush, SinkFail, Send, Clear, OutsideSink
<1>3. CASE Start \/ Cancel \/ ShutdownDeadline \/ FinalReturn
  BY <1>3, Zenon DEF Start, Cancel, ShutdownDeadline, FinalReturn, frameVars, flushVars, ringVars, n, Taken
<1>4. CASE Tick \/ CtxDone
  <2>1. BeginDrain /\ dpc = "idle"
    BY <1>4, Zenon DEF Tick, CtxDone, FlushInv, DrainInv
  <2>2. byteBuffer \in AnyFrame
    BY Zenon DEF FlushInv, FlushTypes
  <2>3. byteBuffer' = [byteBuffer EXCEPT !.items = << >>]
    BY <2>1, Zenon DEF BeginDrain
  <2>4. n' = 0
    BY <2>2, <2>3, Zenon DEF n, AnyFrame
  <2> QED
    BY <2>1, <2>4, Zenon DEF BeginDrain, flushVars, ringVars, Taken
<1> QED
  BY <1>1, <1>2, <1>3, <1>4, Zenon DEF Next, LoopStep, frameVars, flushVars, ringVars, n, Taken

\* A count that shrinks stays below its bound.
LEMMA StillBelow ==
  ASSUME NEW a \in Nat, NEW b \in Nat, NEW c \in Nat, b <= a, a <= c
  PROVE  b <= c
  OBVIOUS

LEMMA FrameLedgerStep ==
  ASSUME FlushInv, QueueInv, FrameLedger, [Next]_vars
  PROVE  FrameLedger'
<1>0. /\ Taken \in Nat /\ n \in Nat /\ sealed \in Nat /\ CounterTypes
      /\ byteBuffer \in AnyFrame /\ byteBuffer.items \in Seq(Items)
  <2>1. received[Drainer] \in Seq(Items) /\ byteBuffer \in AnyFrame /\ sealed \in Nat
    BY Zenon DEF FlushInv, FlushTypes
  <2>2. byteBuffer.items \in Seq(Items)
    BY <2>1, Zenon DEF AnyFrame
  <2> QED
    BY <2>1, <2>2 DEF Taken, n, FrameLedger
<1> USE DEF FrameLedger, CounterTypes
<1>1. CASE UNCHANGED <<dpc, n, Taken, sealed, truncated, flushedItems, flushedBatches, flushErrs,
                       compressReports>>
  BY <1>1, Zenon DEF InFrame, Unsealed, Claimed, InProgress
<1>2. CASE /\ dpc = "idle" /\ dpc' = "pop" /\ n' = 0
           /\ UNCHANGED <<Taken, sealed, truncated, flushedItems, flushedBatches, flushErrs,
                          compressReports>>
  BY <1>0, <1>2, Zenon DEF InFrame, Unsealed, Claimed, InProgress
<1>3. CASE PopClaim
  <2>1. /\ dpc = "pop" /\ dpc' = "marshal" /\ Taken' = Taken + 1 /\ n' = n
        /\ UNCHANGED <<sealed, truncated, flushedItems, flushedBatches, flushErrs, compressReports>>
    BY <1>3, PopTop, TakeStep, Zenon DEF frameVars, flushVars, n, Taken
  <2> QED
    BY <1>0, <2>1 DEF InFrame, Unsealed, Claimed, InProgress
<1>4. ASSUME NEW w \in MarshalResults, Marshal(w) PROVE FrameLedger'
  <2>1. /\ dpc = "marshal"
        /\ UNCHANGED <<Taken, sealed, flushedItems, flushedBatches, flushErrs, compressReports>>
    BY <1>4, ReleaseStep, Zenon DEF Marshal, flushVars, Taken
  <2>2. CASE Fits(w)
    <3> DEFINE x == received[Drainer][Len(received[Drainer])]
    <3>1. byteBuffer' = [byteBuffer EXCEPT !.items = Append(@, x)] /\ dpc' = "pop" /\ truncated' = truncated
      BY <1>4, <2>2, Zenon DEF Marshal
    <3>2. x \in Items
      BY <2>1, SMTT(30) DEF FlushInv, FlushTypes
    <3> HIDE DEF x
    <3>3. byteBuffer'.items = Append(byteBuffer.items, x)
      BY <1>0, <3>1, Zenon DEF AnyFrame
    <3>4. n' = n + 1
      BY <1>0, <3>2, <3>3 DEF n
    <3>5. /\ InFrame = n /\ Unsealed = n /\ Claimed = 1 /\ InProgress = 0
          /\ InFrame' = n + 1 /\ Unsealed' = n + 1 /\ Claimed' = 0 /\ InProgress' = 0
      BY <2>1, <3>1, <3>4, Zenon DEF InFrame, Unsealed, Claimed, InProgress
    <3>6. CounterTypes' /\ sealed' = flushedBatches' + flushErrs' + compressReports' + InProgress'
      BY <1>0, <2>1, <3>1, <3>5, Zenon
    <3>7. /\ (flushedItems + truncated + InFrame + Claimed)' = flushedItems + truncated + InFrame + Claimed
          /\ (sealed + truncated + Unsealed + Claimed)' = sealed + truncated + Unsealed + Claimed
      <4>1. /\ {n, sealed, truncated, flushedItems} \subseteq Nat
            /\ UNCHANGED <<sealed, truncated, flushedItems>>
        BY <1>0, <2>1, <3>1, Zenon
      <4> HIDE DEF FrameLedger
      <4> QED
        BY <3>5, <4>1
    <3> QED
      BY <2>1, <3>6, <3>7, Zenon
  <2>3. CASE ~Fits(w)
    <3>1. dpc' = "seal" /\ truncated' = truncated + 1 /\ n' = n
      BY <1>4, <2>3, Zenon DEF Marshal, n
    <3> QED
      BY <1>0, <2>1, <3>1 DEF InFrame, Unsealed, Claimed, InProgress
  <2> QED
    BY <2>2, <2>3, Zenon
<1>5. CASE StopDrain \/ Compress \/ Flush
  <2>1. /\ \/ dpc = "pop" /\ dpc' = "seal"
           \/ dpc \in {"compress", "flush"} /\ dpc' \in {"flush", "await"}
        /\ UNCHANGED <<n, Taken, sealed, truncated, flushedItems, flushedBatches, flushErrs,
                       compressReports>>
    BY <1>5, Zenon DEF StopDrain, Compress, Flush, ringVars, frameVars, flushVars, n, Taken
  <2> QED
    BY <1>0, <2>1, Zenon DEF InFrame, Unsealed, Claimed, InProgress
<1>6. CASE DrainEmpty
  <2>1. /\ dpc = "seal" /\ dpc' = "idle" /\ (n = 0 \/ ~HasSink)
        /\ UNCHANGED <<Taken, sealed, truncated, flushedItems, flushedBatches, flushErrs,
                       compressReports>>
    BY <1>6, Zenon DEF DrainEmpty, NothingToFlush, EndDrain, ringVars, frameVars, flushVars, n, Taken
  <2> QED
    BY <1>0, <2>1 DEF InFrame, Unsealed, Claimed, InProgress
<1>7. CASE Seal
  <2> DEFINE base == IF DeltaEncoding /\ ~IsKeyframe THEN baseline ELSE Raw
  <2>1. /\ dpc = "seal" /\ dpc' \in {"compress", "flush"} /\ n # 0 /\ sealed' = sealed + 1
        /\ byteBuffer' = [byteBuffer EXCEPT !.number = sealed + 1, !.seq = NextSequenceID, !.base = base]
        /\ UNCHANGED <<Taken, truncated, flushedItems, flushedBatches, flushErrs, compressReports>>
    BY <1>7, Zenon DEF Seal, NothingToFlush, ringVars, flushVars, Taken
  <2> HIDE DEF base
  <2>2. n' = n
    BY <1>0, <2>1, Zenon DEF n, AnyFrame
  <2>3. /\ InFrame = n /\ Unsealed = n /\ Claimed = 0 /\ InProgress = 0
        /\ InFrame' = n /\ Unsealed' = 0 /\ Claimed' = 0 /\ InProgress' = 1
    BY <2>1, <2>2, Zenon DEF InFrame, Unsealed, Claimed, InProgress
  <2>4. CounterTypes' /\ sealed' = flushedBatches' + flushErrs' + compressReports' + InProgress'
    BY <1>0, <2>1, <2>3
  <2>5. /\ (flushedItems + truncated + InFrame + Claimed)' = flushedItems + truncated + InFrame + Claimed
        /\ (sealed + truncated + Unsealed + Claimed)' <= sealed + truncated + Unsealed + Claimed
        /\ sealed + truncated + Unsealed + Claimed \in Nat
        /\ (sealed + truncated + Unsealed + Claimed)' \in Nat
    <3>1. /\ {n, sealed, truncated, flushedItems} \subseteq Nat /\ n # 0
          /\ sealed' = sealed + 1 /\ UNCHANGED <<truncated, flushedItems>>
      BY <1>0, <2>1, Zenon
    <3> HIDE DEF FrameLedger
    <3> QED
      BY <2>3, <3>1
  <2>6. /\ (flushedItems + truncated + InFrame + Claimed <= Taken)'
        /\ HasSink /\ flushErrs + compressReports = 0
             => (flushedItems + truncated + InFrame + Claimed = Taken)'
    BY <2>1, <2>5, Zenon
  <2>7. (sealed + truncated + Unsealed + Claimed)' <= Taken'
    <3>1. sealed + truncated + Unsealed + Claimed <= Taken /\ Taken' = Taken
      BY <2>1, Zenon
    <3> QED
      BY <1>0, <2>5, <3>1, StillBelow, Zenon
  <2> QED
    BY <2>1, <2>4, <2>6, <2>7, Zenon
<1>8. CASE CompressFails \/ FlushBusy \/ AwaitTimeout \/ (AwaitResult /\ Awaited.err)
  <2>1. /\ dpc \in {"compress", "flush", "await"} /\ dpc' = "idle"
        /\ \/ compressReports' = compressReports + 1 /\ flushErrs' = flushErrs
           \/ flushErrs' = flushErrs + 1 /\ compressReports' = compressReports
        /\ UNCHANGED <<n, Taken, sealed, truncated, flushedItems, flushedBatches>>
    BY <1>8, Zenon DEF CompressFails, FlushBusy, AwaitTimeout, AwaitResult, FlushFailed, EndDrain, ringVars,
                frameVars, n, Taken
  <2>2. /\ InFrame = n /\ Unsealed = 0 /\ Claimed = 0 /\ InProgress = 1
        /\ InFrame' = 0 /\ Unsealed' = 0 /\ Claimed' = 0 /\ InProgress' = 0
    BY <2>1, Zenon DEF InFrame, Unsealed, Claimed, InProgress
  <2>3. CounterTypes' /\ sealed' = flushedBatches' + flushErrs' + compressReports' + InProgress'
    BY <1>0, <2>1, <2>2
  <2>4. /\ flushErrs' + compressReports' # 0
        /\ flushedItems + truncated + InFrame + Claimed \in Nat
        /\ (flushedItems + truncated + InFrame + Claimed)' \in Nat
        /\ (flushedItems + truncated + InFrame + Claimed)' <= flushedItems + truncated + InFrame + Claimed
    <3>1. /\ {n, truncated, flushedItems, flushErrs, compressReports} \subseteq Nat
          /\ UNCHANGED <<truncated, flushedItems>>
      BY <1>0, <2>1, Zenon
    <3>2. flushErrs' + compressReports' = flushErrs + compressReports + 1
      BY <2>1, <3>1
    <3> HIDE DEF FrameLedger
    <3> QED
      BY <2>2, <3>1, <3>2
  <2>5. (flushedItems + truncated + InFrame + Claimed)' <= Taken'
    <3>1. flushedItems + truncated + InFrame + Claimed <= Taken /\ Taken' = Taken
      BY <2>1, Zenon
    <3> QED
      BY <1>0, <2>4, <3>1, StillBelow, Zenon
  <2>6. (sealed + truncated + Unsealed + Claimed <= Taken)'
    BY <2>1, <2>2, Zenon
  <2> QED
    BY <2>3, <2>4, <2>5, <2>6, Zenon
<1>9. CASE AwaitResult /\ ~Awaited.err
  <2>1. /\ dpc = "await" /\ dpc' = "idle"
        /\ flushedItems' = flushedItems + n /\ flushedBatches' = flushedBatches + 1
        /\ UNCHANGED <<n, Taken, sealed, truncated, flushErrs, compressReports>>
    BY <1>9, Zenon DEF AwaitResult, FlushSucceeded, EndDrain, ringVars, frameVars, n, Taken
  <2> QED
    BY <1>0, <2>1 DEF InFrame, Unsealed, Claimed, InProgress
<1> QED
  BY <1>1, <1>2, <1>3, <1>4, <1>5, <1>6, <1>7, <1>8, <1>9, DrainMoves, ZenonT(30) DEF DrainStep

-----------------------------------------------------------------------------
(* Snapshots                                                               *)

\* What the loads made so far can have returned: a counter only grows after it was
\* loaded, tail had not passed head by more than Capacity when it was loaded, and head,
\* loaded last, has passed every item that was counted before.
StatsInv ==
  /\ loads \in 0..6 /\ {stats.Dropped, stats.Evicted, stats.Truncated, stats.FlushedItems, stats.tail,
                        stats.head} \subseteq Nat
  /\ loads >= 1 => stats.Dropped <= dropped
  /\ loads >= 2 => stats.Evicted <= Cardinality(lost)
  /\ loads >= 3 => stats.Truncated <= truncated
  /\ loads >= 4 => stats.FlushedItems <= flushedItems
  /\ loads >= 5 => stats.Dropped + stats.tail <= pushes /\ stats.tail <= Gone + Capacity
  /\ loads >= 6 => /\ stats.Evicted + stats.Truncated + stats.FlushedItems <= stats.head
                   /\ stats.tail <= stats.head + Capacity

LEMMA SumGrows ==
  ASSUME NEW a \in Nat, NEW b \in Nat, NEW c \in Nat, NEW d \in Nat, a <= c, b <= d
  PROVE  a + b \in Nat /\ c + d \in Nat /\ a + b <= c + d
OBVIOUS

\* The counters and the cursors of the ring never go back.
LEMMA CountsGrow ==
  ASSUME FlushInv, QueueInv, RingLedger, FrameLedger, [Next]_vars
  PROVE  /\ dropped \in Nat /\ Cardinality(lost) \in Nat /\ truncated \in Nat /\ flushedItems \in Nat
         /\ pushes \in Nat /\ Gone \in Nat
         /\ dropped' \in Nat /\ Cardinality(lost') \in Nat /\ truncated' \in Nat /\ flushedItems' \in Nat
         /\ pushes' \in Nat /\ Gone' \in Nat
         /\ dropped <= dropped' /\ Cardinality(lost) <= Cardinality(lost') /\ truncated <= truncated'
         /\ flushedItems <= flushedItems' /\ pushes <= pushes' /\ Gone <= Gone'
<1>1. /\ dropped \in Nat /\ Cardinality(lost) \in Nat /\ pushes \in Nat /\ Gone \in Nat
      /\ dropped' \in Nat /\ Cardinality(lost') \in Nat /\ pushes' \in Nat /\ Gone' \in Nat
      /\ dropped <= dropped' /\ Cardinality(lost) <= Cardinality(lost') /\ pushes <= pushes' /\ Gone <= Gone'
  <2> DEFINE l == Cardinality(lost)
             r == Len(received[Drainer])
  <2>1. /\ r \in Nat /\ pushes \in Nat /\ l \in Nat
        /\ pushes' \in {pushes, pushes + 1} /\ dropped' \in {dropped, dropped + 1}
        /\ l' \in {l, l + 1} /\ r' \in {r, r + 1}
    BY RingSteps, Zenon
  <2>2. dropped \in Nat /\ Gone = l + r
    BY Zenon DEF RingLedger, Gone
  <2>3. Gone' = l' + r'
    BY Zenon DEF Gone
  <2>4. /\ l \in Nat /\ l' \in Nat /\ l <= l' /\ dropped' \in Nat /\ dropped <= dropped' /\ pushes' \in Nat
        /\ pushes <= pushes'
    BY <2>1, <2>2
  <2> HIDE DEF l, r
  <2>5. r \in Nat /\ r' \in Nat /\ r <= r'
    BY <2>1
  <2>6. Gone \in Nat /\ Gone' \in Nat /\ Gone <= Gone'
    BY <2>2, <2>3, <2>4, <2>5, SumGrows, ZenonT(30)
  <2> QED
    BY <2>1, <2>2, <2>4, <2>6, Zenon DEF l
<1>2. truncated \in Nat /\ flushedItems \in Nat /\ n \in Nat
  <2>1. byteBuffer.items \in Seq(Items)
    BY Zenon DEF FlushInv, FlushTypes, AnyFrame
  <2> QED
    BY <2>1 DEF FrameLedger, CounterTypes, n
<1>3. /\ truncated' \in {truncated, truncated + 1}
      /\ flushedItems' \in {flushedItems, flushedItems + n}
  <2>1. CASE UNCHANGED <<truncated, flushedItems>>
    BY <2>1, Zenon
  <2>2. CASE DrainStep
    <3>1. ASSUME NEW w \in MarshalResults, Marshal(w)
          PROVE  truncated' \in {truncated, truncated + 1} /\ flushedItems' = flushedItems
      BY <3>1, Zenon DEF Marshal, flushVars
    <3>2. CASE PopClaim \/ StopDrain \/ DrainEmpty \/ Seal \/ Compress \/ CompressFails \/ Flush
               \/ FlushBusy \/ AwaitTimeout
      BY <3>2, Zenon DEF PopClaim, StopDrain, DrainEmpty, Seal, Compress, CompressFails, Flush, FlushBusy,
                  AwaitTimeout, FlushFailed, frameVars, flushVars
    <3>3. CASE AwaitResult
      BY <3>3, Zenon DEF AwaitResult, FlushFailed, FlushSucceeded, frameVars
    <3> QED
      BY <2>2, <3>1, <3>2, <3>3, Zenon DEF DrainStep
  <2> QED
    BY <2>1, <2>2, DrainMoves, Zenon
<1> QED
  BY <1>1, <1>2, <1>3

LEMMA Fields ==
  /\ LoadOrder[1] = "Dropped" /\ LoadOrder[2] = "Evicted" /\ LoadOrder[3] = "Truncated"
  /\ LoadOrder[4] = "FlushedItems" /\ LoadOrder[5] = "tail" /\ LoadOrder[6] = "head"
  /\ Len(LoadOrder) = 6 /\ DOMAIN LoadOrder = 1..6
  /\ {LoadOrder[k] : k \in DOMAIN LoadOrder}
       = {"Dropped", "Evicted", "Truncated", "FlushedItems", "tail", "head"}
<1>1. /\ LoadOrder[1] = "Dropped" /\ LoadOrder[2] = "Evicted" /\ LoadOrder[3] = "Truncated"
      /\ LoadOrder[4] = "FlushedItems" /\ LoadOrder[5] = "tail" /\ LoadOrder[6] = "head"
      /\ Len(LoadOrder) = 6 /\ DOMAIN LoadOrder = 1..6
  BY DEF LoadOrder
<1>2. 1..6 = {1, 2, 3, 4, 5, 6}
  OBVIOUS
<1> QED
  BY <1>1, <1>2

StatTypes ==
  stats \in [{"Dropped", "Evicted", "Truncated", "FlushedItems", "tail", "head"} -> Nat]

\* Every load returns the value of the moment.
LEMMA LoadSteps ==
  ASSUME StatTypes, StatsLoad, loads \in 0..6, dropped \in Nat, evicted \in Nat,
         truncated \in Nat, flushedItems \in Nat, pushes - dropped \in Nat, Gone \in Nat
  PROVE  /\ StatTypes' /\ UNCHANGED <<dropped, lost, truncated, flushedItems, pushes, Gone>>
         /\ \/ loads = 0 /\ loads' = 1 /\ stats' = [stats EXCEPT !["Dropped"] = dropped]
            \/ loads = 1 /\ loads' = 2 /\ stats' = [stats EXCEPT !["Evicted"] = evicted]
            \/ loads = 2 /\ loads' = 3 /\ stats' = [stats EXCEPT !["Truncated"] = truncated]
            \/ loads = 3 /\ loads' = 4 /\ stats' = [stats EXCEPT !["FlushedItems"] = flushedItems]
            \/ loads = 4 /\ loads' = 5 /\ stats' = [stats EXCEPT !["tail"] = pushes - dropped]
            \/ loads = 5 /\ loads' = 6 /\ stats' = [stats EXCEPT !["head"] = Gone]
<1>1. /\ loads < 6 /\ loads' = loads + 1
      /\ stats' = [stats EXCEPT ![LoadOrder[loads + 1]] = Load(LoadOrder[loads + 1])]
      /\ UNCHANGED <<dropped, lost, truncated, flushedItems, pushes, Gone>>
  BY Fields, Zenon DEF StatsLoad, ringVars, frameVars, flushVars, Gone
<1>2. /\ Load("Dropped") = dropped /\ Load("Evicted") = evicted /\ Load("Truncated") = truncated
      /\ Load("FlushedItems") = flushedItems /\ Load("tail") = pushes - dropped /\ Load("head") = Gone
  BY Zenon DEF Load, Gone
<1>3. \/ loads = 0 /\ loads' = 1 /\ LoadOrder[loads + 1] = "Dropped"
      \/ loads = 1 /\ loads' = 2 /\ LoadOrder[loads + 1] = "Evicted"
      \/ loads = 2 /\ loads' = 3 /\ LoadOrder[loads + 1] = "Truncated"
      \/ loads = 3 /\ loads' = 4 /\ LoadOrder[loads + 1] = "FlushedItems"
      \/ loads = 4 /\ loads' = 5 /\ LoadOrder[loads + 1] = "tail"
      \/ loads = 5 /\ loads' = 6 /\ LoadOrder[loads + 1] = "head"
  <2>1. \/ (loads = 0 /\ loads' = 1 /\ loads + 1 = 1) \/ (loads = 1 /\ loads' = 2 /\ loads + 1 = 2)
        \/ (loads = 2 /\ loads' = 3 /\ loads + 1 = 3) \/ (loads = 3 /\ loads' = 4 /\ loads + 1 = 4)
        \/ (loads = 4 /\ loads' = 5 /\ loads + 1 = 5) \/ (loads = 5 /\ loads' = 6 /\ loads + 1 = 6)
    BY <1>1
  <2> QED
    BY <2>1, Fields, ZenonT(30)
<1>4. \/ loads = 0 /\ loads' = 1 /\ stats' = [stats EXCEPT !["Dropped"] = dropped]
      \/ loads = 1 /\ loads' = 2 /\ stats' = [stats EXCEPT !["Evicted"] = evicted]
      \/ loads = 2 /\ loads' = 3 /\ stats' = [stats EXCEPT !["Truncated"] = truncated]
      \/ loads = 3 /\ loads' = 4 /\ stats' = [stats EXCEPT !["FlushedItems"] = flushedItems]
      \/ loads = 4 /\ loads' = 5 /\ stats' = [stats EXCEPT !["tail"] = pushes - dropped]
      \/ loads = 5 /\ loads' = 6 /\ stats' = [stats EXCEPT !["head"] = Gone]
  BY <1>1, <1>2, <1>3, ZenonT(30)
<1>5. StatTypes'
  BY <1>4 DEF StatTypes
<1> QED
  BY <1>1, <1>4, <1>5, Zenon

LEMMA StatsStep ==
  ASSUME FlushInv, QueueInv, RingLedger, SlotLedger, FrameLedger, StatTypes, StatsInv, [Next]_vars
  PROVE  StatTypes' /\ StatsInv'
<1>0. /\ dropped \in Nat /\ Cardinality(lost) \in Nat /\ truncated \in Nat /\ flushedItems \in Nat
      /\ pushes \in Nat /\ Gone \in Nat /\ Capacity \in Nat
      /\ dropped' \in Nat /\ Cardinality(lost') \in Nat /\ truncated' \in Nat /\ flushedItems' \in Nat
      /\ pushes' \in Nat /\ Gone' \in Nat
      /\ dropped <= dropped' /\ Cardinality(lost) <= Cardinality(lost') /\ truncated <= truncated'
      /\ flushedItems <= flushedItems' /\ pushes <= pushes' /\ Gone <= Gone'
  BY CountsGrow, EngineAssumption, Zenon
<1>1. CASE UNCHANGED statsVars
  <2>1. loads' = loads /\ stats' = stats
    BY <1>1, Zenon DEF statsVars
  <2> QED
    BY <1>0, <2>1 DEF StatsInv, StatTypes
<1>2. CASE StatsLoad
  <2>1. pushes - dropped \in Nat /\ pushes - dropped <= Gone + Capacity
    <3>1. /\ Len(queue) \in Nat /\ held \in Nat /\ pushes = dropped + Gone + Len(queue)
          /\ Len(queue) + held <= Capacity
      BY DEF RingLedger, FlushInv, FlushTypes
    <3> QED
      BY <1>0, <3>1, SMTT(30)
  <2>2. Cardinality(lost) + truncated + flushedItems <= Gone
    <3>1. InFrame \in Nat /\ Claimed \in Nat /\ Taken \in Nat
      BY SMTT(30) DEF InFrame, Claimed, Taken, n, FlushInv, FlushTypes, AnyFrame
    <3>2. flushedItems + truncated + InFrame + Claimed <= Taken
      BY Zenon DEF FrameLedger
    <3>3. Gone = Cardinality(lost) + Taken
      BY Zenon DEF Gone, Taken
    <3> QED
      BY <1>0, <3>1, <3>2, <3>3, SMTT(30)
  <2>3. loads \in 0..6
    BY Zenon DEF StatsInv
  <2>4. /\ StatTypes' /\ UNCHANGED <<dropped, lost, truncated, flushedItems, pushes, Gone>>
        /\ \/ loads = 0 /\ loads' = 1 /\ stats' = [stats EXCEPT !["Dropped"] = dropped]
           \/ loads = 1 /\ loads' = 2 /\ stats' = [stats EXCEPT !["Evicted"] = evicted]
           \/ loads = 2 /\ loads' = 3 /\ stats' = [stats EXCEPT !["Truncated"] = truncated]
           \/ loads = 3 /\ loads' = 4 /\ stats' = [stats EXCEPT !["FlushedItems"] = flushedItems]
           \/ loads = 4 /\ loads' = 5 /\ stats' = [stats EXCEPT !["tail"] = pushes - dropped]
           \/ loads = 5 /\ loads' = 6 /\ stats' = [stats EXCEPT !["head"] = Gone]
    BY <1>0, <1>2, <2>1, <2>3, LoadSteps, Zenon DEF SlotLedger
  <2>5. CASE loads = 0 /\ loads' = 1 /\ stats' = [stats EXCEPT !["Dropped"] = dropped]
    BY <1>0, <2>4, <2>5, SMTT(30) DEF StatsInv, StatTypes
  <2>6. CASE loads = 1 /\ loads' = 2 /\ stats' = [stats EXCEPT !["Evicted"] = evicted]
    <3>1. evicted \in Nat /\ evicted <= Cardinality(lost)
      BY Zenon DEF SlotLedger
    <3> QED
      BY <1>0, <2>4, <2>6, <3>1, SMTT(30) DEF StatsInv, StatTypes
  <2>7. CASE loads = 2 /\ loads' = 3 /\ stats' = [stats EXCEPT !["Truncated"] = truncated]
    BY <1>0, <2>4, <2>7, SMTT(30) DEF StatsInv, StatTypes
  <2>8. CASE loads = 3 /\ loads' = 4 /\ stats' = [stats EXCEPT !["FlushedItems"] = flushedItems]
    BY <1>0, <2>4, <2>8, SMTT(30) DEF StatsInv, StatTypes
  <2>9. CASE loads = 4 /\ loads' = 5 /\ stats' = [stats EXCEPT !["tail"] = pushes - dropped]
    BY <1>0, <2>1, <2>4, <2>9, SMTT(30) DEF StatsInv, StatTypes
  <2>10. CASE loads = 5 /\ loads' = 6 /\ stats' = [stats EXCEPT !["head"] = Gone]
    BY <1>0, <2>2, <2>4, <2>10, SMTT(30) DEF StatsInv, StatTypes
  <2> QED
    BY <2>4, <2>5, <2>6, <2>7, <2>8, <2>9, <2>10, Zenon
<1>3. StatsLoad \/ UNCHANGED statsVars
  <2>1. CASE ProducerStep \/ Transmit \/ UNCHANGED vars
    BY <2>1, ProducersKeep, Zenon DEF NotProducer, Transmit, OutsideSink,
                loopVars, vars
  <2>2. CASE LoopStep
    BY <2>2, Zenon DEF LoopStep, Start, Cancel, ShutdownDeadline, FinalReturn, Tick, CtxDone, BeginDrain
  <2>3. CASE DrainStep
    <3>1. UNCHANGED loopVars \/ EndDrain
      BY <2>3, Zenon DEF DrainStep, PopClaim, Marshal, StopDrain, DrainEmpty, Seal, Compress, CompressFails,
                  Flush, FlushBusy, AwaitResult, AwaitTimeout
    <3> QED
      BY <3>1, Zenon DEF EndDrain, loopVars
  <2>4. ASSUME NEW f \in 1..MaxPush, FlightStep(f) PROVE UNCHANGED statsVars
    BY <2>4, ZenonT(30) DEF FlightStep, SinkWrite, CopyingFlush, SinkFail, Send, Clear, OutsideSink, loopVars
  <2> QED
    BY <2>1, <2>2, <2>3, <2>4, Zenon DEF Next
<1> QED
  BY <1>1, <1>2, <1>3, Zenon

-----------------------------------------------------------------------------
(* The accounts together                                                   *)

LedgerInv == RingLedger /\ SlotLedger /\ FrameLedger /\ StatTypes /\ StatsInv

LEMMA LedgerInvInit == Init => LedgerInv
<1> SUFFICES ASSUME Init PROVE LedgerInv
  BY Zenon
<1>1. /\ queue = << >> /\ received[Drainer] = << >> /\ lost = {} /\ pending = {} /\ held = 0
      /\ evicting = {} /\ blocked = 0 /\ evicted = 0 /\ pushes = 0 /\ dropped = 0 /\ dpc = "idle"
      /\ sealed = 0 /\ truncated = 0 /\ flushedBatches = 0
      /\ flushedItems = 0 /\ flushErrs = 0 /\ compressReports = 0 /\ loads = 0
      /\ stats = [field \in {LoadOrder[k] : k \in DOMAIN LoadOrder} |-> 0]
  BY Zenon DEF Init, Ring!SlotInit, Ring!Init
<1>2. Cardinality(lost) = 0 /\ Len(queue) = 0 /\ Len(received[Drainer]) = 0
  BY <1>1, FS_EmptySet, Zenon
<1>3. RingLedger
  BY <1>1, <1>2, EngineAssumption, SMTT(30) DEF RingLedger, Gone
<1>7. SlotLedger
  BY <1>1, <1>2, EngineAssumption, SMTT(30) DEF SlotLedger
<1>4. FrameLedger
  BY <1>1, <1>2 DEF FrameLedger, CounterTypes, InFrame, Unsealed, Claimed, InProgress, Taken
<1>5. StatTypes
  BY <1>1, Fields, Zenon DEF StatTypes
<1>6. StatsInv
  <2>1. {stats.Dropped, stats.Evicted, stats.Truncated, stats.FlushedItems, stats.tail, stats.head}
          \subseteq Nat
    BY <1>5, Zenon DEF StatTypes
  <2>2. loads = 0
    BY <1>1, Zenon
  <2> QED
    BY <2>1, <2>2 DEF StatsInv
<1> QED
  BY <1>3, <1>4, <1>5, <1>6, <1>7, Zenon DEF LedgerInv

LEMMA LedgerInvariant == Spec => [](FlushInv /\ OrderInv /\ StreamInv /\ LedgerInv)
<1>1. FlushInv /\ OrderInv /\ LedgerInv /\ [Next]_vars => LedgerInv'
  BY RingLedgerStep, SlotLedgerStep, FrameLedgerStep, StatsStep, Zenon DEF OrderInv, LedgerInv
<1> QED
  BY <1>1, LedgerInvInit, StreamInvariant, PTL DEF Spec

\* batcher.go, Stats: whatever pushes, evictions, drains and flushes happen between its
\* loads, a snapshot accounts for no more items than were pushed.
THEOREM SnapshotsCountOnce == Spec => []CountsOnce
<1>1. FlushInv /\ OrderInv /\ LedgerInv => CountsOnce
  <2> SUFFICES ASSUME FlushInv, OrderInv, LedgerInv, loads = 6
               PROVE  stats.Dropped + stats.Evicted + stats.Truncated + stats.FlushedItems + QueueDepth
                        <= pushes
    BY Fields, Zenon DEF CountsOnce
  <2>1. /\ stats.Dropped \in Nat /\ stats.Evicted \in Nat /\ stats.Truncated \in Nat
        /\ stats.FlushedItems \in Nat /\ stats.tail \in Nat /\ stats.head \in Nat
        /\ stats.Dropped <= dropped /\ stats.Evicted <= Cardinality(lost) /\ stats.Truncated <= truncated
        /\ stats.FlushedItems <= flushedItems /\ stats.Dropped + stats.tail <= pushes
        /\ stats.Evicted + stats.Truncated + stats.FlushedItems <= stats.head
    BY DEF LedgerInv, StatsInv
  <2>2. /\ dropped \in Nat /\ Cardinality(lost) \in Nat /\ truncated \in Nat /\ flushedItems \in Nat
        /\ pushes \in Nat /\ dropped + Cardinality(lost) + truncated + flushedItems <= pushes
    <3>1. /\ InFrame \in Nat /\ Claimed \in Nat /\ Taken \in Nat /\ Len(queue) \in Nat /\ pushes \in Nat
          /\ Cardinality(lost) \in Nat
      BY LostFinite, SMTT(30) DEF InFrame, Claimed, Taken, n, FlushInv, FlushTypes, AnyFrame, OrderInv
    <3>2. /\ flushedItems + truncated + InFrame + Claimed <= Taken
          /\ truncated \in Nat /\ flushedItems \in Nat
      BY Zenon DEF LedgerInv, FrameLedger, CounterTypes
    <3>3. dropped \in Nat /\ pushes = dropped + (Cardinality(lost) + Taken) + Len(queue)
      BY Zenon DEF LedgerInv, RingLedger, Gone, Taken
    <3> QED
      BY <3>1, <3>2, <3>3, SMTT(30)
  <2>3. CASE stats.tail >= stats.head
    <3>1. QueueDepth = stats.tail - stats.head
      BY <2>3, Zenon DEF QueueDepth
    <3> QED
      BY <2>1, <2>2, <2>3, <3>1
  <2>4. CASE ~(stats.tail >= stats.head)
    <3>1. QueueDepth = 0
      BY <2>4, Zenon DEF QueueDepth
    <3> QED
      BY <2>1, <2>2, <3>1
  <2> QED
    BY <2>3, <2>4, Zenon
<1> QED
  BY <1>1, LedgerInvariant, PTL

\* batcher.go, QueueDepth: tail is loaded before head, so the depth reported is never
\* more than a QueueSize of two or more, although both move between the loads.  (With
\* one slot, which EngineAssumption leaves out, a Push overwrites a queued item and tail
\* runs ahead of the capacity.)
THEOREM DepthIsALoadFactor == Spec => []DepthWithinCap
<1>1. LedgerInv => DepthWithinCap
  <2> SUFFICES ASSUME LedgerInv, loads = 6 PROVE QueueDepth <= Capacity
    BY Fields, Zenon DEF DepthWithinCap
  <2>1. stats.tail \in Nat /\ stats.head \in Nat /\ stats.tail <= stats.head + Capacity /\ Capacity \in Nat
    BY EngineAssumption, SMTT(30) DEF LedgerInv, StatsInv
  <2> QED
    BY <2>1 DEF QueueDepth
<1> QED
  BY <1>1, LedgerInvariant, PTL

-----------------------------------------------------------------------------
(* The final drain                                                         *)

\* The frame stays within the buffer, and within the count its header can hold.
SizeInv ==
  /\ offset \in HeaderSize..MaxBatchSize
  /\ n <= MaxCount /\ (dpc = "marshal" => n < MaxCount)

\* The lengths change at the start of a drain and with each marshalled item.
LEMMA SizeSteps ==
  ASSUME FlushInv, [Next]_vars
  PROVE  \/ /\ UNCHANGED <<offset, n>>
            /\ \/ dpc' = dpc
               \/ PopClaim /\ dpc = "pop" /\ dpc' = "marshal" /\ RoomForItem
               \/ dpc' \notin {"pop", "marshal"}
         \/ BeginDrain /\ dpc = "idle" /\ dpc' = "pop" /\ offset' = HeaderSize /\ n' = 0
         \/ /\ dpc = "marshal" /\ dpc' = "pop" /\ n' = n + 1
            /\ \E w \in MarshalResults : Marshal(w) /\ Fits(w) /\ offset' = offset + w
<1>0. byteBuffer \in AnyFrame /\ byteBuffer.items \in Seq(Items)
  BY Zenon DEF FlushInv, FlushTypes, AnyFrame
<1>1. CASE BeginDrain /\ dpc = "idle"
  <2>1. dpc' = "pop" /\ offset' = HeaderSize /\ byteBuffer' = [byteBuffer EXCEPT !.items = << >>]
    BY <1>1, Zenon DEF BeginDrain
  <2>2. n' = 0
    BY <1>0, <2>1, Zenon DEF n, AnyFrame
  <2> QED
    BY <1>1, <2>1, <2>2, Zenon
<1>2. ASSUME NEW w \in MarshalResults, Marshal(w), Fits(w)
      PROVE  dpc = "marshal" /\ dpc' = "pop" /\ n' = n + 1 /\ offset' = offset + w
  <2> DEFINE x == received[Drainer][Len(received[Drainer])]
  <2>1. /\ dpc = "marshal" /\ dpc' = "pop" /\ offset' = offset + w
        /\ byteBuffer' = [byteBuffer EXCEPT !.items = Append(@, x)]
    BY <1>2, Zenon DEF Marshal
  <2>2. x \in Items
    BY <2>1 DEF FlushInv, FlushTypes
  <2> HIDE DEF x
  <2>3. byteBuffer'.items = Append(byteBuffer.items, x)
    BY <1>0, <2>1, Zenon DEF AnyFrame
  <2> QED
    BY <1>0, <2>1, <2>2, <2>3, SMTT(30) DEF n
<1>3. ASSUME NEW w \in MarshalResults, Marshal(w), ~Fits(w)
      PROVE  UNCHANGED <<offset, n>> /\ dpc' \notin {"pop", "marshal"}
  BY <1>3, Zenon DEF Marshal, n
<1>4. CASE PopClaim
  BY <1>4, Zenon DEF PopClaim, frameVars, n
<1>5. CASE Seal
  <2> DEFINE base == IF DeltaEncoding /\ ~IsKeyframe THEN baseline ELSE Raw
  <2>1. /\ byteBuffer' = [byteBuffer EXCEPT !.number = sealed + 1, !.seq = NextSequenceID, !.base = base]
        /\ offset' = offset /\ dpc' \notin {"pop", "marshal"}
    BY <1>5, Zenon DEF Seal
  <2> HIDE DEF base
  <2> QED
    BY <1>0, <2>1, Zenon DEF n, AnyFrame
<1>6. CASE Push \/ PushDropped \/ EvictOldest
  BY <1>6, ProducersKeep, Zenon DEF ProducerStep, NotProducer, frameVars, n
<1>7. ASSUME NEW f \in 1..MaxPush, FlightStep(f) PROVE UNCHANGED <<offset, n, dpc>>
  BY <1>7, ZenonT(30) DEF FlightStep, SinkWrite, CopyingFlush, SinkFail, Send, Clear, OutsideSink, frameVars, n
<1>8. CASE Flush
  BY <1>8, Zenon DEF Flush, frameVars, n
<1>9. CASE UNCHANGED frameVars /\ (dpc' = dpc \/ dpc' \notin {"pop", "marshal"})
  BY <1>9, Zenon DEF frameVars, n
<1> QED
  BY <1>1, <1>2, <1>3, <1>4, <1>5, <1>6, <1>7, <1>8, <1>9, OrderSteps, ZenonT(30)

LEMMA SizeInvStep ==
  ASSUME FlushInv, SizeInv, [Next]_vars
  PROVE  SizeInv'
<1>0. /\ n \in Nat /\ offset \in Int /\ HeaderSize \in Nat /\ MaxBatchSize \in Nat /\ MaxItemSize \in Nat
      /\ MaxCount \in Nat \ {0} /\ HeaderSize <= MaxBatchSize /\ MarshalResults \subseteq Int
  <2>1. byteBuffer.items \in Seq(Items)
    BY Zenon DEF FlushInv, FlushTypes, AnyFrame
  <2> QED
    BY <2>1, EngineAssumption DEF SizeInv, n, ValidConfig
<1>1. CASE /\ UNCHANGED <<offset, n>>
           /\ \/ dpc' = dpc
              \/ PopClaim /\ dpc = "pop" /\ dpc' = "marshal" /\ RoomForItem
              \/ dpc' \notin {"pop", "marshal"}
  BY <1>0, <1>1, Zenon DEF SizeInv, RoomForItem
<1>2. CASE BeginDrain /\ dpc = "idle" /\ dpc' = "pop" /\ offset' = HeaderSize /\ n' = 0
  BY <1>0, <1>2, SMTT(30) DEF SizeInv
<1>3. CASE /\ dpc = "marshal" /\ dpc' = "pop" /\ n' = n + 1
           /\ \E w \in MarshalResults : Marshal(w) /\ Fits(w) /\ offset' = offset + w
  <2>1. PICK w \in MarshalResults : Fits(w) /\ offset' = offset + w
    BY <1>3, Zenon
  <2>2. w \in Int /\ w > 0 /\ w <= MaxBatchSize - offset
    BY <1>0, <2>1, Zenon DEF Fits
  <2> QED
    BY <1>0, <1>3, <2>1, <2>2, SMTT(30) DEF SizeInv
<1> QED
  BY <1>1, <1>2, <1>3, SizeSteps, Zenon

\* One frame holds whatever the ring holds: the 16-bit count and the buffer suffice for
\* QueueSize items, and Marshal keeps to MaxItemSize.
WholeQueueFits ==
  /\ Capacity <= MaxCount /\ HeaderSize + Capacity * MaxItemSize <= MaxBatchSize
  /\ \A w \in MarshalResults : w <= MaxItemSize

Final    == mpc \in {"final", "finalWait", "exited"}
Draining == dpc \in {"pop", "marshal"}

\* The final drain starts when the producers have halted, has room for what the ring
\* holds and leaves nothing there unless Marshal makes it stop early.
FinalInv ==
  /\ Final => ctx = "cancelled"
  /\ ctx = "cancelled" => pending = {} /\ blocked = 0
  /\ Draining => offset <= HeaderSize + n * MaxItemSize
  /\ Final /\ Draining => n + Claimed + Len(queue) <= Capacity
  /\ Final /\ ~Draining /\ truncated = 0 => queue = << >>

LEMMA ProductGrows ==
  ASSUME NEW a \in Nat, NEW b \in Nat, NEW c \in Nat, a < b
  PROVE  a * c \in Nat /\ b * c \in Nat /\ (a + 1) * c = a * c + c /\ a * c + c <= b * c
<1>1. a * c \in Nat /\ b * c \in Nat /\ (a + 1) * c = a * c + c
  OBVIOUS
<1>2. (b - (a + 1)) \in Nat
  OBVIOUS
<1>3. (b - (a + 1)) * c \in Nat
  BY <1>2
<1>4. b * c = (a + 1) * c + (b - (a + 1)) * c
  OBVIOUS
<1> QED
  BY <1>1, <1>3, <1>4

LEMMA FinalInvStep ==
  ASSUME ProducersHalt, WholeQueueFits, FlushInv, RingLedger, FrameLedger, SizeInv, FinalInv, [Next]_vars
  PROVE  FinalInv'
<1>0. /\ n \in Nat /\ offset \in Nat /\ HeaderSize \in Nat /\ MaxBatchSize \in Nat /\ MaxItemSize \in Nat
      /\ Capacity \in Nat /\ MaxCount \in Nat /\ Len(queue) \in Nat /\ queue \in Seq(Items) /\ truncated \in Nat
      /\ HeaderSize + Capacity * MaxItemSize <= MaxBatchSize /\ Capacity <= MaxCount
  <2>1. byteBuffer.items \in Seq(Items) /\ queue \in Seq(Items)
    BY Zenon DEF FlushInv, FlushTypes, AnyFrame
  <2>2. truncated \in Nat
    BY Zenon DEF FrameLedger, CounterTypes
  <2>3. offset \in Nat
    BY EngineAssumption DEF SizeInv
  <2> QED
    BY <2>1, <2>2, <2>3, EngineAssumption, SMTT(30) DEF n, WholeQueueFits
<1>1. CASE UNCHANGED <<dpc, offset, n, mpc, ctx, pending, blocked, queue, truncated>>
  BY <1>1, Zenon DEF FinalInv, Final, Draining, Claimed
<1>2. CASE ProducerStep
  <2>1. UNCHANGED <<dpc, offset, n, mpc, ctx, truncated>>
    BY <1>2, ProducersKeep, Zenon DEF NotProducer, loopVars, frameVars, n
  <2>2. CASE Push \/ PushFull
    <3>1. ctx # "cancelled"
      BY <2>2, PushStep, Zenon DEF PushFull, Producing
    <3> QED
      BY <2>1, <3>1, Zenon DEF FinalInv, Final, Draining
  <2>3. CASE PushDropped \/ EvictOldest \/ EvictNothing
    <3>1. blocked > 0
      BY <2>3, DropStep, EvictStep, Zenon DEF EvictNothing
    <3>2. ctx # "cancelled"
      BY <3>1 DEF FinalInv
    <3> QED
      BY <2>1, <3>2, SMTT(30) DEF FinalInv, Final, Draining
  <2>4. CASE Publish \/ EvictRecycle \/ EvictCount
    <3>1. pending' \subseteq pending /\ queue' = queue
      BY <2>4, QuietStep, Zenon
    <3>2. blocked' = blocked
      BY <2>4, Zenon DEF Publish, EvictRecycle, EvictCount
    <3> QED
      BY <2>1, <3>1, <3>2, Zenon DEF FinalInv, Final, Draining, Claimed
  <2> QED
    BY <1>2, <2>2, <2>3, <2>4, Zenon DEF ProducerStep
<1>3. CASE Start \/ Cancel \/ ShutdownDeadline \/ FinalReturn
  <2>1. UNCHANGED <<dpc, offset, n, pending, blocked, queue, truncated>>
    BY <1>3, Zenon DEF Start, Cancel, ShutdownDeadline, FinalReturn, ringVars, frameVars, n
  <2>2. /\ Final' => Final
        /\ ctx' = ctx \/ (ctx' = "cancelled" /\ pending = {} /\ blocked = 0)
    BY <1>3, Zenon DEF Start, Cancel, ShutdownDeadline, FinalReturn, Final
  <2> QED
    BY <2>1, <2>2, Zenon DEF FinalInv, Draining, Claimed
<1>4. CASE Tick \/ CtxDone
  <2>1. BeginDrain /\ dpc = "idle"
    BY <1>4, Zenon DEF Tick, CtxDone, FlushInv, DrainInv
  <2>2. dpc' = "pop" /\ offset' = HeaderSize /\ UNCHANGED <<queue, pending, blocked, ctx, truncated>>
    BY <2>1, Zenon DEF BeginDrain, ringVars
  <2>3. n' = 0
    <3>1. byteBuffer \in AnyFrame /\ byteBuffer' = [byteBuffer EXCEPT !.items = << >>]
      BY <2>1, Zenon DEF BeginDrain, FlushInv, FlushTypes
    <3> QED
      BY <3>1, Zenon DEF n, AnyFrame
  <2>4. Final' => ctx = "cancelled"
    BY <1>4, Zenon DEF Tick, CtxDone, Final
  <2>5. Len(queue) <= Capacity /\ Claimed' = 0 /\ Draining'
    <3>1. held \in Nat /\ Len(queue) + held <= Capacity
      BY Zenon DEF RingLedger
    <3> QED
      BY <1>0, <2>2, <3>1 DEF Claimed, Draining
  <2>6. HeaderSize + n' * MaxItemSize = HeaderSize
    BY <1>0, <2>3
  <2> QED
    BY <1>0, <2>2, <2>3, <2>4, <2>5, <2>6, SMTT(30) DEF FinalInv
<1>5. CASE PopClaim
  <2>1. /\ dpc = "pop" /\ dpc' = "marshal" /\ queue # << >> /\ queue' = Tail(queue)
        /\ UNCHANGED <<offset, n, mpc, ctx, pending, blocked, truncated>>
    BY <1>5, TakeStep, Zenon DEF loopVars, frameVars, n
  <2>2. Len(queue') = Len(queue) - 1
    BY <1>0, <2>1
  <2>3. Claimed = 0 /\ Claimed' = 1 /\ Draining /\ Draining' /\ Final' = Final
    BY <2>1, Zenon DEF Claimed, Draining, Final
  <2> QED
    BY <1>0, <2>1, <2>2, <2>3, SMTT(30) DEF FinalInv
<1>6. ASSUME NEW w \in MarshalResults, Marshal(w) PROVE FinalInv'
  <2>1. dpc = "marshal" /\ UNCHANGED <<queue, mpc, ctx, pending, blocked>> /\ Claimed = 1 /\ Draining
    BY <1>6, ReleaseStep, Zenon DEF Marshal, loopVars, Claimed, Draining
  <2>2. CASE Fits(w)
    <3>1. dpc' = "pop" /\ n' = n + 1 /\ offset' = offset + w /\ truncated' = truncated
      <4> DEFINE x == received[Drainer][Len(received[Drainer])]
      <4>1. /\ dpc' = "pop" /\ offset' = offset + w /\ truncated' = truncated
            /\ byteBuffer' = [byteBuffer EXCEPT !.items = Append(@, x)]
        BY <1>6, <2>2, Zenon DEF Marshal
      <4>2. x \in Items
        BY <2>1 DEF FlushInv, FlushTypes
      <4> HIDE DEF x
      <4>3. byteBuffer \in AnyFrame /\ byteBuffer.items \in Seq(Items)
        BY Zenon DEF FlushInv, FlushTypes, AnyFrame
      <4>4. byteBuffer'.items = Append(byteBuffer.items, x)
        BY <4>1, <4>3, Zenon DEF AnyFrame
      <4> QED
        BY <4>1, <4>2, <4>3, <4>4, SMTT(30) DEF n
    <3>2. w \in Int /\ w <= MaxItemSize
      BY EngineAssumption, Zenon DEF WholeQueueFits
    <3>3. offset' <= HeaderSize + n' * MaxItemSize
      <4>1. offset <= HeaderSize + n * MaxItemSize
        BY <2>1, Zenon DEF FinalInv
      <4>2. n * MaxItemSize \in Nat /\ (n + 1) * MaxItemSize = n * MaxItemSize + MaxItemSize
        BY <1>0, ProductGrows
      <4> QED
        BY <1>0, <3>1, <3>2, <4>1, <4>2, SMTT(30)
    <3>4. Draining' /\ Claimed' = 0 /\ Final' = Final
      BY <2>1, <3>1, Zenon DEF Draining, Claimed, Final
    <3> QED
      BY <1>0, <2>1, <3>1, <3>3, <3>4, SMTT(30) DEF FinalInv
  <2>3. CASE ~Fits(w)
    <3>1. dpc' = "seal" /\ truncated' = truncated + 1
      BY <1>6, <2>3, Zenon DEF Marshal
    <3>2. ~Draining' /\ truncated' # 0 /\ Final' = Final
      BY <1>0, <2>1, <3>1, SMTT(30) DEF Draining, Final
    <3> QED
      BY <2>1, <3>2, Zenon DEF FinalInv
  <2> QED
    BY <2>2, <2>3, Zenon
<1>7. CASE StopDrain
  <2>1. /\ dpc = "pop" /\ dpc' = "seal" /\ ~(RoomForItem /\ Ring!HeadReady)
        /\ UNCHANGED <<queue, offset, n, mpc, ctx, pending, blocked, truncated>>
    BY <1>7, Zenon DEF StopDrain, ringVars, loopVars, frameVars, n
  <2>2. Draining /\ ~Draining' /\ Claimed = 0 /\ Final' = Final
    BY <2>1, Zenon DEF Draining, Claimed, Final
  <2>3. ASSUME Final, queue # << >> PROVE FALSE
    <3>1. pending = {} /\ offset <= HeaderSize + n * MaxItemSize /\ n + Len(queue) <= Capacity
      BY <1>0, <2>2, <2>3, SMTT(30) DEF FinalInv
    <3>2. n < Capacity
      BY <1>0, <2>3, <3>1
    <3>3. /\ n * MaxItemSize \in Nat /\ Capacity * MaxItemSize \in Nat
          /\ n * MaxItemSize + MaxItemSize <= Capacity * MaxItemSize
      BY <1>0, <3>2, ProductGrows, Zenon
    <3>4. RoomForItem
      BY <1>0, <3>1, <3>2, <3>3, SMTT(30) DEF RoomForItem
    <3>5. Ring!HeadReady
      BY <2>3, <3>1, Zenon DEF Ring!HeadReady
    <3> QED
      BY <2>1, <3>4, <3>5, Zenon
  <2> QED
    BY <2>1, <2>2, <2>3, Zenon DEF FinalInv
<1>8. CASE DrainEmpty \/ Seal \/ Compress \/ CompressFails \/ Flush \/ FlushBusy \/ AwaitResult \/ AwaitTimeout
  <2>1. /\ dpc \notin {"pop", "marshal"} /\ dpc' \notin {"pop", "marshal"}
        /\ UNCHANGED <<queue, ctx, pending, blocked, truncated>>
    BY <1>8, ZenonT(30) DEF DrainEmpty, Seal, Compress, CompressFails, Flush, FlushBusy, AwaitResult, AwaitTimeout,
                EndDrain, ringVars, loopVars, frameVars
  <2>2. UNCHANGED loopVars \/ EndDrain
    BY <1>8, Zenon DEF DrainEmpty, Seal, Compress, CompressFails, Flush, FlushBusy, AwaitResult, AwaitTimeout
  <2>3. Final' => Final
    BY <2>2, Zenon DEF EndDrain, loopVars, Final
  <2> QED
    BY <2>1, <2>3, Zenon DEF FinalInv, Draining
<1>9. CASE Transmit \/ StatsLoad \/ UNCHANGED vars
  <2>1. UNCHANGED <<dpc, offset, n, mpc, ctx, pending, blocked, queue, truncated>>
    BY <1>9, Zenon DEF Transmit, OutsideSink, StatsLoad, ringVars, loopVars, frameVars, vars, n
  <2> QED
    BY <1>1, <2>1, Zenon
<1>10. ASSUME NEW f \in 1..MaxPush, FlightStep(f) PROVE FinalInv'
  <2>1. UNCHANGED <<dpc, offset, n, mpc, ctx, pending, blocked, queue, truncated>>
    BY <1>10, ZenonT(30) DEF FlightStep, SinkWrite, CopyingFlush, SinkFail, Send, Clear, OutsideSink, ringVars,
                 loopVars, frameVars, n
  <2> QED
    BY <1>1, <2>1, Zenon
<1> QED
  BY <1>2, <1>3, <1>4, <1>5, <1>6, <1>7, <1>8, <1>9, <1>10, Zenon DEF Next, LoopStep, DrainStep

\* batcher.go, finalDrain: when the producers halt before the cancel, as Start asks, and a
\* frame can hold what the ring holds, a loop that ends before the shutdown deadline with
\* no error and nothing truncated has flushed every item the ring accepted and kept.
THEOREM ShutdownFlushesAll ==
  ASSUME ProducersHalt, WholeQueueFits, HasSink
  PROVE  Spec => []NoneAbandoned
<1>1. Init => SizeInv /\ FinalInv
  <2> SUFFICES ASSUME Init PROVE SizeInv /\ FinalInv
    BY Zenon
  <2>1. /\ offset = HeaderSize /\ n = 0 /\ dpc = "idle" /\ mpc = "off" /\ ctx = "live"
    BY Zenon DEF Init, n, NoFrame
  <2> QED
    BY <2>1, EngineAssumption DEF SizeInv, FinalInv, Final, Draining, ValidConfig
<1>2. FlushInv /\ SizeInv /\ [Next]_vars => SizeInv'
  BY SizeInvStep, Zenon
<1>3. FlushInv /\ LedgerInv /\ SizeInv /\ FinalInv /\ [Next]_vars => FinalInv'
  BY FinalInvStep, Zenon DEF LedgerInv
<1>4. FlushInv /\ OrderInv /\ LedgerInv /\ FinalInv => NoneAbandoned
  <2> SUFFICES ASSUME FlushInv, OrderInv, LedgerInv, FinalInv, mpc = "exited", ~shutdownDue,
                      flushErrs + compressReports + truncated = 0
               PROVE  flushedItems = pushes - dropped - Cardinality(lost)
    BY Zenon DEF NoneAbandoned
  <2>1. dpc = "idle"
    BY Zenon DEF FlushInv, DrainInv
  <2>2. /\ flushErrs \in Nat /\ compressReports \in Nat /\ truncated \in Nat /\ flushedItems \in Nat
        /\ pushes \in Nat /\ dropped \in Nat /\ Cardinality(lost) \in Nat /\ Taken \in Nat
    <3>1. Taken \in Nat /\ pushes \in Nat
      BY DEF FlushInv, FlushTypes, Taken
    <3> QED
      BY <3>1, LostFinite, Zenon DEF LedgerInv, FrameLedger, CounterTypes, RingLedger, OrderInv
  <2>3. flushErrs + compressReports = 0 /\ truncated = 0
    BY <2>2
  <2>4. queue = << >>
    BY <2>1, <2>3, Zenon DEF FinalInv, Final, Draining
  <2>5. InFrame = 0 /\ Claimed = 0 /\ Len(queue) = 0
    BY <2>1, <2>4, Zenon DEF InFrame, Claimed
  <2>6. flushedItems + truncated + InFrame + Claimed = Taken
    BY <2>3, Zenon DEF LedgerInv, FrameLedger
  <2>7. pushes = dropped + (Cardinality(lost) + Taken) + Len(queue)
    BY Zenon DEF LedgerInv, RingLedger, Gone, Taken
  <2> QED
    BY <2>2, <2>3, <2>5, <2>6, <2>7, SMTT(30)
<1> QED
  BY <1>1, <1>2, <1>3, <1>4, LedgerInvariant, PTL DEF Spec

=============================================================================
