----------------------------- MODULE EngineOrder -----------------------------
(***************************************************************************)
(* The order of items through batcher.go: out of the ring, into frames,    *)
(* into calls of Sink.Flush and out of the sink, for every value of the    *)
(* constants.                                                              *)
(***************************************************************************)
EXTENDS EngineProofs

-----------------------------------------------------------------------------
(* Sequences                                                               *)

\* Append is concatenation with one element.
LEMMA AppendAsConcat ==
  ASSUME NEW S, NEW s \in Seq(S), NEW x \in S
  PROVE  Append(s, x) = s \o << x >>
OBVIOUS

\* Concatenation with the empty sequence.
LEMMA ConcatNothing ==
  ASSUME NEW S, NEW s \in Seq(S)
  PROVE  s \o << >> = s /\ << >> \o s = s
OBVIOUS

\* Concatenation is associative.
LEMMA ConcatRegroup ==
  ASSUME NEW S, NEW s \in Seq(S), NEW t \in Seq(S), NEW u \in Seq(S)
  PROVE  (s \o t) \o u = s \o (t \o u)
OBVIOUS

-----------------------------------------------------------------------------
(* Order                                                                   *)

\* The last item popped, and the largest that a finished Marshal may have put in a frame.
Top == IF Len(received[Drainer]) = 0 THEN 0 ELSE received[Drainer][Len(received[Drainer])]
Bound == IF dpc = "marshal" THEN Top - 1 ELSE Top

Increasing(s) == \A i, j \in DOMAIN s : i < j => s[i] < s[j]
Before(s, t) == \A i \in DOMAIN s, j \in DOMAIN t : s[i] < t[j]
UpTo(s, x) == \A i \in DOMAIN s : s[i] <= x

Sealed   == dpc \in {"compress", "flush"}
Building == dpc \in {"pop", "marshal", "seal"} \/ Sealed

\* Items leave the ring in the order they were pushed, and none returns.
QueueInv ==
  /\ Top \in 0..pushes /\ (dpc = "marshal" => Top > 0)
  /\ Increasing(queue) /\ \A i \in DOMAIN queue : Top < queue[i] /\ queue[i] <= pushes
  /\ lost \subseteq 1..pushes /\ \A x \in lost, i \in DOMAIN queue : x < queue[i]

FrameInv ==
  /\ Increasing(byteBuffer.items) /\ UpTo(byteBuffer.items, Bound)
  /\ Sealed \/ dpc = "await" => byteBuffer.number = sealed

\* Frames that were given to the sink are older than the one under construction.
Older(f) ==
  /\ Increasing(flights[f].frame.items) /\ UpTo(flights[f].frame.items, Bound)
  /\ flights[f].frame.number <= sealed
  /\ Sealed => flights[f].frame.number < sealed
  /\ Building => Before(flights[f].frame.items, byteBuffer.items)

Precedes(f, g) ==
  /\ flights[f].frame.number < flights[g].frame.number
  /\ Before(flights[f].frame.items, flights[g].frame.items)

CallInv ==
  /\ \A f \in DOMAIN flights : Older(f)
  /\ \A f, g \in DOMAIN flights : f < g => Precedes(f, g)
  /\ dpc = "await" => Len(flights) > 0 /\ byteBuffer = Awaited.frame

OrderInv == QueueInv /\ FrameInv /\ CallInv

\* The steps that matter to the order of items, and what the others leave alone.
LEMMA OrderSteps ==
  ASSUME FlushInv, [Next]_vars
  PROVE  \/ Push \/ PushDropped \/ EvictOldest
         \/ BeginDrain /\ dpc = "idle"
         \/ PopClaim \/ (\E w \in MarshalResults : Marshal(w)) \/ Seal \/ Flush
         \/ (\E f \in 1..MaxPush : FlightStep(f))
         \/ /\ UNCHANGED <<queue, received, lost, pushes, dropped, frameVars, flights>>
            /\ \/ dpc' = dpc \/ dpc' = "idle"
               \/ dpc = "pop" /\ dpc' = "seal"
               \/ dpc = "compress" /\ dpc' = "flush"
            /\ dpc = "marshal" => dpc' = dpc
<1>1. CASE Transmit \/ StatsLoad \/ UNCHANGED vars
  BY <1>1, Zenon DEF Transmit, OutsideSink, StatsLoad, ringVars, flightVars, vars
<1>5. CASE PushFull \/ Publish \/ EvictNothing \/ EvictRecycle \/ EvictCount
  BY <1>5, QuietStep, Zenon DEF NotProducer, flightVars
<1>2. CASE Start \/ Cancel \/ ShutdownDeadline \/ FinalReturn
  BY <1>2, Zenon DEF Start, Cancel, ShutdownDeadline, FinalReturn, ringVars, flightVars
<1>3. CASE Tick \/ CtxDone
  BY <1>3, Zenon DEF Tick, CtxDone, FlushInv, DrainInv
<1>4. CASE StopDrain \/ DrainEmpty \/ Compress \/ CompressFails \/ FlushBusy \/ AwaitResult
           \/ AwaitTimeout
  BY <1>4, Zenon DEF StopDrain, DrainEmpty, Compress, CompressFails, FlushBusy, AwaitResult, AwaitTimeout,
              EndDrain, ringVars, flightVars
<1> QED
  BY <1>1, <1>2, <1>3, <1>4, <1>5, Zenon DEF Next, ProducerStep, LoopStep, DrainStep

\* PopClaim in terms of the last item popped.
LEMMA PopTop ==
  ASSUME FlushInv, PopClaim
  PROVE  /\ Top' = Head(queue) /\ Top' = queue[1] /\ 1 \in DOMAIN queue /\ queue' = Tail(queue)
         /\ Len(received'[Drainer]) = Len(received[Drainer]) + 1
         /\ lost' = lost /\ dpc = "pop" /\ dpc' = "marshal"
<1>1. /\ queue # << >> /\ queue' = Tail(queue) /\ lost' = lost /\ dpc = "pop" /\ dpc' = "marshal"
      /\ received' = [received EXCEPT ![Drainer] = Append(@, Head(queue))]
  BY TakeStep, Zenon
<1>2. queue \in Seq(Items) /\ received[Drainer] \in Seq(Items) /\ received \in [{Drainer} -> Seq(Items)]
  BY Zenon DEF FlushInv, FlushTypes
<1>3. 1 \in DOMAIN queue /\ Head(queue) = queue[1] /\ Head(queue) \in Items
  BY <1>1, <1>2
<1>4. received'[Drainer] = Append(received[Drainer], Head(queue))
  BY <1>1, <1>2, Zenon
<1>5. /\ Len(received'[Drainer]) = Len(received[Drainer]) + 1
      /\ received'[Drainer][Len(received[Drainer]) + 1] = Head(queue)
      /\ Len(received[Drainer]) \in Nat
  BY <1>2, <1>3, <1>4
<1> QED
  BY <1>1, <1>3, <1>5 DEF Top

LEMMA QueueInvStep ==
  ASSUME FlushInv, QueueInv, [Next]_vars
  PROVE  QueueInv'
<1>1. queue \in Seq(Items) /\ pushes \in Nat /\ DOMAIN queue = 1..Len(queue) /\ Len(queue) \in Nat
  BY DEF FlushInv, FlushTypes
<1>2. \A i \in DOMAIN queue : queue[i] \in Nat
  BY <1>1, EngineAssumption DEF Items
<1>3. CASE Push
  <2>1. /\ queue' = Append(queue, pushes + 1) /\ pushes' = pushes + 1 /\ UNCHANGED <<received, lost, dpc>>
    BY <1>3, PushStep, Zenon DEF NotProducer
  <2>2. Top' = Top
    BY <2>1, Zenon DEF Top
  <2>3. pushes + 1 \in Items
    <3>1. pushes + blocked < MaxPush /\ pushes \in Nat /\ blocked \in Nat /\ MaxPush \in Nat
      BY <1>3, PushStep, EngineAssumption, Zenon DEF Producing, FlushInv, FlushTypes
    <3> QED
      BY <3>1 DEF Items
  <2>4. /\ DOMAIN queue' = 1..(Len(queue) + 1) /\ queue'[Len(queue) + 1] = pushes + 1
        /\ \A i \in DOMAIN queue : queue'[i] = queue[i]
    BY <1>1, <2>1, <2>3
  <2>5. Increasing(queue')
    BY <1>1, <1>2, <2>4 DEF QueueInv, Increasing
  <2>6. \A i \in DOMAIN queue' : (i \in DOMAIN queue /\ queue'[i] = queue[i]) \/ queue'[i] = pushes + 1
    BY <1>1, <2>4
  <2> HIDE DEF Top
  <2>7. \A i \in DOMAIN queue' : Top < queue'[i] /\ queue'[i] <= pushes'
    BY <1>1, <1>2, <2>1, <2>6 DEF QueueInv
  <2>8. lost' \subseteq 1..pushes' /\ \A x \in lost', i \in DOMAIN queue' : x < queue'[i]
    BY <1>1, <1>2, <2>1, <2>6 DEF QueueInv
  <2> QED
    BY <1>1, <2>1, <2>2, <2>5, <2>7, <2>8 DEF QueueInv, Increasing
<1>4. CASE PushDropped
  <2>1. UNCHANGED <<queue, received, lost, dpc, Top>> /\ pushes' = pushes + 1
    BY <1>4, DropStep, Zenon DEF NotProducer, Top
  <2> QED
    BY <1>1, <1>2, <2>1 DEF QueueInv, Increasing, FlushInv, FlushTypes
<1>5. ASSUME queue # << >>, queue' = Tail(queue), pushes' = pushes,
             Top' \in {Top, queue[1]}, lost' \subseteq lost \cup {queue[1]},
             dpc' = "marshal" => Top' > 0
      PROVE  QueueInv'
  <2>1. /\ Len(queue') = Len(queue) - 1 /\ DOMAIN queue' = 1..(Len(queue) - 1) /\ 1 \in DOMAIN queue
        /\ \A i \in DOMAIN queue' : queue'[i] = queue[i + 1] /\ i + 1 \in DOMAIN queue /\ 1 < i + 1
    BY <1>1, <1>5
  <2>2. Increasing(queue')
    BY <1>1, <2>1 DEF QueueInv, Increasing
  <2>3. \A i \in DOMAIN queue' : queue[1] < queue'[i] /\ Top < queue'[i] /\ queue'[i] <= pushes
    BY <2>1, Zenon DEF QueueInv, Increasing
  <2>4. queue[1] \in 1..pushes
    BY <1>1, <1>2, <2>1 DEF QueueInv
  <2>5. Top' \in 0..pushes
    BY <1>1, <1>5, <2>4 DEF QueueInv
  <2>6. lost' \subseteq 1..pushes /\ \A x \in lost', i \in DOMAIN queue' : x < queue'[i]
    BY <1>1, <1>2, <1>5, <2>1, <2>3, <2>4, Zenon DEF QueueInv
  <2> QED
    BY <1>5, <2>2, <2>3, <2>5, <2>6, Zenon DEF QueueInv, Increasing
<1>6. CASE EvictOldest
  <2>1. /\ queue # << >> /\ queue' = Tail(queue) /\ pushes' = pushes /\ lost' = lost \cup {Head(queue)}
        /\ received' = received /\ dpc' = dpc
    BY <1>6, EvictStep, Zenon DEF NotProducer
  <2>2. Head(queue) = queue[1] /\ Top' = Top
    BY <1>1, <2>1 DEF Top
  <2> QED
    BY <1>5, <2>1, <2>2, Zenon DEF QueueInv
<1>7. CASE PopClaim
  <2>1. pushes' = pushes /\ queue # << >>
    BY <1>7, TakeStep, Zenon
  <2>2. queue[1] > 0
    BY <1>1, <1>7, PopTop, EngineAssumption DEF Items
  <2> QED
    BY <1>5, <1>7, <2>1, <2>2, PopTop, Zenon
<1>8. ASSUME UNCHANGED <<queue, received, lost, pushes>>, dpc' = "marshal" => dpc = "marshal" PROVE QueueInv'
  <2>1. Top' = Top
    BY <1>8, Zenon DEF Top
  <2> QED
    BY <1>8, <2>1, Zenon DEF QueueInv, Increasing
<1>9. CASE BeginDrain \/ Seal \/ Flush \/ \E w \in MarshalResults : Marshal(w)
  <2>1. ASSUME NEW w \in MarshalResults, Marshal(w) PROVE QueueInv'
    BY <1>8, <2>1, ReleaseStep, Zenon DEF Marshal
  <2> QED
    BY <1>8, <1>9, <2>1, Zenon DEF BeginDrain, Seal, Flush, ringVars
<1>10. ASSUME NEW f \in 1..MaxPush, FlightStep(f) PROVE QueueInv'
  <2>1. UNCHANGED <<ringVars, dpc>>
    BY <1>10, Zenon DEF FlightStep, SinkWrite, CopyingFlush, SinkFail, Send, Clear, OutsideSink
  <2> QED
    BY <1>8, <2>1, Zenon DEF ringVars
<1> QED
  BY <1>3, <1>4, <1>6, <1>7, <1>8, <1>9, <1>10, OrderSteps, Zenon

\* The largest item a frame may hold only grows.
LEMMA BoundGrows ==
  ASSUME FlushInv, QueueInv, [Next]_vars
  PROVE  Bound \in Nat /\ Bound' \in Nat /\ Bound <= Bound'
<1>1. pushes \in Nat /\ Top \in Nat /\ (dpc = "marshal" => Top > 0)
  BY DEF FlushInv, FlushTypes, QueueInv
<1>2. Bound \in Nat
  BY <1>1 DEF Bound
<1>3. CASE PopClaim
  <2>1. Top' = queue[1] /\ queue[1] \in Nat /\ Top < queue[1] /\ dpc = "pop" /\ dpc' = "marshal"
    <3>1. queue \in Seq(Items)
      BY Zenon DEF FlushInv, FlushTypes
    <3> QED
      BY <1>3, <3>1, PopTop, EngineAssumption, SMTT(30) DEF QueueInv, Items
  <2> QED
    BY <1>1, <2>1 DEF Bound
<1>4. ASSUME received' = received, dpc' = "marshal" => dpc = "marshal"
      PROVE  Bound' \in Nat /\ Bound <= Bound'
  <2>1. Top' = Top
    BY <1>4, Zenon DEF Top
  <2> QED
    BY <1>1, <1>4, <2>1 DEF Bound
<1>5. CASE Push \/ PushDropped \/ EvictOldest
  BY <1>2, <1>4, <1>5, ProducersKeep, Zenon DEF ProducerStep, NotProducer
<1>6. CASE BeginDrain \/ Seal \/ Flush \/ \E w \in MarshalResults : Marshal(w)
  <2>1. ASSUME NEW w \in MarshalResults, Marshal(w) PROVE Bound' \in Nat /\ Bound <= Bound'
    BY <1>4, <2>1, ReleaseStep, Zenon DEF Marshal
  <2> QED
    BY <1>2, <1>4, <1>6, <2>1, Zenon DEF BeginDrain, Seal, Flush, ringVars
<1>7. ASSUME NEW f \in 1..MaxPush, FlightStep(f) PROVE Bound' \in Nat /\ Bound <= Bound'
  <2>1. UNCHANGED <<ringVars, dpc>>
    BY <1>7, Zenon DEF FlightStep, SinkWrite, CopyingFlush, SinkFail, Send, Clear, OutsideSink
  <2> QED
    BY <1>4, <2>1, Zenon DEF ringVars
<1> QED
  BY <1>2, <1>3, <1>4, <1>5, <1>6, <1>7, OrderSteps, Zenon

\* What happens to the frame under construction: its items are those of before, or
\* gone, or one is added that is larger than any frame holds.
LEMMA FrameSteps ==
  ASSUME FlushInv, QueueInv, [Next]_vars
  PROVE  \/ /\ UNCHANGED <<byteBuffer, sealed>>
            /\ Building' => Building
            /\ Sealed' => Sealed
            /\ dpc' = "await" => Sealed \/ dpc = "await"
         \/ /\ byteBuffer'.items = << >> /\ sealed' = sealed /\ ~Sealed' /\ dpc' # "await"
         \/ /\ byteBuffer'.items = Append(byteBuffer.items, Top) /\ sealed' = sealed
            /\ Building /\ ~Sealed' /\ dpc' # "await" /\ Bound < Top /\ Bound' = Top
         \/ /\ byteBuffer'.items = byteBuffer.items /\ Building /\ dpc' # "await"
            /\ sealed' = sealed + 1 /\ byteBuffer'.number = sealed + 1
<1>0. byteBuffer \in AnyFrame /\ sealed \in Nat
  BY Zenon DEF FlushInv, FlushTypes
<1>1. CASE BeginDrain
  <2>1. byteBuffer' = [byteBuffer EXCEPT !.items = << >>] /\ sealed' = sealed /\ dpc' = "pop"
    BY <1>1, Zenon DEF BeginDrain
  <2> QED
    BY <1>0, <2>1, Zenon DEF AnyFrame, Sealed
<1>2. ASSUME NEW w \in MarshalResults, Marshal(w), Fits(w)
      PROVE  /\ byteBuffer'.items = Append(byteBuffer.items, Top) /\ sealed' = sealed
             /\ Building /\ ~Sealed' /\ dpc' # "await" /\ Bound < Top /\ Bound' = Top
  <2>1. /\ byteBuffer' = [byteBuffer EXCEPT !.items = Append(@, received[Drainer][Len(received[Drainer])])]
        /\ dpc = "marshal" /\ dpc' = "pop" /\ UNCHANGED <<received, sealed>>
    <3>1. received' = received
      BY <1>2, ReleaseStep, Zenon
    <3> QED
      BY <1>2, <3>1, Zenon DEF Marshal
  <2>2. Top = received[Drainer][Len(received[Drainer])] /\ Top' = Top /\ Top \in Nat
    BY <2>1 DEF Top, FlushInv, FlushTypes, QueueInv
  <2> QED
    BY <1>0, <2>1, <2>2 DEF AnyFrame, Building, Sealed, Bound
<1>3. ASSUME NEW w \in MarshalResults, Marshal(w), ~Fits(w)
      PROVE  UNCHANGED <<byteBuffer, sealed>> /\ Building /\ ~Sealed' /\ dpc' # "await"
  BY <1>3, Zenon DEF Marshal, Building, Sealed
<1>4. CASE Seal
  <2> DEFINE base == IF DeltaEncoding /\ ~IsKeyframe THEN baseline ELSE Raw
  <2>1. /\ byteBuffer' = [byteBuffer EXCEPT !.number = sealed + 1, !.seq = NextSequenceID,
                                               !.base = base]
        /\ sealed' = sealed + 1 /\ dpc = "seal" /\ dpc' \in {"compress", "flush"}
    BY <1>4, Zenon DEF Seal
  <2> HIDE DEF base
  <2> QED
    BY <1>0, <2>1, Zenon DEF AnyFrame, Building
<1>5. ASSUME UNCHANGED <<byteBuffer, sealed>>,
             Building' => Building, Sealed' => Sealed, dpc' = "await" => Sealed \/ dpc = "await"
      PROVE  /\ UNCHANGED <<byteBuffer, sealed>>
             /\ Building' => Building
             /\ Sealed' => Sealed
             /\ dpc' = "await" => Sealed \/ dpc = "await"
  BY <1>5, Zenon
<1>6. CASE Push \/ PushDropped \/ EvictOldest \/ PopClaim \/ Flush
  BY <1>5, <1>6, ProducersKeep, Zenon DEF ProducerStep, NotProducer, PopClaim, Flush, frameVars, Building, Sealed
<1>7. ASSUME NEW f \in 1..MaxPush, FlightStep(f)
      PROVE  /\ UNCHANGED <<byteBuffer, sealed>>
             /\ Building' => Building
             /\ Sealed' => Sealed
             /\ dpc' = "await" => Sealed \/ dpc = "await"
  BY <1>7, Zenon DEF FlightStep, SinkWrite, CopyingFlush, SinkFail, Send, Clear, OutsideSink, frameVars,
              Building, Sealed
<1> QED
  BY <1>1, <1>2, <1>3, <1>4, <1>6, <1>7, OrderSteps, Zenon DEF frameVars, Building, Sealed

LEMMA FrameInvStep ==
  ASSUME FlushInv, OrderInv, [Next]_vars
  PROVE  FrameInv'
<1>0. byteBuffer \in AnyFrame /\ byteBuffer.items \in Seq(Items)
  BY Zenon DEF FlushInv, FlushTypes, AnyFrame
<1>1. Bound \in Nat /\ Bound' \in Nat /\ Bound <= Bound' /\ \A i \in DOMAIN byteBuffer.items : byteBuffer.items[i] \in Nat
  BY <1>0, BoundGrows, EngineAssumption, SMTT(30) DEF OrderInv, Items
<1>2. Increasing(byteBuffer.items) /\ UpTo(byteBuffer.items, Bound)
  BY Zenon DEF OrderInv, FrameInv
<1>3. CASE byteBuffer'.items = byteBuffer.items
  <2>1. Increasing(byteBuffer'.items) /\ UpTo(byteBuffer'.items, Bound')
    BY <1>1, <1>2, <1>3 DEF Increasing, UpTo
  <2>2. Sealed' \/ dpc' = "await" => byteBuffer'.number = sealed'
    BY FrameSteps, Zenon DEF OrderInv, FrameInv
  <2> QED
    BY <2>1, <2>2, Zenon DEF FrameInv, Increasing, UpTo
<1>4. CASE byteBuffer'.items = << >> /\ ~Sealed' /\ dpc' # "await"
  BY <1>4 DEF FrameInv, Increasing, UpTo
<1>5. CASE /\ byteBuffer'.items = Append(byteBuffer.items, Top)
           /\ ~Sealed' /\ dpc' # "await" /\ Bound < Top /\ Bound' = Top
  <2> DEFINE s == byteBuffer.items
             t == byteBuffer'.items
  <2>1. DOMAIN s = 1..Len(s) /\ Len(s) \in Nat /\ s \in Seq(Nat) /\ Top \in Nat
    BY <1>0, <1>1, <1>5
  <2>2. /\ DOMAIN t = 1..(Len(s) + 1) /\ t[Len(s) + 1] = Top
        /\ \A i \in DOMAIN s : t[i] = s[i] /\ s[i] \in Nat /\ s[i] < Top
    BY <1>1, <1>2, <1>5, <2>1, SMTT(30) DEF UpTo
  <2> HIDE DEF s, t
  <2>3. UpTo(t, Top)
    BY <2>1, <2>2 DEF UpTo
  <2>4. ASSUME NEW i \in DOMAIN t, NEW j \in DOMAIN t, i < j PROVE t[i] < t[j]
    <3>1. i \in DOMAIN s /\ (j \in DOMAIN s \/ j = Len(s) + 1)
      BY <2>1, <2>2, <2>4
    <3>2. \A k, l \in DOMAIN s : k < l => s[k] < s[l]
      BY <1>2, Zenon DEF Increasing, s
    <3> QED
      BY <2>2, <2>4, <3>1, <3>2, Zenon
  <2> QED
    BY <1>5, <2>3, <2>4, Zenon DEF FrameInv, Increasing, UpTo, t
<1> QED
  BY <1>3, <1>4, <1>5, FrameSteps, Zenon DEF OrderInv

\* What a step does to the calls of Sink.Flush.
LEMMA CallSteps ==
  ASSUME FlushInv, [Next]_vars
  PROVE  \/ /\ Flush /\ Len(flights') = Len(flights) + 1
            /\ flights'[Len(flights) + 1] = [pc |-> "call", frame |-> byteBuffer, err |-> FALSE]
            /\ \A f \in DOMAIN flights : flights'[f] = flights[f]
         \/ /\ ~Flush /\ Len(flights') = Len(flights)
            /\ \A f \in DOMAIN flights : flights'[f].frame = flights[f].frame
            /\ dpc' = "await" => UNCHANGED <<dpc, byteBuffer>>
<1>1. flights \in Seq(AnyFlight) /\ byteBuffer \in AnyFrame
  BY Zenon DEF FlushInv, FlushTypes
<1>2. CASE Flush
  <2> DEFINE flight == [pc |-> "call", frame |-> byteBuffer, err |-> FALSE]
  <2>1. flights' = Append(flights, flight) /\ flight \in AnyFlight
    BY <1>1, <1>2, Zenon DEF Flush, AnyFlight
  <2> HIDE DEF flight
  <2>2. /\ Len(flights') = Len(flights) + 1 /\ flights'[Len(flights) + 1] = flight
        /\ \A f \in DOMAIN flights : flights'[f] = flights[f]
    BY <1>1, <2>1
  <2> QED
    BY <1>2, <2>2, Zenon DEF flight
<1>3. ASSUME NEW f \in 1..MaxPush, FlightStep(f)
      PROVE  /\ Len(flights') = Len(flights)
             /\ \A g \in DOMAIN flights : flights'[g].frame = flights[g].frame
             /\ UNCHANGED <<dpc, byteBuffer>>
  <2>1. UNCHANGED <<dpc, byteBuffer>>
    BY <1>3, ZenonT(30) DEF FlightStep, SinkWrite, CopyingFlush, SinkFail, Send, Clear, OutsideSink, frameVars
  <2> QED
    BY <1>3, <2>1, FlightMoves, Zenon DEF FlushInv, Moves
<1>4. CASE ~Flush /\ (Push \/ PushDropped \/ EvictOldest \/ PopClaim)
  BY <1>4, ProducersKeep, Zenon DEF ProducerStep, NotProducer, PopClaim, frameVars, flightVars
<1>5. CASE ~Flush /\ (BeginDrain \/ Seal \/ \E w \in MarshalResults : Marshal(w))
  BY <1>5, Zenon DEF BeginDrain, Seal, Marshal, flightVars
<1> QED
  BY <1>2, <1>3, <1>4, <1>5, OrderSteps, Zenon DEF frameVars

LEMMA CallInvStep ==
  ASSUME FlushInv, FlushInv', OrderInv, [Next]_vars
  PROVE  CallInv'
<1>0. /\ flights \in Seq(AnyFlight) /\ DOMAIN flights = 1..Len(flights) /\ Len(flights) \in Nat
      /\ flights' \in Seq(AnyFlight) /\ DOMAIN flights' = 1..Len(flights')
      /\ sealed \in Nat /\ byteBuffer \in AnyFrame /\ byteBuffer' \in AnyFrame
  BY DEF FlushInv, FlushTypes
<1>1. Bound \in Nat /\ Bound' \in Nat /\ Bound <= Bound'
  BY BoundGrows, Zenon DEF OrderInv
<1>2. \A f \in DOMAIN flights :
        /\ flights[f].frame.number \in Nat
        /\ \A k \in DOMAIN flights[f].frame.items : flights[f].frame.items[k] \in Nat
  <2>1. ASSUME NEW f \in DOMAIN flights PROVE flights[f].frame.number \in Nat /\ flights[f].frame.items \in Seq(Items)
    <3>1. flights[f] \in AnyFlight
      BY <1>0
    <3> QED
      BY <3>1, Zenon DEF AnyFlight, AnyFrame
  <2> QED
    BY <2>1, EngineAssumption, SMTT(30) DEF Items
<1>3. ASSUME NEW f \in DOMAIN flights, f \in DOMAIN flights', flights'[f].frame = flights[f].frame,
             ~Flush
      PROVE  Older(f)'
  <2> DEFINE fr == flights[f].frame
  <2>1. Increasing(fr.items)' /\ UpTo(fr.items, Bound)'
    <3>1. Increasing(fr.items) /\ UpTo(fr.items, Bound)
      BY Zenon DEF OrderInv, CallInv, Older
    <3> QED
      BY <1>1, <1>2, <1>3, <3>1 DEF Increasing, UpTo
  <2>2. /\ fr.number \in Nat /\ fr.number <= sealed /\ (Sealed => fr.number < sealed)
        /\ Building => Before(fr.items, byteBuffer.items)
        /\ \A k \in DOMAIN fr.items : fr.items[k] <= Bound /\ fr.items[k] \in Nat
    BY <1>2, Zenon DEF OrderInv, CallInv, Older, UpTo
  <2> HIDE DEF fr
  <2>3. fr.number <= sealed' /\ (Sealed' => fr.number < sealed')
    BY <1>0, <2>2, FrameSteps DEF OrderInv
  <2>4. ASSUME Building' PROVE Before(fr.items, byteBuffer'.items)
    <3>1. CASE Building /\ byteBuffer'.items = byteBuffer.items
      BY <2>2, <3>1, Zenon
    <3>2. CASE byteBuffer'.items = << >>
      BY <3>2 DEF Before
    <3>3. CASE Building /\ byteBuffer'.items = Append(byteBuffer.items, Top) /\ Bound < Top /\ Bound' = Top
      <4>1. byteBuffer.items \in Seq(Items) /\ Top \in Nat
        BY <1>0, <1>1, <3>3, Zenon DEF AnyFrame
      <4>2. \A j \in DOMAIN byteBuffer'.items :
              byteBuffer'.items[j] = Top \/ (j \in DOMAIN byteBuffer.items /\ byteBuffer'.items[j] = byteBuffer.items[j])
        BY <3>3, <4>1
      <4> QED
        BY <1>1, <2>2, <3>3, <4>1, <4>2 DEF Before
    <3> QED
      BY <2>4, <3>1, <3>2, <3>3, FrameSteps, Zenon DEF OrderInv
  <2> QED
    BY <1>3, <2>1, <2>3, <2>4, Zenon DEF Older, Before, Increasing, UpTo, fr
<1>4. CASE /\ ~Flush /\ Len(flights') = Len(flights)
           /\ \A f \in DOMAIN flights : flights'[f].frame = flights[f].frame
           /\ dpc' = "await" => UNCHANGED <<dpc, byteBuffer>>
  <2>1. \A f \in DOMAIN flights' : Older(f)'
    BY <1>0, <1>3, <1>4, Zenon
  <2>2. \A f, g \in DOMAIN flights' : f < g => Precedes(f, g)'
    BY <1>0, <1>4 DEF OrderInv, CallInv, Precedes, Before
  <2>3. dpc' = "await" => Len(flights') > 0 /\ byteBuffer' = Awaited.frame'
    BY <1>0, <1>4 DEF OrderInv, CallInv, Awaited
  <2> QED
    BY <2>1, <2>2, <2>3, Zenon DEF CallInv
<1>5. CASE /\ Flush /\ Len(flights') = Len(flights) + 1
           /\ flights'[Len(flights) + 1] = [pc |-> "call", frame |-> byteBuffer, err |-> FALSE]
           /\ \A f \in DOMAIN flights : flights'[f] = flights[f]
  <2>0. PICK g \in Nat : g = Len(flights) + 1
    BY <1>0
  <2>1. /\ dpc = "flush" /\ dpc' = "await" /\ UNCHANGED <<byteBuffer, sealed, received>>
        /\ Sealed /\ Building /\ ~Sealed' /\ ~Building'
    BY <1>5, Zenon DEF Flush, frameVars, ringVars, Sealed, Building
  <2>2. flights'[g].frame = byteBuffer /\ DOMAIN flights' = DOMAIN flights \cup {g} /\ g \notin DOMAIN flights
    BY <1>0, <1>5, <2>0
  <2>3. /\ Increasing(byteBuffer.items) /\ UpTo(byteBuffer.items, Bound) /\ byteBuffer.number = sealed
        /\ \A k \in DOMAIN byteBuffer.items : byteBuffer.items[k] \in Nat
    BY <1>0, <2>1, EngineAssumption, SMTT(30) DEF OrderInv, FrameInv, AnyFrame, Items
  <2>4. Older(g)'
    BY <1>0, <1>1, <2>1, <2>2, <2>3 DEF Older, Increasing, UpTo
  <2>5. ASSUME NEW f \in DOMAIN flights PROVE Older(f)' /\ Precedes(f, g)'
    <3>1. /\ Increasing(flights[f].frame.items) /\ UpTo(flights[f].frame.items, Bound)
          /\ flights[f].frame.number < sealed /\ Before(flights[f].frame.items, byteBuffer.items)
      BY <2>1, Zenon DEF OrderInv, CallInv, Older
    <3>2. flights'[f].frame = flights[f].frame
      BY <1>5, Zenon
    <3>3. UpTo(flights[f].frame.items, Bound')
      BY <1>1, <1>2, <3>1 DEF UpTo
    <3>4. Older(f)'
      <4>1. flights[f].frame.number <= sealed
        BY <2>1, Zenon DEF OrderInv, CallInv, Older
      <4> QED
        BY <2>1, <3>1, <3>2, <3>3, <4>1, Zenon DEF Older, Increasing, UpTo
    <3> QED
      BY <2>2, <2>3, <3>1, <3>2, <3>4, Zenon DEF Precedes, Before
  <2>6. \A f, h \in DOMAIN flights' : f < h => Precedes(f, h)'
    <3>1. ASSUME NEW f \in DOMAIN flights', NEW h \in DOMAIN flights', f < h PROVE Precedes(f, h)'
      <4>1. f \in DOMAIN flights
        BY <1>0, <1>5, <3>1
      <4>2. CASE h = g
        BY <2>5, <4>1, <4>2, Zenon
      <4>3. CASE h \in DOMAIN flights
        <5>1. Precedes(f, h)
          BY <3>1, <4>1, <4>3, Zenon DEF OrderInv, CallInv
        <5> QED
          BY <1>5, <4>1, <4>3, <5>1, Zenon DEF Precedes, Before
      <4> QED
        BY <2>2, <4>2, <4>3, Zenon
    <3> QED
      BY <3>1, Zenon
  <2>7. Len(flights') > 0 /\ byteBuffer' = Awaited.frame'
    BY <1>0, <1>5, <2>0, <2>1, <2>2 DEF Awaited
  <2> QED
    BY <2>2, <2>4, <2>5, <2>6, <2>7, Zenon DEF CallInv
<1> QED
  BY <1>4, <1>5, CallSteps, Zenon

LEMMA OrderInvInit == Init => OrderInv
<1> SUFFICES ASSUME Init PROVE OrderInv
  BY Zenon
<1>1. /\ queue = << >> /\ received[Drainer] = << >> /\ lost = {} /\ pushes = 0 /\ flights = << >>
      /\ byteBuffer.items = << >> /\ dpc = "idle"
  BY Zenon DEF Init, Ring!SlotInit, Ring!Init, NoFrame
<1>2. Top = 0 /\ ~Sealed
  BY <1>1, Zenon DEF Top, Sealed
<1> QED
  BY <1>1, <1>2 DEF OrderInv, QueueInv, FrameInv, CallInv, Increasing, UpTo

LEMMA OrderInvStep == FlushInv /\ FlushInv' /\ OrderInv /\ [Next]_vars => OrderInv'
<1> SUFFICES ASSUME FlushInv, FlushInv', OrderInv, [Next]_vars PROVE OrderInv'
  BY Zenon
<1> QED
  BY QueueInvStep, FrameInvStep, CallInvStep, Zenon DEF OrderInv

-----------------------------------------------------------------------------
(* The stream: what the sink has written and what it is yet to transmit    *)

Stream == delivered \o outbox

\* Every call writes at most once, and calls write in their order.
StreamInv ==
  /\ \A i, j \in DOMAIN Stream : i < j => Stream[i].flight < Stream[j].flight
  /\ \A i \in DOMAIN Stream : Stream[i].flight \in DOMAIN flights /\ flights[Stream[i].flight].pc # "call"
  /\ ~AsyncInner => outbox = << >>

LEMMA StreamType ==
  ASSUME FlushTypes
  PROVE  /\ Stream \in Seq(AnyWrite) /\ Len(Stream) = Len(delivered) + Len(outbox)
         /\ \A i \in 1..Len(delivered) : i \in 1..Len(Stream) /\ Stream[i] = delivered[i]
         /\ \A i \in 1..Len(outbox) : /\ i + Len(delivered) \in 1..Len(Stream)
                                      /\ Stream[i + Len(delivered)] = outbox[i]
<1>1. delivered \in Seq(AnyWrite) /\ outbox \in Seq(AnyWrite)
  BY Zenon DEF FlushTypes
<1> QED
  BY <1>1 DEF Stream

LEMMA StreamUntouched ==
  ASSUME ProducerStep \/ LoopStep \/ DrainStep \/ StatsLoad \/ UNCHANGED vars
  PROVE  UNCHANGED <<delivered, outbox>>
<1>1. CASE ProducerStep \/ StatsLoad \/ UNCHANGED vars
  BY <1>1, ProducersKeep, Zenon DEF NotProducer, StatsLoad,
              flightVars, vars
<1>2. CASE LoopStep
  BY <1>2, Zenon DEF LoopStep, Start, Cancel, ShutdownDeadline, FinalReturn, Tick, CtxDone, BeginDrain,
              flightVars
<1>3. CASE DrainStep
  BY <1>3, Zenon DEF DrainStep, PopClaim, Marshal, StopDrain, DrainEmpty, Seal, Compress, CompressFails,
              Flush, FlushBusy, AwaitResult, AwaitTimeout, flightVars
<1> QED
  BY <1>1, <1>2, <1>3, Zenon

\* SinkWrite and CopyingFlush add what the call's buffer holds.
LEMMA StreamWrites ==
  ASSUME FlushTypes, StreamInv, NEW f \in 1..MaxPush, SinkWrite(f) \/ CopyingFlush(f)
  PROVE  Stream' = Append(Stream, [flight |-> f, frame |-> PayloadBuffer])
<1>0. delivered \in Seq(AnyWrite) /\ outbox \in Seq(AnyWrite) /\ Stream \in Seq(AnyWrite)
  BY StreamType, Zenon DEF FlushTypes
<1> DEFINE write == [flight |-> f, frame |-> PayloadBuffer]
<1>1. write \in AnyWrite
  BY DEF PayloadBuffer, FlushTypes, AnyWrite
<1>2. \/ ~AsyncInner /\ delivered' = Append(delivered, write) /\ outbox' = outbox
      \/ outbox' = Append(outbox, write) /\ delivered' = delivered
  BY Zenon DEF SinkWrite, CopyingFlush
<1> HIDE DEF write
<1>3. CASE ~AsyncInner /\ delivered' = Append(delivered, write) /\ outbox' = outbox
  <2>1. outbox = << >>
    BY <1>3, Zenon DEF StreamInv
  <2>2. Stream = delivered
    BY <1>0, <2>1, ConcatNothing, Zenon DEF Stream
  <2>3. Stream' = Append(delivered, write) \o << >> /\ Append(delivered, write) \in Seq(AnyWrite)
    BY <1>0, <1>1, <1>3, <2>1 DEF Stream
  <2> QED
    BY <2>2, <2>3, ConcatNothing, Zenon DEF write
<1>4. CASE outbox' = Append(outbox, write) /\ delivered' = delivered
  <2>1. Stream' = delivered \o (outbox \o << write >>)
    BY <1>0, <1>1, <1>4, AppendAsConcat, Zenon DEF Stream
  <2>2. Append(Stream, write) = (delivered \o outbox) \o << write >>
    BY <1>0, <1>1, AppendAsConcat, Zenon DEF Stream
  <2>3. << write >> \in Seq(AnyWrite)
    BY <1>1
  <2>4. (delivered \o outbox) \o << write >> = delivered \o (outbox \o << write >>)
    BY <1>0, <2>3, ConcatRegroup, SMTT(30)
  <2> QED
    BY <2>1, <2>2, <2>4, Zenon DEF write
<1> QED
  BY <1>2, <1>3, <1>4, Zenon

\* Transmit moves an entry.
LEMMA StreamSteps ==
  ASSUME FlushTypes, StreamInv, [Next]_vars
  PROVE  \/ Stream' = Stream
         \/ \E f \in 1..MaxPush :
              /\ SinkWrite(f) \/ CopyingFlush(f)
              /\ Stream' = Append(Stream, [flight |-> f, frame |-> PayloadBuffer])
<1>1. delivered \in Seq(AnyWrite) /\ outbox \in Seq(AnyWrite) /\ Stream \in Seq(AnyWrite)
  BY StreamType, Zenon DEF FlushTypes
<1>3. ASSUME NEW f \in 1..MaxPush, SinkFail(f) \/ Send(f) \/ Clear(f) PROVE Stream' = Stream
  BY <1>3, Zenon DEF SinkFail, Send, Clear, Stream
<1>4. CASE Transmit
  <2>1. outbox # << >> /\ outbox' = Tail(outbox) /\ delivered' = Append(delivered, Head(outbox))
    BY <1>4, Zenon DEF Transmit, Owned
  <2>2. Head(outbox) \in AnyWrite /\ Tail(outbox) \in Seq(AnyWrite) /\ << Head(outbox) >> \in Seq(AnyWrite)
    BY <1>1, <2>1
  <2>3. outbox = << Head(outbox) >> \o Tail(outbox)
    BY <1>1, <2>1
  <2>4. Append(delivered, Head(outbox)) = delivered \o << Head(outbox) >>
    BY <1>1, <2>2, AppendAsConcat, Zenon
  <2>5. (delivered \o << Head(outbox) >>) \o Tail(outbox) = delivered \o (<< Head(outbox) >> \o Tail(outbox))
    BY <1>1, <2>2, ConcatRegroup, SMTT(30)
  <2> QED
    BY <2>1, <2>3, <2>4, <2>5, Zenon DEF Stream
<1>5. CASE ProducerStep \/ LoopStep \/ DrainStep \/ StatsLoad \/ UNCHANGED vars
  BY <1>5, StreamUntouched, Zenon DEF Stream
<1> QED
  BY <1>3, <1>4, <1>5, StreamWrites, Zenon DEF Next, FlightStep

LEMMA StreamInvStep ==
  ASSUME FlushInv, FlushInv', StreamInv, [Next]_vars
  PROVE  StreamInv'
<1>0. /\ flights \in Seq(AnyFlight) /\ DOMAIN flights = 1..Len(flights) /\ Len(flights) \in Nat
      /\ flights' \in Seq(AnyFlight) /\ DOMAIN flights' = 1..Len(flights')
      /\ Stream \in Seq(AnyWrite) /\ DOMAIN Stream = 1..Len(Stream) /\ Len(Stream) \in Nat
  BY StreamType, SMTT(30) DEF FlushInv, FlushTypes
<1>1. \A f \in DOMAIN flights : f \in DOMAIN flights' /\ (flights[f].pc # "call" => flights'[f].pc # "call")
  <2>1. ASSUME NEW f \in 1..MaxPush, FlightStep(f)
        PROVE  \A g \in DOMAIN flights : g \in DOMAIN flights' /\ (flights[g].pc # "call" => flights'[g].pc # "call")
    <3>1. /\ f \in DOMAIN flights /\ Len(flights') = Len(flights) /\ flights'[f].pc # "call"
          /\ \A g \in DOMAIN flights \ {f} : flights'[g] = flights[g]
      BY <2>1, FlightMoves, ZenonT(30) DEF FlushInv, Moves, Returned
    <3> QED
      BY <1>0, <3>1, Zenon
  <2>2. CASE Flush
    <3>1. Len(flights') = Len(flights) + 1 /\ \A g \in DOMAIN flights : flights'[g] = flights[g]
      BY <2>2, CallSteps, Zenon
    <3>2. DOMAIN flights \subseteq DOMAIN flights'
      BY <1>0, <3>1
    <3> QED
      BY <3>1, <3>2, Zenon
  <2> QED
    BY <2>1, <2>2, EngineSteps, Zenon DEF Next
<1>2. ~AsyncInner => outbox' = << >>
  <2>1. ASSUME ~AsyncInner, NEW f \in 1..MaxPush, FlightStep(f) PROVE outbox' = outbox
    BY <2>1, ZenonT(30) DEF FlightStep, SinkWrite, CopyingFlush, SinkFail, Send, Clear
  <2>2. CASE Transmit
    BY <2>2, Zenon DEF Transmit, StreamInv
  <2> QED
    BY <2>1, <2>2, StreamUntouched, Zenon DEF Next, StreamInv
<1>3. CASE Stream' = Stream
  BY <1>1, <1>2, <1>3, Zenon DEF StreamInv
<1>4. ASSUME NEW f \in 1..MaxPush, SinkWrite(f) \/ CopyingFlush(f),
             Stream' = Append(Stream, [flight |-> f, frame |-> PayloadBuffer])
      PROVE  StreamInv'
  <2>1. f = Len(flights) /\ f \in DOMAIN flights /\ flights[f].pc = "call"
    BY <1>4, ZenonT(30) DEF SinkWrite, CopyingFlush, Flying, FlushInv, FlightInv
  <2>2. f \in DOMAIN flights' /\ flights'[f].pc # "call"
    BY <1>0, <1>4, FlightMoves, ZenonT(30) DEF FlushInv, Moves, Returned, FlightStep
  <2> DEFINE write == [flight |-> f, frame |-> PayloadBuffer]
  <2>3. write \in AnyWrite /\ write.flight = f
    BY DEF PayloadBuffer, FlushInv, FlushTypes, AnyWrite
  <2>4. Stream' = Append(Stream, write)
    BY <1>4, Zenon
  <2> HIDE DEF write
  <2>5. /\ DOMAIN Stream' = 1..(Len(Stream) + 1) /\ Stream'[Len(Stream) + 1] = write
        /\ \A i \in DOMAIN Stream : Stream'[i] = Stream[i]
    BY <1>0, <2>3, <2>4
  <2>6. \A i \in DOMAIN Stream : Stream[i].flight \in DOMAIN flights /\ Stream[i].flight < f
    BY <1>0, <2>1 DEF StreamInv
  <2>7. \A i \in DOMAIN Stream' : Stream'[i].flight \in DOMAIN flights' /\ flights'[Stream'[i].flight].pc # "call"
    <3>1. \A i \in DOMAIN Stream' :
            (i \in DOMAIN Stream /\ Stream'[i] = Stream[i]) \/ Stream'[i].flight = f
      BY <1>0, <2>3, <2>5
    <3> QED
      BY <1>1, <2>2, <3>1, Zenon DEF StreamInv
  <2>8. \A i, j \in DOMAIN Stream' : i < j => Stream'[i].flight < Stream'[j].flight
    <3>1. SUFFICES ASSUME NEW i \in DOMAIN Stream', NEW j \in DOMAIN Stream', i < j
                   PROVE  Stream'[i].flight < Stream'[j].flight
      BY Zenon
    <3>2. DOMAIN Stream = 1..Len(Stream) /\ Len(Stream) \in Nat
      BY <1>0, Zenon
    <3>3. i \in DOMAIN Stream /\ (j \in DOMAIN Stream \/ j = Len(Stream) + 1)
      BY <2>5, <3>1, <3>2
    <3>4. CASE j \in DOMAIN Stream
      BY <2>5, <3>1, <3>3, <3>4, Zenon DEF StreamInv
    <3>5. CASE j = Len(Stream) + 1
      <4>1. Stream'[j].flight = f /\ Stream'[i] = Stream[i]
        BY <2>3, <2>5, <3>3, <3>5, Zenon
      <4> QED
        BY <2>6, <3>3, <4>1, Zenon
    <3> QED
      BY <3>3, <3>4, <3>5, Zenon
  <2> QED
    BY <1>2, <2>7, <2>8, Zenon DEF StreamInv
<1> QED
  BY <1>3, <1>4, StreamSteps, Zenon DEF FlushInv

LEMMA StreamInvariant == Spec => [](FlushInv /\ OrderInv /\ StreamInv)
<1>1. Init => StreamInv
  BY DEF Init, StreamInv, Stream
<1>2. FlushInv /\ FlushInv' /\ StreamInv /\ [Next]_vars => StreamInv'
  BY StreamInvStep
<1> QED
  BY <1>1, <1>2, OrderInvInit, OrderInvStep, FlushInvariant, PTL DEF Spec

\* batcher.go and copy_sink.go: with a FlushTimeout that is not negative, a receiver gets
\* every item at most once, in the order of the pushes, and the frames in the order they
\* were sealed, with their numbers modulo 2^32 as sequence numbers, whichever calls of
\* Sink.Flush fail, time out or come back late.
THEOREM ArrivalsInOrder == ASSUME FlushTimeout >= 0 PROVE Spec => []DeliveredInOrder
<1>1. FlushInv /\ OrderInv /\ StreamInv => DeliveredInOrder
  <2> SUFFICES ASSUME FlushInv, OrderInv, StreamInv, NEW i \in DOMAIN delivered
               PROVE  LET d == delivered[i].frame IN
                      /\ d.seq = d.number % SeqSpace
                      /\ \A k, l \in DOMAIN d.items : k < l => d.items[k] < d.items[l]
                      /\ \A j \in 1..(i - 1) :
                           LET e == delivered[j].frame IN
                           /\ e.number < d.number
                           /\ \A k \in DOMAIN d.items, l \in DOMAIN e.items : e.items[l] < d.items[k]
    BY Zenon DEF DeliveredInOrder
  <2>1. delivered \in Seq(AnyWrite) /\ DOMAIN delivered = 1..Len(delivered) /\ Len(delivered) \in Nat
    BY DEF FlushInv, FlushTypes
  <2>2. \A j \in DOMAIN delivered : j \in DOMAIN Stream /\ Stream[j] = delivered[j]
    BY <2>1, StreamType DEF FlushInv
  <2>3. \A j \in DOMAIN delivered : /\ delivered[j].flight \in DOMAIN flights
                                    /\ delivered[j].frame = flights[delivered[j].flight].frame
    BY Zenon DEF FlushInv, WriteInv, Faithful
  <2>4. Increasing(delivered[i].frame.items)
    BY <2>3, ZenonT(30) DEF OrderInv, CallInv, Older
  <2>5. ASSUME NEW j \in 1..(i - 1)
        PROVE  /\ delivered[j].frame.number < delivered[i].frame.number
               /\ Before(delivered[j].frame.items, delivered[i].frame.items)
    <3>1. j \in DOMAIN delivered /\ j < i
      BY <2>1
    <3>2. delivered[j].flight < delivered[i].flight
      BY <2>2, <3>1, Zenon DEF StreamInv
    <3>3. Precedes(delivered[j].flight, delivered[i].flight)
      BY <2>3, <3>1, <3>2, Zenon DEF OrderInv, CallInv
    <3> QED
      BY <2>3, <3>1, <3>3, Zenon DEF Precedes
  <2>6. Wrapped(delivered[i].frame.seq, delivered[i].frame.number)
    <3>1. delivered[i] \in AnyWrite
      BY <2>1
    <3> QED
      BY <3>1, Zenon DEF AnyWrite, AnyFrame
  <2> QED
    BY <2>4, <2>5, <2>6, Zenon DEF Increasing, Before, Wrapped
<1> QED
  BY <1>1, StreamInvariant, PTL

=============================================================================
