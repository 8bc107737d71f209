---------------------------- MODULE EngineDelivery ---------------------------
(***************************************************************************)
(* What the engine of batcher.go believes of the sink, and what the sink   *)
(* was given: a counted flush was written, the delta baseline is the frame *)
(* written last, and every variable keeps within its type.                 *)
(***************************************************************************)
EXTENDS EngineCounts

-----------------------------------------------------------------------------
(* Outcomes: the engine and the sink agree on what was written             *)

\* The awaited call has come back without an error, and the engine has yet to learn it.
Granted == dpc = "await" /\ Awaited.pc # "call" /\ ~Awaited.err

\* A call that is inside the sink has no error yet.
ErrInv == \A f \in DOMAIN flights : flights[f].pc = "call" => ~flights[f].err

LEMMA FlightOutcomes ==
  ASSUME FlushInv, NEW f \in 1..MaxPush, FlightStep(f)
  PROVE  /\ f \in DOMAIN flights /\ Len(flights') = Len(flights) /\ flights'[f].pc # "call"
         /\ \A g \in DOMAIN flights \ {f} : flights'[g] = flights[g]
         /\ SinkWrite(f) \/ CopyingFlush(f) \/ SinkFail(f) => flights[f].pc = "call" /\ f = Len(flights)
         /\ Send(f) \/ Clear(f) => flights[f].pc # "call"
         /\ SinkWrite(f) /\ ~FailsAfterWrite => ~flights'[f].err
         /\ SinkFail(f) => flights'[f].err
         /\ CopyingFlush(f) \/ Send(f) \/ Clear(f) => flights'[f].err = flights[f].err
         /\ UNCHANGED <<dpc, byteBuffer, baseline, flushedItems>>
<1>0. /\ f \in DOMAIN flights /\ Len(flights') = Len(flights) /\ flights'[f].pc # "call"
      /\ \A g \in DOMAIN flights \ {f} : flights'[g] = flights[g]
  BY FlightMoves, Zenon DEF FlushInv, Moves, Returned
<1>1. flights \in Seq(AnyFlight) /\ flights[f] \in AnyFlight
  BY <1>0 DEF FlushInv, FlushTypes
<1>2. ASSUME NEW label, NEW err, flights' = [flights EXCEPT ![f].pc = label, ![f].err = err]
      PROVE  flights'[f].err = err
  <2> DEFINE moved == [[flights[f] EXCEPT !.pc = label] EXCEPT !.err = err]
  <2>1. moved.err = err
    BY <1>1, Zenon DEF AnyFlight
  <2>2. flights' = [flights EXCEPT ![f] = moved]
    BY <1>0, <1>1, <1>2, Zenon
  <2> HIDE DEF moved
  <2> QED
    BY <1>0, <1>1, <2>1, <2>2, Zenon
<1>3. ASSUME NEW label, flights' = [flights EXCEPT ![f].pc = label]
      PROVE  flights'[f].err = flights[f].err
  <2> DEFINE moved == [flights[f] EXCEPT !.pc = label]
  <2>1. moved.err = flights[f].err
    BY <1>1, Zenon DEF AnyFlight
  <2>2. flights' = [flights EXCEPT ![f] = moved]
    BY <1>0, <1>1, <1>3, Zenon
  <2> HIDE DEF moved
  <2> QED
    BY <1>0, <1>1, <2>1, <2>2, Zenon
<1>4. SinkWrite(f) /\ ~FailsAfterWrite => ~flights'[f].err
  <2> SUFFICES ASSUME SinkWrite(f), ~FailsAfterWrite PROVE ~flights'[f].err
    BY Zenon
  <2>1. flights' = [flights EXCEPT ![f].pc = Returned, ![f].err = FALSE]
    BY Zenon DEF SinkWrite
  <2>2. flights'[f].err = FALSE
    BY <1>2, <2>1, Zenon
  <2> QED
    BY <2>2, Zenon
<1>5. SinkFail(f) => flights'[f].err
  <2>1. SinkFail(f) => flights'[f].err = TRUE
    BY <1>2, ZenonT(30) DEF SinkFail
  <2> QED
    BY <2>1, Zenon
<1>6. CopyingFlush(f) \/ Send(f) \/ Clear(f) => flights'[f].err = flights[f].err
  BY <1>3, Zenon DEF CopyingFlush, Send, Clear
<1>7. /\ SinkWrite(f) \/ CopyingFlush(f) \/ SinkFail(f) => flights[f].pc = "call" /\ f = Len(flights)
      /\ Send(f) \/ Clear(f) => flights[f].pc # "call"
  <2>1. /\ SinkWrite(f) \/ CopyingFlush(f) \/ SinkFail(f) => flights[f].pc = "call"
        /\ Send(f) \/ Clear(f) => flights[f].pc # "call"
    BY Zenon DEF SinkWrite, CopyingFlush, SinkFail, Send, Clear, Flying
  <2>2. flights[f].pc = "call" => f = Len(flights)
    BY <1>0, Zenon DEF FlushInv, FlightInv
  <2> QED
    BY <2>1, <2>2, Zenon
<1>8. UNCHANGED <<dpc, byteBuffer, baseline, flushedItems>>
  BY ZenonT(30) DEF FlightStep, SinkWrite, CopyingFlush, SinkFail, Send, Clear, OutsideSink, frameVars, flushVars
<1> QED
  BY <1>0, <1>4, <1>5, <1>6, <1>7, <1>8, Zenon

\* Outside the drain and the sink.
LEMMA OuterSteps ==
  ASSUME FlushInv, ProducerStep \/ LoopStep \/ Transmit \/ StatsLoad \/ UNCHANGED vars
  PROVE  /\ UNCHANGED <<baseline, flushedItems, flights>>
         /\ UNCHANGED <<dpc, byteBuffer>> \/ (dpc = "idle" /\ dpc' = "pop")
<1>1. CASE Tick \/ CtxDone
  BY <1>1, Zenon DEF Tick, CtxDone, BeginDrain, FlushInv, DrainInv, flushVars, flightVars
<1>2. CASE ProducerStep \/ Transmit \/ StatsLoad \/ UNCHANGED vars
  BY <1>2, ProducersKeep, ZenonT(30) DEF NotProducer, Transmit, OutsideSink,
              StatsLoad, frameVars, flushVars, flightVars, vars
<1>3. CASE Start \/ Cancel \/ ShutdownDeadline \/ FinalReturn
  BY <1>3, Zenon DEF Start, Cancel, ShutdownDeadline, FinalReturn, frameVars, flushVars, flightVars
<1> QED
  BY <1>1, <1>2, <1>3, Zenon DEF LoopStep

\* Who may add to the stream, advance the baseline and count a flush.
LEMMA OutcomeSteps ==
  ASSUME FlushInv, CallInv, StreamInv, [Next]_vars
  PROVE  \/ \E f \in 1..MaxPush :
              /\ SinkWrite(f) \/ CopyingFlush(f)
              /\ Stream' = Append(Stream, [flight |-> f, frame |-> PayloadBuffer])
              /\ ~Granted
         \/ AwaitResult /\ Granted /\ ~Granted' /\ Stream' = Stream /\ FlushSucceeded
         \/ /\ UNCHANGED <<Stream, baseline, flushedItems>>
            /\ Granted' => Granted /\ byteBuffer' = byteBuffer
            /\ Granted => Granted' \/ Timed
<1>0. flights \in Seq(AnyFlight) /\ DOMAIN flights = 1..Len(flights) /\ Len(flights) \in Nat
  BY DEF FlushInv, FlushTypes
<1>1. CASE Stream' = Stream /\ (ProducerStep \/ LoopStep \/ Transmit \/ StatsLoad \/ UNCHANGED vars)
  <2>1. /\ UNCHANGED <<baseline, flushedItems, flights>>
        /\ UNCHANGED <<dpc, byteBuffer>> \/ (dpc = "idle" /\ dpc' = "pop")
    BY <1>1, OuterSteps, Zenon
  <2>2. Awaited' = Awaited
    BY <2>1, Zenon DEF Awaited
  <2>3. /\ Granted' => Granted /\ byteBuffer' = byteBuffer
        /\ Granted => Granted'
    BY <2>1, <2>2, ZenonT(30) DEF Granted
  <2> QED
    BY <1>1, <2>1, <2>3, Zenon
<1>2. ASSUME NEW f \in 1..MaxPush, SinkWrite(f) \/ CopyingFlush(f) PROVE ~Granted
  BY <1>2, FlightOutcomes, Zenon DEF Granted, Awaited, FlightStep
<1>3. ASSUME NEW f \in 1..MaxPush, SinkFail(f) \/ Send(f) \/ Clear(f)
      PROVE  /\ UNCHANGED <<baseline, flushedItems, byteBuffer>>
             /\ Granted' => Granted
             /\ Granted => Granted'
  <2>1. FlightStep(f)
    BY <1>3, Zenon DEF FlightStep
  <2>2. UNCHANGED <<dpc, byteBuffer, baseline, flushedItems>>
    BY <2>1, FlightOutcomes, Zenon
  <2>3. Awaited' = flights'[Len(flights)]
    BY <2>1, FlightOutcomes, Zenon DEF Awaited
  <2>4. CASE f # Len(flights)
    <3>1. ASSUME dpc = "await" PROVE Awaited' = Awaited
      <4>1. Len(flights) \in DOMAIN flights \ {f}
        <5>1. Len(flights) > 0
          BY <3>1, Zenon DEF CallInv
        <5>2. Len(flights) \in DOMAIN flights
          BY <1>0, <5>1
        <5> QED
          BY <2>4, <5>2, Zenon
      <4> QED
        BY <2>1, <2>3, <4>1, FlightOutcomes, Zenon DEF Awaited
    <3> QED
      BY <2>2, <3>1, Zenon DEF Granted
  <2>5. CASE f = Len(flights)
    <3>1. /\ Awaited = flights[f] /\ Awaited' = flights'[f] /\ flights'[f].pc # "call"
          /\ SinkFail(f) => flights[f].pc = "call" /\ flights'[f].err
          /\ Send(f) \/ Clear(f) => flights[f].pc # "call" /\ flights'[f].err = flights[f].err
      BY <2>1, <2>3, <2>5, FlightOutcomes, Zenon DEF Awaited
    <3> QED
      BY <1>3, <2>2, <3>1, ZenonT(30) DEF Granted
  <2> QED
    BY <2>2, <2>4, <2>5, Zenon
<1>4. CASE AwaitResult
  <2>1. dpc = "await" /\ dpc' = "idle" /\ Awaited.pc \in {"clear", "end"}
        /\ IF Awaited.err THEN FlushFailed ELSE FlushSucceeded
    BY <1>4, Zenon DEF AwaitResult, EndDrain
  <2>2. Stream' = Stream /\ ~Granted'
    BY <1>4, <2>1, Zenon DEF AwaitResult, flightVars, Stream, Granted
  <2>3. CASE Awaited.err
    <3>1. ~Granted /\ baseline' = baseline /\ flushedItems' = flushedItems
      BY <2>1, <2>3, Zenon DEF Granted, FlushFailed
    <3> QED
      BY <2>2, <3>1, Zenon
  <2>4. CASE ~Awaited.err
    <3>1. Granted /\ FlushSucceeded
      BY <2>1, <2>4, Zenon DEF Granted
    <3> QED
      BY <1>4, <2>2, <3>1, Zenon
  <2> QED
    BY <2>3, <2>4, Zenon
<1>5. CASE DrainStep /\ ~AwaitResult
  <2>1. UNCHANGED <<baseline, flushedItems>>
    BY <1>5, Zenon DEF DrainStep, PopClaim, Marshal, StopDrain, DrainEmpty, Seal, Compress, CompressFails,
                Flush, FlushBusy, AwaitTimeout, FlushFailed, flushVars
  <2>2. (dpc # "await" \/ AwaitTimeout) /\ (dpc' # "await" \/ Flush)
    BY <1>5, Zenon DEF DrainStep, PopClaim, Marshal, StopDrain, DrainEmpty, Seal, Compress, CompressFails,
                Flush, FlushBusy, EndDrain, AwaitTimeout
  <2>3. Granted => Timed
    BY <2>2, Zenon DEF Granted, AwaitTimeout
  <2>4. ~Granted'
    <3>1. CASE Flush
      <4>1. /\ Len(flights') = Len(flights) + 1
            /\ flights'[Len(flights) + 1] = [pc |-> "call", frame |-> byteBuffer, err |-> FALSE]
        BY <3>1, CallSteps, Zenon
      <4>2. Awaited'.pc = "call"
        BY <4>1 DEF Awaited
      <4> QED
        BY <4>2, Zenon DEF Granted
    <3> QED
      BY <2>2, <3>1, Zenon DEF Granted
  <2>5. Stream' = Stream
    BY <1>5, StreamUntouched, Zenon DEF Stream
  <2> QED
    BY <2>1, <2>3, <2>4, <2>5, Zenon
<1>6. ASSUME NEW f \in 1..MaxPush, SinkFail(f) \/ Send(f) \/ Clear(f) PROVE Stream' = Stream
  BY <1>6, Zenon DEF SinkFail, Send, Clear, Stream
<1>7. CASE \E f \in 1..MaxPush : SinkWrite(f) \/ CopyingFlush(f)
  BY <1>2, <1>7, StreamWrites, Zenon DEF FlushInv
<1>8. CASE \E f \in 1..MaxPush : SinkFail(f) \/ Send(f) \/ Clear(f)
  BY <1>3, <1>6, <1>8, Zenon
<1>9. CASE ProducerStep \/ LoopStep \/ Transmit \/ StatsLoad \/ UNCHANGED vars
  BY <1>1, <1>7, <1>9, StreamSteps, Zenon DEF FlushInv
<1> QED
  BY <1>4, <1>5, <1>7, <1>8, <1>9, Zenon DEF Next, FlightStep

-----------------------------------------------------------------------------
(* The delta chain                                                         *)

\* The frame a receiver has at the end of the stream, and the one it will be told about.
LastSeq == IF Stream = << >> THEN 0 ELSE Stream[Len(Stream)].frame.number
Tip     == IF Granted THEN byteBuffer.number ELSE baseline

\* The frame in progress was encoded against the baseline, which is the last frame the
\* sink wrote unless that one is still to be acknowledged.
BaseInv ==
  Sealed \/ dpc = "await"
    => byteBuffer.base = Raw \/ (DeltaEncoding /\ byteBuffer.base = baseline)

Chained(i) ==
  Stream[i].frame.base # Raw
    => Stream[i].frame.base = IF i = 1 THEN 0 ELSE Stream[i - 1].frame.number

ChainInv ==
  /\ ErrInv /\ BaseInv
  /\ DeltaEncoding => Tip = LastSeq
  /\ \A i \in DOMAIN Stream : Chained(i)

LEMMA ErrInvStep ==
  ASSUME FlushInv, ErrInv, [Next]_vars
  PROVE  ErrInv'
<1>0. flights \in Seq(AnyFlight) /\ DOMAIN flights = 1..Len(flights) /\ Len(flights) \in Nat
  BY DEF FlushInv, FlushTypes
<1>1. CASE UNCHANGED flights
  BY <1>1, Zenon DEF ErrInv
<1>2. CASE Flush
  <2> DEFINE flight == [pc |-> "call", frame |-> byteBuffer, err |-> FALSE]
  <2>1. flights' = Append(flights, flight) /\ flight \in AnyFlight /\ ~flight.err
    BY <1>2, Zenon DEF Flush, AnyFlight, FlushInv, FlushTypes
  <2> HIDE DEF flight
  <2>2. \A f \in DOMAIN flights' : (f \in DOMAIN flights /\ flights'[f] = flights[f]) \/ flights'[f] = flight
    BY <1>0, <2>1
  <2> QED
    BY <2>1, <2>2, Zenon DEF ErrInv
<1>3. ASSUME NEW f \in 1..MaxPush, FlightStep(f) PROVE ErrInv'
  <2>1. DOMAIN flights' = DOMAIN flights
    BY <1>0, <1>3, FlightMoves DEF FlushInv, Moves
  <2>2. flights'[f].pc # "call" /\ \A g \in DOMAIN flights \ {f} : flights'[g] = flights[g]
    BY <1>3, FlightOutcomes, Zenon
  <2> QED
    BY <2>1, <2>2, Zenon DEF ErrInv
<1> QED
  BY <1>1, <1>2, <1>3, EngineSteps, Zenon DEF Next

LEMMA BaseInvStep ==
  ASSUME FlushInv, BaseInv, [Next]_vars
  PROVE  BaseInv'
<1>1. CASE UNCHANGED <<byteBuffer, baseline>> /\ (Sealed' \/ dpc' = "await" => Sealed \/ dpc = "await")
  BY <1>1, Zenon DEF BaseInv
<1>2. CASE dpc' \notin {"compress", "flush", "await"}
  BY <1>2, Zenon DEF BaseInv, Sealed
<1>3. CASE Seal
  <2> DEFINE base == IF DeltaEncoding /\ ~IsKeyframe THEN baseline ELSE Raw
  <2>1. /\ byteBuffer' = [byteBuffer EXCEPT !.number = sealed + 1, !.seq = NextSequenceID, !.base = base]
        /\ baseline' = baseline
    BY <1>3, Zenon DEF Seal, flushVars
  <2>2. base = Raw \/ (DeltaEncoding /\ base = baseline)
    BY Zenon
  <2> HIDE DEF base
  <2>3. byteBuffer'.base = base
    BY <2>1, Zenon DEF FlushInv, FlushTypes, AnyFrame
  <2> QED
    BY <2>1, <2>2, <2>3, Zenon DEF BaseInv
<1>4. CASE DrainStep /\ ~Seal
  <2>1. \/ dpc' \notin {"compress", "flush", "await"}
        \/ (Compress \/ Flush)
    BY <1>4, Zenon DEF DrainStep, PopClaim, Marshal, StopDrain, DrainEmpty, CompressFails, FlushBusy, AwaitResult,
                AwaitTimeout, EndDrain
  <2>2. CASE Compress \/ Flush
    <3>1. UNCHANGED <<byteBuffer, baseline>> /\ Sealed
      BY <2>2, Zenon DEF Compress, Flush, frameVars, flushVars, Sealed
    <3> QED
      BY <1>1, <3>1, Zenon
  <2> QED
    BY <1>2, <2>1, <2>2, Zenon
<1>5. CASE ProducerStep \/ LoopStep \/ Transmit \/ StatsLoad \/ UNCHANGED vars
  <2>1. CASE UNCHANGED <<dpc, byteBuffer>>
    <3>1. baseline' = baseline
      BY <1>5, OuterSteps, Zenon
    <3> QED
      BY <2>1, <3>1, Zenon DEF BaseInv, Sealed
  <2> QED
    BY <1>2, <1>5, <2>1, OuterSteps, Zenon
<1>6. ASSUME NEW f \in 1..MaxPush, FlightStep(f) PROVE BaseInv'
  <2>1. UNCHANGED <<dpc, byteBuffer, baseline>>
    BY <1>6, FlightOutcomes, Zenon
  <2> QED
    BY <2>1, Zenon DEF BaseInv, Sealed
<1> QED
  BY <1>3, <1>4, <1>5, <1>6, Zenon DEF Next

LEMMA ChainInvStep ==
  ASSUME FlushTimeout = 0, ~FailsAfterWrite, FlushInv, CallInv, StreamInv, ChainInv, [Next]_vars
  PROVE  ChainInv'
<1>0. /\ Stream \in Seq(AnyWrite) /\ DOMAIN Stream = 1..Len(Stream) /\ Len(Stream) \in Nat /\ ~Timed
      /\ byteBuffer \in AnyFrame
  <2>1. ~Timed
    BY Zenon DEF Timed
  <2>2. FlushTypes
    BY Zenon DEF FlushInv
  <2> QED
    BY <2>1, <2>2, StreamType DEF FlushTypes
<1>1. ErrInv' /\ BaseInv'
  BY ErrInvStep, BaseInvStep, Zenon DEF ChainInv
<1>2. CASE /\ UNCHANGED <<Stream, baseline, flushedItems>>
           /\ Granted' => Granted /\ byteBuffer' = byteBuffer
           /\ Granted => Granted' \/ Timed
  <2>1. Tip' = Tip /\ LastSeq' = LastSeq
    BY <1>0, <1>2, Zenon DEF Tip, LastSeq
  <2>2. \A i \in DOMAIN Stream' : Chained(i)'
    BY <1>2, Zenon DEF ChainInv, Chained
  <2> QED
    BY <1>1, <2>1, <2>2, Zenon DEF ChainInv
<1>3. CASE AwaitResult /\ Granted /\ ~Granted' /\ Stream' = Stream /\ FlushSucceeded
  <2>1. DeltaEncoding => baseline' = byteBuffer.number
    BY <1>3, Zenon DEF FlushSucceeded
  <2>2. DeltaEncoding => Tip' = Tip
    BY <1>3, <2>1, Zenon DEF Tip
  <2>3. LastSeq' = LastSeq /\ \A i \in DOMAIN Stream' : Chained(i)'
    BY <1>3, Zenon DEF ChainInv, Chained, LastSeq
  <2> QED
    BY <1>1, <2>2, <2>3, Zenon DEF ChainInv
<1>4. ASSUME NEW f \in 1..MaxPush, SinkWrite(f) \/ CopyingFlush(f), ~Granted,
             Stream' = Append(Stream, [flight |-> f, frame |-> PayloadBuffer])
      PROVE  ChainInv'
  <2> DEFINE write == [flight |-> f, frame |-> PayloadBuffer]
  <2>1. PayloadBuffer = byteBuffer
    BY <1>0, Zenon DEF PayloadBuffer
  <2>2. Stream' = Append(Stream, write) /\ write \in AnyWrite /\ write.frame = byteBuffer
    BY <1>0, <1>4, <2>1 DEF AnyWrite
  <2> HIDE DEF write
  <2>3. /\ DOMAIN Stream' = 1..(Len(Stream) + 1) /\ Len(Stream') = Len(Stream) + 1
        /\ Stream'[Len(Stream) + 1] = write
        /\ \A i \in DOMAIN Stream : Stream'[i] = Stream[i]
    BY <1>0, <2>2
  <2>4. FlightStep(f)
    BY <1>4, Zenon DEF FlightStep
  <2>5. /\ f = Len(flights) /\ f \in DOMAIN flights /\ flights[f].pc = "call"
        /\ Len(flights') = Len(flights) /\ flights'[f].pc # "call" /\ UNCHANGED <<dpc, byteBuffer, baseline>>
        /\ SinkWrite(f) => ~flights'[f].err
        /\ CopyingFlush(f) => flights'[f].err = flights[f].err
    BY <1>4, <2>4, FlightOutcomes, Zenon
  <2>6. dpc = "await"
    BY <1>0, <2>5, Zenon DEF FlushInv, FlightInv
  <2>7. ~flights[f].err
    BY <2>5, Zenon DEF ChainInv, ErrInv
  <2>8. Granted'
    <3>1. Awaited' = flights'[f]
      BY <2>5, Zenon DEF Awaited
    <3> QED
      BY <1>4, <2>5, <2>6, <2>7, <3>1, ZenonT(30) DEF Granted
  <2>9. Tip' = LastSeq'
    <3>1. Tip' = byteBuffer.number
      BY <2>5, <2>8, Zenon DEF Tip
    <3>2. LastSeq' = write.frame.number
      BY <1>0, <2>2, <2>3 DEF LastSeq
    <3> QED
      BY <2>2, <3>1, <3>2, Zenon
  <2>10. PICK k : k = Len(Stream) /\ k \in Nat
    BY <1>0, Zenon
  <2>11. Chained(k + 1)'
    <3>1. byteBuffer.base = Raw \/ (DeltaEncoding /\ byteBuffer.base = LastSeq)
      BY <1>4, <2>6, Zenon DEF ChainInv, BaseInv, Tip
    <3>2. LastSeq = IF k + 1 = 1 THEN 0 ELSE Stream'[k].frame.number
      BY <1>0, <2>3, <2>10 DEF LastSeq
    <3>3. (k + 1) - 1 = k /\ Stream'[k + 1].frame = byteBuffer
      BY <2>2, <2>3, <2>10
    <3> QED
      BY <3>1, <3>2, <3>3, Zenon DEF Chained
  <2>12. ASSUME NEW i \in DOMAIN Stream PROVE Chained(i)'
    <3>1. Chained(i) /\ i \in Nat /\ Stream'[i] = Stream[i]
      BY <1>0, <2>3 DEF ChainInv
    <3>2. i # 1 => Stream'[i - 1] = Stream[i - 1]
      <4>1. i # 1 => i - 1 \in DOMAIN Stream
        BY <1>0
      <4> QED
        BY <2>3, <4>1, Zenon
    <3> QED
      BY <3>1, <3>2, Zenon DEF Chained
  <2>13. \A i \in DOMAIN Stream' : Chained(i)'
    <3>1. \A i \in DOMAIN Stream' : i \in DOMAIN Stream \/ i = k + 1
      BY <1>0, <2>3, <2>10
    <3> QED
      BY <2>11, <2>12, <3>1, Zenon
  <2> QED
    BY <1>1, <2>9, <2>13, Zenon DEF ChainInv
<1> QED
  BY <1>2, <1>3, <1>4, OutcomeSteps, ZenonT(30)

\* batcher.go: without a FlushTimeout, and with a sink that reports an error only for a
\* frame it did not write, every delta frame was XORed with the frame written just
\* before it, whichever flushes and compressions fail: a failure leaves previousState.
THEOREM DeltaChain ==
  ASSUME FlushTimeout = 0, ~FailsAfterWrite
  PROVE  Spec => []ChainIntact
<1>1. Init => ChainInv
  <2> SUFFICES ASSUME Init PROVE ChainInv
    BY Zenon
  <2>1. flights = << >> /\ delivered = << >> /\ outbox = << >> /\ dpc = "idle" /\ baseline = 0
    BY Zenon DEF Init
  <2>2. Stream = << >> /\ Tip = 0 /\ LastSeq = 0
    BY <2>1 DEF Stream, Tip, LastSeq, Granted
  <2> QED
    BY <2>1, <2>2 DEF ChainInv, ErrInv, BaseInv, Sealed
<1>2. FlushInv /\ OrderInv /\ StreamInv /\ ChainInv /\ [Next]_vars => ChainInv'
  BY ChainInvStep, Zenon DEF OrderInv
<1>3. FlushInv /\ ChainInv => ChainIntact
  <2> SUFFICES ASSUME FlushInv, ChainInv, NEW i \in DOMAIN delivered, delivered[i].frame.base # Raw
               PROVE  delivered[i].frame.base = IF i = 1 THEN 0 ELSE delivered[i - 1].frame.number
    BY Zenon DEF ChainIntact
  <2>1. delivered \in Seq(AnyWrite) /\ DOMAIN delivered = 1..Len(delivered) /\ Len(delivered) \in Nat
    BY DEF FlushInv, FlushTypes
  <2>2. \A j \in DOMAIN delivered : j \in DOMAIN Stream /\ Stream[j] = delivered[j]
    BY <2>1, StreamType DEF FlushInv
  <2>3. Chained(i) /\ Stream[i] = delivered[i]
    BY <2>2, Zenon DEF ChainInv
  <2>4. i # 1 => Stream[i - 1] = delivered[i - 1]
    <3>1. i # 1 => i - 1 \in DOMAIN delivered
      BY <2>1
    <3> QED
      BY <2>2, <3>1, Zenon
  <2> QED
    BY <2>3, <2>4, Zenon DEF Chained
<1> QED
  BY <1>1, <1>2, <1>3, StreamInvariant, PTL DEF Spec

-----------------------------------------------------------------------------
(* What the sink was handed                                                *)

ItemsOf(s) == {s[k] : k \in DOMAIN s}

\* The items of a frame are as many as it counts.
LEMMA SizeOfRun ==
  ASSUME NEW s \in Seq(Items), Increasing(s)
  PROVE  IsFiniteSet(ItemsOf(s)) /\ Cardinality(ItemsOf(s)) = Len(s)
<1>1. Len(s) \in Nat /\ DOMAIN s = 1..Len(s) /\ s \in [1..Len(s) -> Items]
  OBVIOUS
<1>2. IsFiniteSet(1..Len(s)) /\ Cardinality(1..Len(s)) = Len(s)
  BY <1>1, FS_Interval, SMTT(30)
<1>3. s \in [1..Len(s) -> ItemsOf(s)] /\ \A x \in ItemsOf(s) : \E k \in 1..Len(s) : s[k] = x
  BY <1>1, Zenon DEF ItemsOf
<1>4. \A k, l \in 1..Len(s) : s[k] = s[l] => k = l
  <2>1. \A k \in 1..Len(s) : s[k] \in Int
    BY <1>1, EngineAssumption DEF Items
  <2> QED
    BY <1>1, <2>1 DEF Increasing
<1>5. s \in Surjection(1..Len(s), ItemsOf(s))
  BY <1>3, Zenon DEF Surjection
<1>6. s \in Injection(1..Len(s), ItemsOf(s))
  BY <1>1, <1>3, <1>4, Zenon DEF Injection, IsInjective
<1> QED
  BY <1>2, <1>5, <1>6, FS_Surjection, Zenon

LEMMA StreamEntries ==
  ASSUME FlushTypes, NEW i \in DOMAIN Stream
  PROVE  \/ \E j \in DOMAIN delivered : Stream[i] = delivered[j]
         \/ \E j \in DOMAIN outbox : Stream[i] = outbox[j]
<1>0. /\ Stream \in Seq(AnyWrite) /\ DOMAIN Stream = 1..Len(Stream) /\ Len(Stream) = Len(delivered) + Len(outbox)
      /\ DOMAIN delivered = 1..Len(delivered) /\ DOMAIN outbox = 1..Len(outbox)
      /\ Len(delivered) \in Nat /\ Len(outbox) \in Nat
  BY StreamType DEF FlushTypes
<1>1. CASE i <= Len(delivered)
  BY <1>0, <1>1, StreamType, SMTT(30)
<1>2. CASE i > Len(delivered)
  <2>1. i - Len(delivered) \in 1..Len(outbox) /\ (i - Len(delivered)) + Len(delivered) = i
    BY <1>0, <1>2
  <2>2. Stream[i] = outbox[i - Len(delivered)]
    BY <2>1, StreamType, Zenon
  <2> QED
    BY <1>0, <2>1, <2>2, Zenon
<1> QED
  BY <1>0, <1>1, <1>2, SMTT(30)

Carried == UNION {ItemsOf(Stream[i].frame.items) : i \in DOMAIN Stream}

\* DeliveredItems is what the stream carries.
ItemsAgree == DeliveredItems = Carried

LEMMA Arrived == FlushTypes => ItemsAgree
<1> SUFFICES ASSUME FlushTypes PROVE DeliveredItems = Carried
  BY Zenon DEF ItemsAgree
<1>0. /\ delivered \in Seq(AnyWrite) /\ outbox \in Seq(AnyWrite) /\ Stream \in Seq(AnyWrite)
      /\ DOMAIN Stream = 1..Len(Stream) /\ Len(Stream) = Len(delivered) + Len(outbox)
      /\ DOMAIN delivered = 1..Len(delivered) /\ DOMAIN outbox = 1..Len(outbox)
      /\ Len(delivered) \in Nat /\ Len(outbox) \in Nat
  BY StreamType DEF FlushTypes
<1> DEFINE D == {delivered[i] : i \in DOMAIN delivered} \cup {outbox[i] : i \in DOMAIN outbox}
           S == {Stream[i] : i \in DOMAIN Stream}
<1>1. D \subseteq S
  BY <1>0, StreamType, Zenon
<1>2. S \subseteq D
  BY StreamEntries, Zenon
<1>3. DeliveredItems = UNION {ItemsOf(d.frame.items) : d \in D}
  BY Zenon DEF DeliveredItems, ItemsOf
<1>4. D = S
  BY <1>1, <1>2, Zenon
<1>5. UNION {ItemsOf(d.frame.items) : d \in S} = Carried
  BY Zenon DEF Carried
<1> HIDE DEF D, S
<1> QED
  BY <1>3, <1>4, <1>5, Zenon

LEMMA ArrivedNext == FlushTypes' => ItemsAgree'
  BY Arrived, PTL

Due == IF Granted THEN n ELSE 0

\* Nothing is counted as flushed that the sink was not handed, the frame the engine is
\* about to count included.
CountInv ==
  /\ flushedItems \in Nat /\ IsFiniteSet(DeliveredItems)
  /\ flushedItems + Due <= Cardinality(DeliveredItems)

LEMMA CountInvStep ==
  ASSUME FlushTimeout >= 0, FlushInv, FlushInv', OrderInv, StreamInv, CountInv, [Next]_vars
  PROVE  CountInv'
<1>0. /\ n \in Nat /\ byteBuffer \in AnyFrame /\ flushedItems \in Nat /\ Cardinality(DeliveredItems) \in Nat
      /\ IsFiniteSet(DeliveredItems) /\ Due \in Nat
  <2>1. byteBuffer \in AnyFrame /\ byteBuffer.items \in Seq(Items)
    BY Zenon DEF FlushInv, FlushTypes, AnyFrame
  <2>2. n \in Nat /\ Due \in Nat
    BY <2>1 DEF n, Due
  <2> QED
    BY <2>1, <2>2, FS_CardinalityType, Zenon DEF CountInv
<1>1. CallInv /\ QueueInv
  BY Zenon DEF OrderInv
<1>2. ASSUME Stream' = Stream PROVE DeliveredItems' = DeliveredItems
  BY <1>2, Arrived, ArrivedNext, ZenonT(30) DEF FlushInv, Carried, ItemsAgree
<1>3. CASE /\ UNCHANGED <<Stream, baseline, flushedItems>>
           /\ Granted' => Granted /\ byteBuffer' = byteBuffer
           /\ Granted => Granted' \/ Timed
  <2>1. Due' = Due \/ Due' = 0
    BY <1>3, Zenon DEF Due, n
  <2> QED
    BY <1>0, <1>2, <1>3, <2>1, SMTT(30) DEF CountInv
<1>4. CASE AwaitResult /\ Granted /\ ~Granted' /\ Stream' = Stream /\ FlushSucceeded
  <2>1. flushedItems' = flushedItems + n /\ Due = n /\ Due' = 0
    BY <1>4, Zenon DEF FlushSucceeded, Due
  <2> QED
    BY <1>0, <1>2, <1>4, <2>1, SMTT(30) DEF CountInv
<1>5. ASSUME NEW f \in 1..MaxPush, SinkWrite(f) \/ CopyingFlush(f), ~Granted,
             Stream' = Append(Stream, [flight |-> f, frame |-> PayloadBuffer])
      PROVE  CountInv'
  <2> DEFINE write == [flight |-> f, frame |-> PayloadBuffer]
             run == flights[f].frame.items
  <2>1. /\ f = Len(flights) /\ f \in DOMAIN flights /\ flights[f].pc = "call" /\ Len(flights') = Len(flights)
        /\ UNCHANGED <<dpc, byteBuffer, flushedItems>>
    BY <1>5, FlightOutcomes, Zenon DEF FlightStep
  <2>2. PayloadBuffer = flights[f].frame /\ PayloadBuffer \in AnyFrame
    BY <2>1, Zenon DEF FlushInv, BufferInv, PayloadBuffer, FlushTypes
  <2>3. run \in Seq(Items) /\ Increasing(run)
    BY <1>1, <2>1, <2>2, ZenonT(30) DEF AnyFrame, CallInv, Older
  <2>4. IsFiniteSet(ItemsOf(run)) /\ Cardinality(ItemsOf(run)) = Len(run) /\ Len(run) \in Nat
    BY <2>3, SizeOfRun, SMTT(30)
  <2>5. /\ Stream \in Seq(AnyWrite) /\ DOMAIN Stream = 1..Len(Stream) /\ Len(Stream) \in Nat
        /\ Stream' = Append(Stream, write) /\ write \in AnyWrite /\ write.frame.items = run
    BY <1>5, <2>2, StreamType, SMTT(30) DEF FlushInv, AnyWrite
  <2> HIDE DEF write
  <2>6. DeliveredItems' = DeliveredItems \cup ItemsOf(run)
    <3>1. /\ DOMAIN Stream' = DOMAIN Stream \cup {Len(Stream) + 1} /\ Stream'[Len(Stream) + 1] = write
          /\ \A i \in DOMAIN Stream : Stream'[i] = Stream[i]
      BY <2>5
    <3>2. Carried' = Carried \cup ItemsOf(write.frame.items)
      BY <3>1 DEF Carried
    <3> QED
      BY <2>5, <3>2, Arrived, ArrivedNext, Zenon DEF FlushInv, ItemsAgree
  <2>7. DeliveredItems \cap ItemsOf(run) = {}
    <3>1. ASSUME NEW i \in DOMAIN Stream PROVE ItemsOf(Stream[i].frame.items) \cap ItemsOf(run) = {}
      <4> DEFINE g == Stream[i].flight
      <4>1. g \in DOMAIN flights /\ flights[g].pc # "call"
        BY Zenon DEF StreamInv
      <4>2. g < f
        BY <2>1, <4>1, SMTT(30) DEF FlushInv, FlushTypes
      <4>3. Stream[i].frame = flights[g].frame
        BY StreamEntries, SMTT(30) DEF FlushInv, WriteInv, Faithful
      <4>4. Before(flights[g].frame.items, run)
        BY <1>1, <2>1, <4>1, <4>2, Zenon DEF CallInv, Precedes
      <4>5. \A k \in DOMAIN run : run[k] \in Int
        BY <2>3, EngineAssumption, SMTT(30) DEF Items
      <4> QED
        BY <4>3, <4>4, <4>5, SMTT(30) DEF Before, ItemsOf
    <3> QED
      BY <3>1, Arrived, Zenon DEF FlushInv, Carried, ItemsAgree
  <2>8. IsFiniteSet(DeliveredItems') /\ Cardinality(DeliveredItems') = Cardinality(DeliveredItems) + Len(run)
    <3>1. Cardinality(DeliveredItems \cap ItemsOf(run)) = 0
      BY <2>7, FS_EmptySet, Zenon
    <3>2. /\ IsFiniteSet(DeliveredItems \cup ItemsOf(run))
          /\ Cardinality(DeliveredItems \cup ItemsOf(run))
               = Cardinality(DeliveredItems) + Cardinality(ItemsOf(run))
                   - Cardinality(DeliveredItems \cap ItemsOf(run))
      BY <1>0, <2>4, FS_Union, Zenon
    <3> QED
      BY <1>0, <2>4, <2>6, <3>1, <3>2, SMTT(30)
  <2>9. Due = 0 /\ (Due' = 0 \/ Due' = Len(run))
    <3>1. dpc = "await" => n = Len(run)
      BY <1>1, <2>1, Zenon DEF CallInv, Awaited, n
    <3>2. n' = n /\ (Granted' => dpc = "await")
      BY <2>1, Zenon DEF n, Granted
    <3> QED
      BY <1>5, <3>1, <3>2, Zenon DEF Due
  <2> HIDE DEF run
  <2> QED
    BY <1>0, <2>1, <2>4, <2>8, <2>9, SMTT(30) DEF CountInv
<1> QED
  BY <1>1, <1>3, <1>4, <1>5, OutcomeSteps, ZenonT(30)

\* batcher.go: FlushedItems never runs ahead of the sink, late and abandoned calls
\* included, and every sequence number, up to a wrap, is a flushed batch, a flush
\* error, a reported compression error or the frame in progress.
THEOREM CountersAreHonest == ASSUME FlushTimeout >= 0 PROVE Spec => []CountersAgree
<1>1. Init => CountInv
  <2> SUFFICES ASSUME Init PROVE CountInv
    BY Zenon
  <2>1. delivered = << >> /\ outbox = << >> /\ dpc = "idle" /\ flushedItems = 0
    BY Zenon DEF Init
  <2>2. DeliveredItems = {}
    BY <2>1 DEF DeliveredItems
  <2> QED
    BY <2>1, <2>2, FS_EmptySet DEF CountInv, Due, Granted
<1>2. FlushInv /\ FlushInv' /\ OrderInv /\ StreamInv /\ CountInv /\ [Next]_vars => CountInv'
  BY CountInvStep, Zenon
<1>3. FlushInv /\ LedgerInv /\ CountInv => CountersAgree
  <2> SUFFICES ASSUME FlushInv, LedgerInv, CountInv PROVE CountersAgree
    BY Zenon
  <2>1. flushedItems <= Cardinality(DeliveredItems)
    <3>1. byteBuffer.items \in Seq(Items)
      BY Zenon DEF FlushInv, FlushTypes, AnyFrame
    <3>2. Due \in Nat /\ flushedItems \in Nat /\ Cardinality(DeliveredItems) \in Nat
      BY <3>1, FS_CardinalityType DEF CountInv, Due, n
    <3> QED
      BY <3>2 DEF CountInv
  <2>2. sealed = flushedBatches + flushErrs + compressReports
                       + (IF dpc \in {"compress", "flush", "await"} THEN 1 ELSE 0)
    BY Zenon DEF LedgerInv, FrameLedger, InProgress
  <2>3. Wrapped(sequenceID, sealed)
    BY Zenon DEF FlushInv, FlushTypes
  <2> QED
    BY <2>1, <2>2, <2>3, Zenon DEF CountersAgree, Wrapped
<1> QED
  BY <1>1, <1>2, <1>3, LedgerInvariant, PTL DEF Spec

-----------------------------------------------------------------------------
(* The types                                                               *)

\* The labels and flags of the loop and of the drain.
ControlInv ==
  /\ ctx \in {"live", "cancelled"} /\ {shutdownDue, drainDone, flushInFlight} \subseteq BOOLEAN
  /\ mpc \in {"off", "select", "tick", "final", "finalWait", "exited"}
  /\ dpc \in {"idle", "pop", "marshal", "seal", "compress", "flush", "await"}
  /\ keyframeN = 0 \/ keyframeN \in 1..(KeyframeInterval - 1)

\* Numbers of frames, wherever a frame went, are bounded by the items there were.
Numbered(frame) == frame.number \in 0..MaxPush /\ frame.base \in {Raw} \cup 0..MaxPush

NumberInv ==
  /\ baseline \in 0..MaxPush /\ Numbered(byteBuffer) /\ Numbered(timeoutBuf)
  /\ \A f \in DOMAIN flights : Numbered(flights[f].frame)
  /\ \A i \in DOMAIN Stream : Numbered(Stream[i].frame)

SnapshotInv ==
  stats \in [{"Dropped", "Evicted", "Truncated", "FlushedItems", "tail", "head"} -> 0..MaxPush]

\* Of p items pushed, d were dropped, g left the ring (l lost, t taken), q are queued.
LEMMA Accounted ==
  ASSUME NEW p \in Nat, NEW d \in Nat, NEW g, NEW q \in Nat, NEW l \in Nat, NEW t \in Nat,
         NEW m \in Nat, p <= m, p = d + g + q, g = l + t
  PROVE  t <= m /\ g \in 0..m /\ d \in 0..m /\ p - d \in 0..m /\ l \in 0..m
  OBVIOUS

\* No counter outruns the items that were pushed.
LEMMA CountersBounded ==
  ASSUME FlushInv, OrderInv, LedgerInv
  PROVE  /\ MaxPush \in Nat /\ pushes \in 0..MaxPush /\ dropped \in 0..MaxPush /\ Gone \in 0..MaxPush
         /\ evicted \in 0..MaxPush /\ pushes - dropped \in 0..MaxPush
         /\ sealed \in 0..MaxPush /\ truncated \in 0..MaxPush /\ flushedItems \in 0..MaxPush
         /\ flushedBatches \in 0..MaxPush /\ flushErrs \in 0..MaxPush /\ compressReports \in 0..MaxPush
         /\ dpc = "seal" /\ n # 0 => sealed + 1 \in 0..MaxPush
<1>1. /\ n \in Nat /\ Taken \in Nat /\ Len(queue) \in Nat /\ pushes \in Nat /\ sealed \in Nat
      /\ Cardinality(lost) \in Nat /\ MaxPush \in Nat
  <2>1. /\ byteBuffer.items \in Seq(Items) /\ received[Drainer] \in Seq(Items) /\ queue \in Seq(Items)
        /\ pushes \in Nat /\ sealed \in Nat
    BY Zenon DEF FlushInv, FlushTypes, AnyFrame
  <2>2. n \in Nat /\ Taken \in Nat /\ Len(queue) \in Nat
    BY <2>1 DEF n, Taken
  <2>3. Cardinality(lost) \in Nat
    BY <2>1, LostFinite, Zenon DEF OrderInv
  <2>4. MaxPush \in Nat
    BY EngineAssumption, Zenon
  <2> QED
    BY <2>1, <2>2, <2>3, <2>4, Zenon
<1>2. /\ dropped \in Nat /\ pushes <= MaxPush /\ pushes = dropped + Gone + Len(queue)
      /\ Gone = Cardinality(lost) + Taken
  BY Zenon DEF LedgerInv, RingLedger, Gone, Taken
<1>3. Taken <= MaxPush /\ Gone \in 0..MaxPush /\ dropped \in 0..MaxPush /\ pushes - dropped \in 0..MaxPush
      /\ Cardinality(lost) \in 0..MaxPush
  BY <1>1, <1>2, Accounted, Zenon
<1>4. /\ truncated \in Nat /\ flushedItems \in Nat /\ flushedBatches \in Nat /\ flushErrs \in Nat
      /\ compressReports \in Nat
      /\ flushedItems + truncated + InFrame + Claimed <= Taken
      /\ sealed + truncated + Unsealed + Claimed <= Taken
      /\ sealed = flushedBatches + flushErrs + compressReports + InProgress
  BY Zenon DEF LedgerInv, FrameLedger, CounterTypes
<1>5. InFrame \in Nat /\ Claimed \in Nat /\ Unsealed \in Nat /\ InProgress \in Nat
  BY <1>1, Zenon DEF InFrame, Claimed, Unsealed, InProgress
<1>6. dpc = "seal" /\ n # 0 => Unsealed >= 1
  BY <1>1 DEF Unsealed
<1>7. truncated <= Taken /\ flushedItems <= Taken /\ sealed <= Taken
      /\ (dpc = "seal" /\ n # 0 => sealed + 1 <= Taken)
  BY <1>1, <1>4, <1>5, <1>6, SMTT(30)
<1>8. flushedBatches <= sealed /\ flushErrs <= sealed /\ compressReports <= sealed
  BY <1>1, <1>4, <1>5
<1>9. sealed \in 0..MaxPush /\ truncated \in 0..MaxPush /\ flushedItems \in 0..MaxPush
      /\ (dpc = "seal" /\ n # 0 => sealed + 1 \in 0..MaxPush)
  BY <1>1, <1>3, <1>4, <1>7, SMTT(30)
<1>10. flushedBatches \in 0..MaxPush /\ flushErrs \in 0..MaxPush /\ compressReports \in 0..MaxPush
  BY <1>1, <1>4, <1>8, <1>9, SMTT(30)
<1>11. evicted \in 0..MaxPush /\ pushes \in 0..MaxPush
  <2>1. evicted \in Nat /\ evicted <= Cardinality(lost)
    BY Zenon DEF LedgerInv, SlotLedger
  <2> QED
    BY <1>1, <1>2, <1>3, <2>1, SMTT(30)
<1> QED
  BY <1>1, <1>3, <1>9, <1>10, <1>11, Zenon

LEMMA ControlStep ==
  ASSUME ControlInv, [Next]_vars
  PROVE  ControlInv'
<1>0. KeyframeInterval \in Nat
  BY EngineAssumption, Zenon
<1>1. CASE ProducerStep \/ Transmit \/ StatsLoad \/ UNCHANGED vars
  <2>1. UNCHANGED <<ctx, mpc, shutdownDue, drainDone, dpc, keyframeN, flushInFlight>>
    BY <1>1, ProducersKeep, ZenonT(30) DEF NotProducer, Transmit, OutsideSink,
                StatsLoad, loopVars, flushVars, flightVars, vars
  <2> QED
    BY <2>1, Zenon DEF ControlInv
<1>2. CASE LoopStep
  <2>1. /\ UNCHANGED <<keyframeN, drainDone, flushInFlight>>
        /\ ctx' \in {ctx, "cancelled"} /\ dpc' \in {dpc, "pop"} /\ shutdownDue' \in {shutdownDue, TRUE}
        /\ mpc' \in {mpc, "select", "tick", "final", "finalWait", "exited"}
    BY <1>2, ZenonT(30) DEF LoopStep, Start, Cancel, Tick, CtxDone, BeginDrain, ShutdownDeadline, FinalReturn, flushVars,
                flightVars
  <2> QED
    BY <2>1, ZenonT(30) DEF ControlInv
<1>3. ASSUME NEW f \in 1..MaxPush, FlightStep(f) PROVE ControlInv'
  <2>1. UNCHANGED <<ctx, mpc, shutdownDue, drainDone, dpc, keyframeN>> /\ flushInFlight' \in {flushInFlight, FALSE}
    BY <1>3, ZenonT(30) DEF FlightStep, SinkWrite, CopyingFlush, SinkFail, Send, Clear, OutsideSink, loopVars, flushVars
  <2> QED
    BY <2>1, Zenon DEF ControlInv
<1>4. CASE DrainStep
  <2>1. ctx' = ctx /\ shutdownDue' = shutdownDue
    BY <1>4, Zenon DEF DrainStep, PopClaim, Marshal, StopDrain, DrainEmpty, Seal, Compress, CompressFails, Flush,
                FlushBusy, AwaitResult, AwaitTimeout, EndDrain, loopVars
  <2>2. EndDrain \/ UNCHANGED <<drainDone, mpc>>
    BY <1>4, Zenon DEF DrainStep, PopClaim, Marshal, StopDrain, DrainEmpty, Seal, Compress, CompressFails, Flush,
                FlushBusy, AwaitResult, AwaitTimeout, loopVars
  <2>9. drainDone' \in BOOLEAN
    <3>1. EndDrain => drainDone' = (mpc \in {"finalWait", "exited"})
      BY Zenon DEF EndDrain
    <3>2. (mpc \in {"finalWait", "exited"}) \in BOOLEAN
      OBVIOUS
    <3>3. drainDone \in BOOLEAN
      BY Zenon DEF ControlInv
    <3>4. ~EndDrain => drainDone' = drainDone
      BY <2>2, ZenonT(30)
    <3> QED
      BY <3>1, <3>2, <3>3, <3>4, ZenonT(30)
  <2>10. mpc' \in {mpc, "select", "exited"}
    BY <2>2, Zenon DEF EndDrain
  <2>3. dpc' \in {"idle", "pop", "marshal", "seal", "compress", "flush", "await"}
    BY <1>4, Zenon DEF DrainStep, PopClaim, Marshal, StopDrain, DrainEmpty, Seal, Compress, CompressFails, Flush,
                FlushBusy, AwaitResult, AwaitTimeout, EndDrain
  <2>4. flushInFlight' \in {flushInFlight, Timed}
    BY <1>4, Zenon DEF DrainStep, PopClaim, Marshal, StopDrain, DrainEmpty, Seal, Compress, CompressFails, Flush,
                FlushBusy, AwaitResult, AwaitTimeout, flightVars
  <2>5. keyframeN' \in {keyframeN, NextKeyframeN}
    BY <1>4, Zenon DEF DrainStep, PopClaim, Marshal, StopDrain, DrainEmpty, Seal, Compress, CompressFails, Flush,
                FlushBusy, AwaitResult, AwaitTimeout, FlushSucceeded, FlushFailed, flushVars
  <2>6. keyframeN' = 0 \/ keyframeN' \in 1..(KeyframeInterval - 1)
    BY <1>0, <2>5 DEF ControlInv, NextKeyframeN
  <2>7. Timed \in BOOLEAN
    BY Zenon DEF Timed
  <2>8. {shutdownDue', drainDone', flushInFlight'} \subseteq BOOLEAN
    <3>1. shutdownDue \in BOOLEAN /\ drainDone \in BOOLEAN /\ flushInFlight \in BOOLEAN
      BY Zenon DEF ControlInv
    <3>2. flushInFlight' \in BOOLEAN
      BY <2>4, <2>7, <3>1, ZenonT(30)
    <3> QED
      BY <2>1, <2>9, <3>1, <3>2, ZenonT(30)
  <2> QED
    BY <2>1, <2>10, <2>3, <2>6, <2>8, Zenon DEF ControlInv
<1> QED
  BY <1>1, <1>2, <1>3, <1>4, Zenon DEF Next

LEMMA SnapshotStep ==
  ASSUME FlushInv, OrderInv, LedgerInv, SnapshotInv, [Next]_vars
  PROVE  SnapshotInv'
<1>1. CASE UNCHANGED stats
  BY <1>1, ZenonT(30) DEF SnapshotInv
<1>2. CASE StatsLoad
  <2>1. /\ dropped \in 0..MaxPush /\ evicted \in 0..MaxPush /\ truncated \in 0..MaxPush
        /\ flushedItems \in 0..MaxPush /\ pushes - dropped \in 0..MaxPush /\ Gone \in 0..MaxPush
        /\ MaxPush \in Nat
    BY CountersBounded, Zenon
  <2>2. /\ dropped \in Nat /\ evicted \in Nat /\ truncated \in Nat /\ flushedItems \in Nat
        /\ pushes - dropped \in Nat /\ Gone \in Nat /\ StatTypes /\ loads \in 0..6
    BY <2>1 DEF LedgerInv, StatsInv
  <2>3. \/ stats' = [stats EXCEPT !["Dropped"] = dropped]
        \/ stats' = [stats EXCEPT !["Evicted"] = evicted]
        \/ stats' = [stats EXCEPT !["Truncated"] = truncated]
        \/ stats' = [stats EXCEPT !["FlushedItems"] = flushedItems]
        \/ stats' = [stats EXCEPT !["tail"] = pushes - dropped]
        \/ stats' = [stats EXCEPT !["head"] = Gone]
    BY <1>2, <2>2, LoadSteps, Zenon
  <2>4. ASSUME NEW v \in 0..MaxPush,
               NEW field \in {"Dropped", "Evicted", "Truncated", "FlushedItems", "tail", "head"},
               stats' = [stats EXCEPT ![field] = v]
        PROVE  SnapshotInv'
    BY <2>4, Zenon DEF SnapshotInv
  <2> QED
    BY <2>1, <2>3, <2>4, Zenon
<1>3. CASE ProducerStep \/ LoopStep
  BY <1>1, <1>3, ProducersKeep, Zenon DEF NotProducer, LoopStep, Start, Cancel,
              Tick, CtxDone, BeginDrain, ShutdownDeadline, FinalReturn, loopVars, statsVars
<1>4. CASE DrainStep
  BY <1>1, <1>4, Zenon DEF DrainStep, PopClaim, Marshal, StopDrain, DrainEmpty, Seal, Compress, CompressFails, Flush,
              FlushBusy, AwaitResult, AwaitTimeout, EndDrain, loopVars, statsVars
<1>5. CASE Transmit \/ UNCHANGED vars \/ \E f \in 1..MaxPush : FlightStep(f)
  BY <1>1, <1>5, ZenonT(30) DEF Transmit, FlightStep, SinkWrite, CopyingFlush, SinkFail, Send, Clear, OutsideSink, loopVars,
              statsVars, vars
<1> QED
  BY <1>2, <1>3, <1>4, <1>5, Zenon DEF Next

\* Where the numbers of a frame can come from.
LEMMA NumberSteps ==
  ASSUME FlushInv, OrderInv, LedgerInv, NumberInv, [Next]_vars
  PROVE  Numbered(byteBuffer)' /\ baseline' \in {baseline, byteBuffer.number} /\ timeoutBuf' \in {timeoutBuf, byteBuffer}
<1>0. byteBuffer \in AnyFrame
  BY Zenon DEF FlushInv, FlushTypes
<1>1. baseline' \in {baseline, byteBuffer.number}
  <2>1. CASE DrainStep
    BY <2>1, Zenon DEF DrainStep, PopClaim, Marshal, StopDrain, DrainEmpty, Seal, Compress, CompressFails, Flush,
                FlushBusy, AwaitResult, AwaitTimeout, FlushSucceeded, FlushFailed, flushVars
  <2>2. ASSUME NEW f \in 1..MaxPush, FlightStep(f) PROVE baseline' = baseline
    BY <2>2, FlightOutcomes, Zenon
  <2> QED
    BY <2>1, <2>2, OuterSteps, Zenon DEF Next
<1>2. timeoutBuf' \in {timeoutBuf, byteBuffer}
  <2>1. ASSUME NEW f \in 1..MaxPush, FlightStep(f) PROVE timeoutBuf' = timeoutBuf
    BY <2>1, ZenonT(30) DEF FlightStep, SinkWrite, CopyingFlush, SinkFail, Send, Clear
  <2>2. Flush => timeoutBuf' \in {timeoutBuf, byteBuffer}
    BY ZenonT(30) DEF Flush
  <2> QED
    BY <2>1, <2>2, EngineSteps, Zenon DEF Next
<1>3. Numbered(byteBuffer)'
  <2>1. CASE UNCHANGED byteBuffer
    BY <2>1, ZenonT(30) DEF NumberInv, Numbered
  <2>2. ASSUME NEW s, byteBuffer' = [byteBuffer EXCEPT !.items = s] PROVE Numbered(byteBuffer)'
    BY <1>0, <2>2, Zenon DEF NumberInv, Numbered, AnyFrame
  <2>3. CASE Seal
    <3> DEFINE base == IF DeltaEncoding /\ ~IsKeyframe THEN baseline ELSE Raw
    <3>1. byteBuffer' = [byteBuffer EXCEPT !.number = sealed + 1, !.seq = NextSequenceID, !.base = base]
      BY <2>3, Zenon DEF Seal
    <3>2. sealed + 1 \in 0..MaxPush
      BY <2>3, CountersBounded, Zenon DEF Seal, NothingToFlush
    <3>3. base \in {Raw} \cup 0..MaxPush
      BY Zenon DEF NumberInv
    <3> HIDE DEF base
    <3>4. byteBuffer'.number = sealed + 1 /\ byteBuffer'.base = base
      BY <1>0, <3>1, Zenon DEF AnyFrame
    <3> QED
      BY <3>2, <3>3, <3>4, Zenon DEF Numbered
  <2>4. CASE BeginDrain
    BY <2>2, <2>4, Zenon DEF BeginDrain
  <2>5. ASSUME NEW w \in MarshalResults, Marshal(w) PROVE Numbered(byteBuffer)'
    <3>1. CASE Fits(w)
      <4>1. byteBuffer' = [byteBuffer EXCEPT !.items = Append(byteBuffer.items,
                                                              received[Drainer][Len(received[Drainer])])]
        BY <2>5, <3>1, Zenon DEF Marshal
      <4> QED
        BY <2>2, <4>1, Zenon
    <3>2. CASE ~Fits(w)
      BY <2>1, <2>5, <3>2, Zenon DEF Marshal
    <3> QED
      BY <3>1, <3>2, Zenon
  <2>6. ASSUME NEW f \in 1..MaxPush, FlightStep(f) PROVE Numbered(byteBuffer)'
    BY <2>1, <2>6, FlightOutcomes, Zenon
  <2>7. CASE Push \/ PushDropped \/ EvictOldest \/ PopClaim \/ Flush
    BY <2>1, <2>7, ProducersKeep, Zenon DEF ProducerStep, NotProducer, PopClaim, Flush, frameVars
  <2> QED
    BY <2>1, <2>3, <2>4, <2>5, <2>6, <2>7, OrderSteps, Zenon DEF frameVars
<1> QED
  BY <1>1, <1>2, <1>3, Zenon

LEMMA NumberStep ==
  ASSUME FlushInv, OrderInv, StreamInv, LedgerInv, NumberInv, [Next]_vars
  PROVE  NumberInv'
<1>1. Numbered(byteBuffer) /\ Numbered(timeoutBuf) /\ Numbered(PayloadBuffer)
  BY Zenon DEF NumberInv, PayloadBuffer
<1>2. Numbered(byteBuffer)' /\ baseline' \in 0..MaxPush
  BY <1>1, NumberSteps, ZenonT(30) DEF NumberInv, Numbered
<1>3. Numbered(timeoutBuf)'
  BY <1>1, NumberSteps, Zenon DEF Numbered
<1>4. \A f \in DOMAIN flights' : Numbered(flights'[f].frame)
  <2>1. flights \in Seq(AnyFlight) /\ DOMAIN flights = 1..Len(flights) /\ Len(flights) \in Nat
    BY DEF FlushInv, FlushTypes
  <2>2. \A f \in DOMAIN flights : Numbered(flights[f].frame)
    BY Zenon DEF NumberInv
  <2>3. CASE Flush
    <3> DEFINE flight == [pc |-> "call", frame |-> byteBuffer, err |-> FALSE]
    <3>1. flights' = Append(flights, flight) /\ flight \in AnyFlight /\ flight.frame = byteBuffer
      BY <2>3, Zenon DEF Flush, AnyFlight, FlushInv, FlushTypes
    <3> HIDE DEF flight
    <3>2. \A f \in DOMAIN flights' : (f \in DOMAIN flights /\ flights'[f] = flights[f]) \/ flights'[f] = flight
      BY <2>1, <3>1, SMTT(30)
    <3> QED
      BY <1>1, <2>2, <3>1, <3>2, Zenon
  <2>4. ASSUME NEW f \in 1..MaxPush, FlightStep(f) PROVE \A g \in DOMAIN flights' : Numbered(flights'[g].frame)
    <3>1. /\ DOMAIN flights' = DOMAIN flights
          /\ \A g \in DOMAIN flights : flights'[g].frame = flights[g].frame
      BY <2>1, <2>4, FlightMoves, SMTT(30) DEF FlushInv, Moves
    <3> QED
      BY <2>2, <3>1, Zenon
  <2>5. CASE UNCHANGED flights
    BY <2>2, <2>5, Zenon
  <2> QED
    BY <2>3, <2>4, <2>5, EngineSteps, Zenon DEF Next
<1>5. \A i \in DOMAIN Stream' : Numbered(Stream'[i].frame)
  <2>1. Stream \in Seq(AnyWrite) /\ FlushTypes
    BY StreamType, Zenon DEF FlushInv
  <2>2. \A i \in DOMAIN Stream : Numbered(Stream[i].frame)
    BY Zenon DEF NumberInv
  <2>3. ASSUME NEW f \in 1..MaxPush, Stream' = Append(Stream, [flight |-> f, frame |-> PayloadBuffer])
        PROVE  \A i \in DOMAIN Stream' : Numbered(Stream'[i].frame)
    <3> DEFINE write == [flight |-> f, frame |-> PayloadBuffer]
    <3>1. write \in AnyWrite /\ write.frame = PayloadBuffer /\ Stream' = Append(Stream, write)
      BY <2>1, <2>3, SMTT(30) DEF PayloadBuffer, FlushTypes, AnyWrite
    <3> HIDE DEF write
    <3>2. \A i \in DOMAIN Stream' : (i \in DOMAIN Stream /\ Stream'[i] = Stream[i]) \/ Stream'[i] = write
      BY <2>1, <3>1
    <3> QED
      BY <1>1, <2>2, <3>1, <3>2, Zenon
  <2> QED
    BY <2>1, <2>2, <2>3, StreamSteps, ZenonT(30)
<1> QED
  BY <1>2, <1>3, <1>4, <1>5, ZenonT(30) DEF NumberInv, Numbered

LEMMA Retyped ==
  ASSUME NEW S, NEW T, NEW s \in Seq(S), \A i \in 1..Len(s) : s[i] \in T
  PROVE  s \in Seq(T)
<1>1. s = [i \in 1..Len(s) |-> s[i]] /\ Len(s) \in Nat
  OBVIOUS
<1>2. s \in [1..Len(s) -> T]
  BY <1>1, ZenonT(30)
<1> QED
  BY <1>1, <1>2

TypeInv == ControlInv /\ NumberInv /\ SnapshotInv /\ SizeInv

LEMMA TypeInvInit == Init => TypeInv
<1> SUFFICES ASSUME Init PROVE TypeInv
  BY Zenon
<1>1. MaxPush \in Nat /\ HeaderSize \in Nat /\ MaxBatchSize \in Nat /\ HeaderSize <= MaxBatchSize /\ MaxCount \in Nat
  BY EngineAssumption, SMTT(30) DEF ValidConfig
<1>2. ControlInv
  <2>1. shutdownDue = FALSE /\ drainDone = FALSE /\ flushInFlight = FALSE
    BY Zenon DEF Init
  <2>2. {shutdownDue, drainDone, flushInFlight} \subseteq BOOLEAN
    BY <2>1, ZenonT(30)
  <2> QED
    BY <2>2, Zenon DEF Init, ControlInv
<1>3. NumberInv
  <2>1. baseline = 0 /\ byteBuffer = NoFrame /\ timeoutBuf = NoFrame /\ flights = << >>
    BY Zenon DEF Init
  <2>2. Stream = << >>
    BY DEF Init, Stream
  <2>3. Numbered(NoFrame)
    BY <1>1, SMTT(30) DEF Numbered, NoFrame
  <2> QED
    BY <1>1, <2>1, <2>2, <2>3, SMTT(30) DEF NumberInv
<1>4. SnapshotInv
  <2>1. stats = [field \in {LoadOrder[k] : k \in DOMAIN LoadOrder} |-> 0]
    BY Zenon DEF Init
  <2> QED
    BY <1>1, <2>1, Fields, SMTT(30) DEF SnapshotInv
<1>5. SizeInv
  <2>1. offset = HeaderSize /\ byteBuffer.items = << >> /\ dpc = "idle"
    BY Zenon DEF Init, NoFrame
  <2> QED
    BY <1>1, <2>1, SMTT(30) DEF SizeInv, n
<1> QED
  BY <1>2, <1>3, <1>4, <1>5, Zenon DEF TypeInv

\* batcher.go: whatever Marshal returns and however calls of the sink linger, the frame
\* stays within its buffer and its 16-bit count, the keyframe cycle below
\* KeyframeInterval, no counter passes the number of Push calls, the sequence number stays
\* within its 32 bits, and what the sink was given came from a call of Flush.
THEOREM EngineTypeCorrect == Spec => []TypeOK
<1>1. FlushInv /\ OrderInv /\ StreamInv /\ LedgerInv /\ TypeInv /\ [Next]_vars => TypeInv'
  BY ControlStep, NumberStep, SnapshotStep, SizeInvStep, Zenon DEF TypeInv
<1>2. FlushInv /\ OrderInv /\ StreamInv /\ LedgerInv /\ TypeInv => TypeOK
  <2> SUFFICES ASSUME FlushInv, OrderInv, StreamInv, LedgerInv, TypeInv PROVE TypeOK
    BY Zenon
  <2>0. FlushTypes /\ Capacity \in Nat
    BY EngineAssumption, Zenon DEF FlushInv
  <2>11. blocked \in 0..MaxPush
    <3>1. blocked \in Nat /\ pushes \in Nat /\ pushes + blocked <= MaxPush
      BY <2>0, Zenon DEF LedgerInv, SlotLedger, FlushTypes
    <3>2. MaxPush \in Nat
      BY EngineAssumption
    <3> QED
      BY <3>1, <3>2
  <2>1. /\ MaxPush \in Nat /\ pushes \in 0..MaxPush /\ dropped \in 0..MaxPush /\ evicted \in 0..MaxPush
        /\ {sealed, truncated, flushedBatches, flushedItems, flushErrs, compressReports} \subseteq 0..MaxPush
    BY CountersBounded, Zenon
  <2>2. lost \subseteq Items /\ pending \subseteq Items
    <3>1. lost \subseteq 1..pushes /\ pending \subseteq 1..pushes
      BY Zenon DEF OrderInv, QueueInv, LedgerInv, RingLedger
    <3>2. 1..pushes \subseteq Items
      BY <2>1 DEF Items
    <3> QED
      BY <3>1, <3>2, Zenon
  <2>3. held \in 0..Capacity /\ evicting \subseteq 1..Capacity
    <3>1. /\ held \in Nat /\ Len(queue) \in Nat /\ Len(queue) + held <= Capacity
          /\ \A d \in evicting : d \in Nat \ {0} /\ Len(queue) + d <= Capacity
      BY <2>0 DEF LedgerInv, RingLedger, SlotLedger, FlushTypes
    <3> QED
      BY <2>0, <3>1, SMTT(30)
  <2>12. SeqSpace \in Nat /\ SeqSpace > 0
    BY EngineAssumption
  <2>13. \A seq, number : number \in Nat /\ Wrapped(seq, number) => seq \in 0..(SeqSpace - 1)
    BY <2>12, DivisionOf, Zenon DEF Wrapped
  <2>14. sequenceID \in 0..(SeqSpace - 1)
    BY <2>0, <2>13, Zenon DEF FlushTypes
  <2>4. \A frame \in AnyFrame : Numbered(frame) => frame \in Frames
    BY <2>13, Zenon DEF Numbered, AnyFrame, Frames
  <2>5. byteBuffer \in Frames /\ timeoutBuf \in Frames /\ baseline \in 0..MaxPush
    BY <2>0, <2>4, Zenon DEF TypeInv, NumberInv, FlushTypes
  <2>6. flights \in Seq([pc : {"call", "send", "clear", "end"}, frame : Frames, err : BOOLEAN])
    <3>1. flights \in Seq(AnyFlight) /\ DOMAIN flights = 1..Len(flights)
      BY <2>0, SMTT(30) DEF FlushTypes
    <3>2. \A f \in DOMAIN flights : flights[f] \in AnyFlight /\ Numbered(flights[f].frame)
      BY <3>1 DEF TypeInv, NumberInv
    <3>3. \A call \in AnyFlight : Numbered(call.frame)
            => call \in [pc : {"call", "send", "clear", "end"}, frame : Frames, err : BOOLEAN]
      BY <2>4, ZenonT(30) DEF AnyFlight
    <3> QED
      BY <3>1, <3>2, <3>3, Retyped, ZenonT(30)
  <2>7. outbox \in Seq([flight : DOMAIN flights, frame : Frames])
        /\ delivered \in Seq([flight : DOMAIN flights, frame : Frames])
    <3>1. Stream \in Seq(AnyWrite) /\ outbox \in Seq(AnyWrite) /\ delivered \in Seq(AnyWrite)
      BY <2>0, StreamType, Zenon DEF FlushTypes
    <3>2. \A i \in 1..Len(Stream) : /\ Stream[i] \in AnyWrite /\ Numbered(Stream[i].frame)
                                   /\ Stream[i].flight \in DOMAIN flights
      BY <3>1, SMTT(30) DEF StreamInv, TypeInv, NumberInv
    <3>3. \A write \in AnyWrite : Numbered(write.frame) /\ write.flight \in DOMAIN flights
            => write \in [flight : DOMAIN flights, frame : Frames]
      BY <2>4, Zenon DEF AnyWrite
    <3>4. \A i \in 1..Len(Stream) : Stream[i] \in [flight : DOMAIN flights, frame : Frames]
      BY <3>2, <3>3, ZenonT(30)
    <3>5. \A i \in 1..Len(delivered) : i \in 1..Len(Stream) /\ Stream[i] = delivered[i]
      BY <2>0, StreamType, Zenon
    <3>6. \A i \in 1..Len(outbox) : /\ i + Len(delivered) \in 1..Len(Stream)
                                   /\ Stream[i + Len(delivered)] = outbox[i]
      BY <2>0, StreamType, ZenonT(30)
    <3>7. \A i \in 1..Len(delivered) : delivered[i] \in [flight : DOMAIN flights, frame : Frames]
      BY <3>4, <3>5, Zenon
    <3>8. \A i \in 1..Len(outbox) : outbox[i] \in [flight : DOMAIN flights, frame : Frames]
      BY <3>4, <3>6, Zenon
    <3> QED
      BY <3>1, <3>7, <3>8, Retyped, ZenonT(30)
  <2>8. loads \in 0..Len(LoadOrder) /\ stats \in [{LoadOrder[k] : k \in DOMAIN LoadOrder} -> 0..MaxPush]
    BY Fields, Zenon DEF LedgerInv, StatsInv, TypeInv, SnapshotInv
  <2>9. /\ queue \in Seq(Items) /\ received \in [{Drainer} -> Seq(Items)]
    BY <2>0, Zenon DEF FlushTypes
  <2>10. ControlInv /\ SizeInv
    BY Zenon DEF TypeInv
  <2> HIDE DEF Frames, Items
  <2> QED
    BY <2>1, <2>2, <2>3, <2>5, <2>6, <2>7, <2>8, <2>9, <2>10, <2>11, <2>14, ZenonT(30) DEF TypeOK, ControlInv, SizeInv
<1> QED
  BY <1>1, <1>2, TypeInvInit, LedgerInvariant, PTL DEF Spec

=============================================================================
