---------------------------- MODULE EngineProofs ----------------------------
(***************************************************************************)
(* The flush path of batcher.go is right for every QueueSize of two or     *)
(* more, buffer size, number of items and policy, with and without         *)
(* FlushTimeout and ShutdownTimeout: calls of Sink.Flush do not overlap, a *)
(* late one writes the frame it was called with, and none outlives a clean *)
(* shutdown.                                                               *)
(***************************************************************************)
EXTENDS Engine, TLAPS

\* A sequence number is the frame's own number as far as 32 bits hold it.
Wrapped(seq, number) == seq = number % SeqSpace

AnyFrame  ==
  {f \in [number : Nat, seq : Nat, items : Seq(Items), base : Int] : Wrapped(f.seq, f.number)}
AnyFlight == [pc : {"call", "send", "clear", "end"}, frame : AnyFrame, err : BOOLEAN]
AnyWrite  == [flight : Nat, frame : AnyFrame]

\* The types the argument needs.
FlushTypes ==
  /\ queue \in Seq(Items) /\ received \in [{Drainer} -> Seq(Items)]
  /\ dpc = "marshal" => Len(received[Drainer]) > 0
  /\ pushes \in Nat /\ blocked \in Nat /\ sealed \in Nat /\ baseline \in Nat
  /\ Wrapped(sequenceID, sealed)
  /\ byteBuffer \in AnyFrame /\ timeoutBuf \in AnyFrame
  /\ flights \in Seq(AnyFlight)
  /\ outbox \in Seq(AnyWrite) /\ delivered \in Seq(AnyWrite)

\* The loop waits only between drains, and a drain that is over does not resume.
DrainInv ==
  /\ mpc \in {"off", "select"} => dpc = "idle"
  /\ drainDone => dpc = "idle" /\ mpc \in {"finalWait", "exited"}
  /\ mpc = "exited" /\ ~shutdownDue => dpc = "idle"

\* Only the last call may not have ended; while it has not, a timed call keeps
\* flushInFlight set and a direct call keeps the drain waiting.
FlightInv ==
  \A f \in DOMAIN flights :
    flights[f].pc # "end"
      => /\ f = Len(flights)
         /\ Timed => flushInFlight
         /\ ~Timed => dpc = "await" /\ flights[f].pc = "call"

\* The buffer a call reads holds the frame it was called with.
BufferInv ==
  \A f \in DOMAIN flights : flights[f].pc = "call" => PayloadBuffer = flights[f].frame

Faithful(w) == w.flight \in DOMAIN flights /\ w.frame = flights[w.flight].frame

\* What was written or is yet to be transmitted is what a call was given.
WriteInv ==
  /\ \A i \in DOMAIN delivered : Faithful(delivered[i])
  /\ \A i \in DOMAIN outbox : Faithful(outbox[i])

FlushInv ==
  /\ FlushTypes /\ DrainInv /\ FlightInv
  /\ FlushTimeout >= 0 => BufferInv /\ WriteInv

LEMMA FlushInvInit == Init => FlushInv
<1> SUFFICES ASSUME Init PROVE FlushInv
  BY Zenon
<1>0. Wrapped(0, 0)
  <2>1. SeqSpace \in Nat /\ SeqSpace > 0
    BY EngineAssumption
  <2> QED BY <2>1 DEF Wrapped
<1>1. NoFrame \in AnyFrame
  BY <1>0 DEF NoFrame, AnyFrame, Raw
<1>2. FlushTypes
  BY <1>0, <1>1 DEF Init, FlushTypes, Ring!SlotInit, Ring!Init
<1>3. DrainInv /\ FlightInv
  BY DEF Init, DrainInv, FlightInv
<1>4. BufferInv /\ WriteInv
  BY DEF Init, BufferInv, WriteInv
<1> QED
  BY <1>2, <1>3, <1>4, Zenon DEF FlushInv

-----------------------------------------------------------------------------
(* The steps of the ring, as the engine takes them                         *)

LEMMA PushStep ==
  ASSUME Push
  PROVE  /\ Producing /\ ~Ring!NoFreeSlot
         /\ queue' = Append(queue, pushes + 1) /\ pushes' = pushes + 1
         /\ pending' = pending \cup {pushes + 1}
         /\ UNCHANGED <<received, lost, held, evicting, blocked, evicted, dropped>> /\ NotProducer
BY Zenon DEF Push, Ring!Claim, Ring!Enqueue

LEMMA DropStep ==
  ASSUME PushDropped
  PROVE  /\ blocked > 0 /\ blocked' = blocked - 1 /\ pushes' = pushes + 1 /\ dropped' = dropped + 1
         /\ UNCHANGED <<queue, received, lost, pending, held, evicting, evicted>> /\ NotProducer
BY Zenon DEF PushDropped, queueVars

LEMMA EvictStep ==
  ASSUME EvictOldest
  PROVE  /\ blocked > 0 /\ blocked' = blocked - 1
         /\ queue # << >> /\ queue' = Tail(queue) /\ lost' = lost \cup {Head(queue)}
         /\ held' = (IF held = 0 THEN 0 ELSE held + 1)
         /\ evicting' = {d + 1 : d \in evicting} \cup {1}
         /\ UNCHANGED <<received, pending, evicted, pushes, dropped>> /\ NotProducer
BY Zenon DEF EvictOldest, Ring!EvictHead, Ring!Evict, Ring!Farther

LEMMA TakeStep ==
  ASSUME PopClaim
  PROVE  /\ dpc = "pop" /\ dpc' = "marshal" /\ RoomForItem
         /\ queue # << >> /\ queue' = Tail(queue)
         /\ received' = [received EXCEPT ![Drainer] = Append(@, Head(queue))]
         /\ held' = 1 /\ evicting' = {d + 1 : d \in evicting}
         /\ UNCHANGED <<lost, pending, blocked, evicted, pushes, dropped, loopVars, frameVars, flushVars, flightVars>>
BY Zenon DEF PopClaim, Ring!Take, Ring!Dequeue, Ring!Farther

LEMMA ReleaseStep ==
  ASSUME NEW w \in MarshalResults, Marshal(w)
  PROVE  /\ held' = 0
         /\ UNCHANGED <<queue, received, lost, pending, evicting, blocked, evicted, pushes, dropped>>
BY Zenon DEF Marshal, Ring!Release, Ring!vars

\* The other steps of producers leave the queue as it is.
LEMMA QuietStep ==
  ASSUME PushFull \/ Publish \/ EvictNothing \/ EvictRecycle \/ EvictCount
  PROVE  /\ UNCHANGED <<queue, received, lost, held, pushes, dropped>> /\ NotProducer
         /\ pending' \subseteq pending /\ evicting' \subseteq evicting
         /\ evicted' = evicted \/ EvictCount
         /\ \/ PushFull /\ Producing /\ blocked' = blocked + 1
            \/ blocked' = blocked
            \/ blocked > 0 /\ blocked' = blocked - 1
<1>1. CASE PushFull \/ EvictNothing \/ EvictCount
  BY <1>1, Zenon DEF PushFull, EvictNothing, EvictCount, queueVars
<1>2. CASE Publish
  BY <1>2, Zenon DEF Publish, Ring!Publish, Ring!vars
<1>3. CASE EvictRecycle
  BY <1>3, Zenon DEF EvictRecycle, Ring!Recycle, Ring!vars
<1> QED
  BY <1>1, <1>2, <1>3, Zenon

LEMMA ProducersKeep == ASSUME ProducerStep PROVE NotProducer /\ received' = received
BY PushStep, DropStep, EvictStep, QuietStep, Zenon DEF ProducerStep

-----------------------------------------------------------------------------
(* Types                                                                   *)

\* Multiples of N that differ are N or more apart, so remainders are unique.
LEMMA MultiplesApart ==
  ASSUME NEW N \in Nat, NEW a \in Nat, NEW b \in Nat, a < b
  PROVE  N * b >= N * a + N
<1> DEFINE d == b - a - 1
<1>1. d \in Nat /\ b = a + 1 + d
  OBVIOUS
<1>2. N * d >= 0
  BY <1>1
<1>3. N * b = N * a + N + N * d
  BY <1>1
<1> HIDE DEF d
<1>4. N * b \in Int /\ N * a \in Int /\ N * d \in Int
  BY <1>1
<1> QED BY <1>2, <1>3, <1>4

LEMMA RemainderUnique ==
  ASSUME NEW N \in Nat, NEW a \in Nat, NEW b \in Nat,
         NEW r \in 0..(N - 1), NEW s \in 0..(N - 1), N * a + r = N * b + s
  PROVE  r = s
<1>0. N * a \in Int /\ N * b \in Int
  OBVIOUS
<1>1. CASE a = b
  BY <1>0, <1>1
<1>2. CASE a < b
  <2>1. N * b >= N * a + N
    BY <1>2, MultiplesApart, Zenon
  <2> QED BY <1>0, <2>1
<1>3. CASE b < a
  <2>1. N * a >= N * b + N
    BY <1>3, MultiplesApart, Zenon
  <2> QED BY <1>0, <2>1
<1> QED BY <1>1, <1>2, <1>3

LEMMA DivisionOf ==
  ASSUME NEW N \in Nat, N > 0, NEW a \in Nat
  PROVE  a \div N \in Nat /\ a % N \in 0..(N - 1) /\ a = N * (a \div N) + (a % N)
OBVIOUS

\* Counting modulo N from a remainder is counting from the number.
LEMMA WrapsAround ==
  ASSUME NEW N \in Nat, N > 0, NEW a \in Nat
  PROVE  ((a % N) + 1) % N = (a + 1) % N
<1> DEFINE q == a \div N
           r == a % N
           p == (r + 1) \div N
           t == (r + 1) % N
           b == (a + 1) \div N
           u == (a + 1) % N
<1>1. q \in Nat /\ r \in 0..(N - 1) /\ a = N * q + r
  BY DivisionOf, Zenon
<1>2. r + 1 \in Nat /\ a + 1 \in Nat
  BY <1>1
<1>3. p \in Nat /\ t \in 0..(N - 1) /\ r + 1 = N * p + t
  BY <1>2, DivisionOf, Zenon
<1>4. b \in Nat /\ u \in 0..(N - 1) /\ a + 1 = N * b + u
  BY <1>2, DivisionOf, Zenon
<1> HIDE DEF q, r, p, t, b, u
<1>5. N * (q + p) = N * q + N * p /\ q + p \in Nat
  BY <1>1, <1>3
<1>6. N * q \in Int /\ N * p \in Int
  BY <1>1, <1>3
<1>7. N * (q + p) + t = N * b + u
  BY <1>1, <1>3, <1>4, <1>5, <1>6
<1>8. t = u
  BY <1>3, <1>4, <1>5, <1>7, RemainderUnique, Zenon
<1> QED
  BY <1>8, Zenon DEF t, u, r

LEMMA SequenceWraps ==
  ASSUME sealed \in Nat, Wrapped(sequenceID, sealed)
  PROVE  Wrapped(NextSequenceID, sealed + 1) /\ NextSequenceID \in Nat
<1>1. SeqSpace \in Nat /\ SeqSpace > 0
  BY EngineAssumption
<1>2. NextSequenceID = ((sealed % SeqSpace) + 1) % SeqSpace
  BY Zenon DEF NextSequenceID, Wrapped
<1>3. ((sealed % SeqSpace) + 1) % SeqSpace = (sealed + 1) % SeqSpace
  BY <1>1, WrapsAround
<1>4. (sealed + 1) % SeqSpace \in Nat
  BY <1>1
<1> QED
  BY <1>2, <1>3, <1>4, Zenon DEF Wrapped

\* The steps of producers and of the loop.
LEMMA OuterTypes ==
  ASSUME FlushTypes, ProducerStep \/ LoopStep \/ StatsLoad
  PROVE  FlushTypes'
<1>1. MaxPush \in Nat
  BY EngineAssumption, Zenon
<1>2. CASE Push
  <2>1. pushes + 1 \in Items
    BY <1>1, <1>2, PushStep DEF Producing, Items, FlushTypes
  <2>2. queue' \in Seq(Items) /\ pushes' \in Nat
    <3>1. queue' = Append(queue, pushes + 1) /\ pushes' = pushes + 1
      BY <1>2, PushStep, Zenon
    <3>2. queue \in Seq(Items) /\ pushes \in Nat
      BY Zenon DEF FlushTypes
    <3> QED
      BY <2>1, <3>1, <3>2
  <2> QED
    BY <1>2, <2>2, PushStep, Zenon DEF FlushTypes, NotProducer, frameVars, flushVars, flightVars
<1>3. CASE PushDropped
  <2>1. pushes' \in Nat /\ blocked' \in Nat
    BY <1>3, DropStep DEF FlushTypes
  <2> QED
    BY <1>3, <2>1, DropStep, Zenon DEF FlushTypes, NotProducer, frameVars, flushVars, flightVars
<1>4. CASE EvictOldest
  <2>1. queue' \in Seq(Items) /\ blocked' \in Nat
    <3>1. blocked > 0 /\ blocked' = blocked - 1 /\ queue # << >> /\ queue' = Tail(queue)
      BY <1>4, EvictStep, Zenon
    <3>2. queue \in Seq(Items) /\ blocked \in Nat
      BY Zenon DEF FlushTypes
    <3> QED
      BY <3>1, <3>2
  <2> QED
    BY <1>4, <2>1, EvictStep, Zenon DEF FlushTypes, NotProducer, frameVars, flushVars, flightVars
<1>7. CASE PushFull \/ Publish \/ EvictNothing \/ EvictRecycle \/ EvictCount
  <2>1. blocked' \in Nat
    BY <1>7, QuietStep DEF FlushTypes
  <2> QED
    BY <1>7, <2>1, QuietStep, Zenon DEF FlushTypes, NotProducer, frameVars, flushVars, flightVars
<1>5. CASE Start \/ Cancel \/ ShutdownDeadline \/ FinalReturn \/ StatsLoad
  BY <1>5, Zenon DEF Start, Cancel, ShutdownDeadline, FinalReturn, StatsLoad, FlushTypes, ringVars,
              frameVars, flushVars, flightVars
<1>6. CASE Tick \/ CtxDone
  <2>1. byteBuffer' \in AnyFrame
    <3>1. byteBuffer' = [byteBuffer EXCEPT !.items = << >>] /\ byteBuffer \in AnyFrame
      BY <1>6, Zenon DEF Tick, CtxDone, BeginDrain, FlushTypes
    <3>2. << >> \in Seq(Items)
      OBVIOUS
    <3> QED
      BY <3>1, <3>2, Zenon DEF AnyFrame
  <2>2. dpc' = "pop" /\ UNCHANGED <<ringVars, sealed, sequenceID, flushVars, flightVars>>
    BY <1>6, Zenon DEF Tick, CtxDone, BeginDrain
  <2> QED
    BY <2>1, <2>2, Zenon DEF FlushTypes, ringVars, flushVars, flightVars
<1> QED
  BY <1>2, <1>3, <1>4, <1>5, <1>6, <1>7, Zenon DEF ProducerStep, LoopStep

\* The steps of the drain.
LEMMA DrainTypes ==
  ASSUME FlushTypes, DrainStep
  PROVE  FlushTypes'
<1>1. CASE PopClaim
  <2>1. Drainer \in {Drainer}
    BY Zenon
  <2>2. /\ queue # << >> /\ queue' = Tail(queue)
        /\ received' = [received EXCEPT ![Drainer] = Append(@, Head(queue))]
        /\ UNCHANGED <<pushes, blocked, frameVars, flushVars, flightVars>>
    BY <1>1, TakeStep, Zenon
  <2>3. queue' \in Seq(Items) /\ Head(queue) \in Items /\ received[Drainer] \in Seq(Items)
    BY <2>2 DEF FlushTypes
  <2>4. received' \in [{Drainer} -> Seq(Items)]
        /\ received'[Drainer] = Append(received[Drainer], Head(queue))
    BY <2>2, <2>3 DEF FlushTypes
  <2>5. Len(received'[Drainer]) > 0
    BY <2>3, <2>4
  <2> QED
    BY <2>2, <2>3, <2>4, <2>5, Zenon DEF FlushTypes, frameVars, flushVars, flightVars
<1>2. ASSUME NEW w \in MarshalResults, Marshal(w) PROVE FlushTypes'
  <2>1. /\ dpc = "marshal" /\ dpc' \in {"pop", "seal"}
        /\ UNCHANGED <<queue, received, pushes, blocked, sealed, sequenceID, flushVars, flightVars>>
    BY <1>2, ReleaseStep, Zenon DEF Marshal
  <2> DEFINE x == received[Drainer][Len(received[Drainer])]
  <2>2. x \in Items
    BY <2>1 DEF FlushTypes
  <2>3. byteBuffer \in AnyFrame
    BY Zenon DEF FlushTypes
  <2>4. byteBuffer' = byteBuffer \/ byteBuffer' = [byteBuffer EXCEPT !.items = Append(@, x)]
    BY <1>2, Zenon DEF Marshal
  <2> HIDE DEF x
  <2>6. Append(byteBuffer.items, x) \in Seq(Items)
    <3>1. byteBuffer.items \in Seq(Items)
      BY <2>3, Zenon DEF AnyFrame
    <3> QED
      BY <2>2, <3>1
  <2>5. byteBuffer' \in AnyFrame
    BY <2>3, <2>4, <2>6, Zenon DEF AnyFrame
  <2> QED
    BY <2>1, <2>5, Zenon DEF FlushTypes, flushVars, flightVars
<1>3. CASE StopDrain \/ DrainEmpty \/ Compress \/ CompressFails
  BY <1>3, Zenon DEF StopDrain, DrainEmpty, Compress, CompressFails, EndDrain, FlushTypes, ringVars,
              frameVars, flushVars, flightVars
<1>4. CASE Seal
  <2> DEFINE base == IF DeltaEncoding /\ ~IsKeyframe THEN baseline ELSE Raw
  <2>1. /\ byteBuffer' = [byteBuffer EXCEPT !.number = sealed + 1, !.seq = NextSequenceID,
                                               !.base = base]
        /\ sealed' = sealed + 1 /\ sequenceID' = NextSequenceID /\ dpc' \in {"compress", "flush"}
        /\ UNCHANGED <<ringVars, flushVars, flightVars>>
    BY <1>4, Zenon DEF Seal
  <2>2. base \in Int /\ sealed + 1 \in Nat /\ byteBuffer \in AnyFrame
    BY DEF FlushTypes, Raw
  <2> HIDE DEF base
  <2>3. Wrapped(NextSequenceID, sealed + 1) /\ NextSequenceID \in Nat
    BY SequenceWraps, Zenon DEF FlushTypes
  <2>4. byteBuffer' \in AnyFrame
    BY <2>1, <2>2, <2>3, Zenon DEF AnyFrame
  <2> QED
    BY <2>1, <2>2, <2>3, <2>4, Zenon DEF FlushTypes, ringVars, flushVars, flightVars
<1>5. CASE Flush
  <2> DEFINE flight == [pc |-> "call", frame |-> byteBuffer, err |-> FALSE]
  <2>1. /\ flights' = Append(flights, flight) /\ timeoutBuf' \in {byteBuffer, timeoutBuf}
        /\ dpc' = "await" /\ UNCHANGED <<ringVars, frameVars, flushVars, outbox, delivered>>
    BY <1>5, Zenon DEF Flush
  <2>2. flight \in AnyFlight
    BY Zenon DEF FlushTypes, AnyFlight
  <2> HIDE DEF flight
  <2>3. flights' \in Seq(AnyFlight)
    BY <2>1, <2>2 DEF FlushTypes
  <2> QED
    BY <2>1, <2>3, Zenon DEF FlushTypes, ringVars, frameVars, flushVars
<1>6. CASE FlushBusy \/ AwaitResult \/ AwaitTimeout
  <2>1. baseline' \in {baseline, byteBuffer.number}
    BY <1>6, Zenon DEF FlushBusy, AwaitResult, AwaitTimeout, FlushFailed, FlushSucceeded
  <2>2. baseline' \in Nat
    BY <2>1, Zenon DEF FlushTypes, AnyFrame
  <2>3. dpc' = "idle" /\ UNCHANGED <<ringVars, frameVars, flightVars>>
    BY <1>6, Zenon DEF FlushBusy, AwaitResult, AwaitTimeout, EndDrain
  <2> QED
    BY <2>2, <2>3, Zenon DEF FlushTypes, ringVars, frameVars, flightVars
<1> QED
  BY <1>1, <1>2, <1>3, <1>4, <1>5, <1>6, Zenon DEF DrainStep

\* A call of Sink.Flush gets on: what it was called with stays.
Moves(f, label) ==
  /\ f \in DOMAIN flights
  /\ flights' \in Seq(AnyFlight) /\ Len(flights') = Len(flights)
  /\ flights'[f].pc = label
  /\ \A g \in DOMAIN flights : flights'[g].frame = flights[g].frame
  /\ \A g \in DOMAIN flights \ {f} : flights'[g] = flights[g]

LEMMA MovedFlight ==
  ASSUME FlushTypes, NEW f \in DOMAIN flights, NEW moved \in AnyFlight,
         moved.frame = flights[f].frame, flights' = [flights EXCEPT ![f] = moved]
  PROVE  Moves(f, moved.pc)
<1>1. flights \in Seq(AnyFlight) /\ DOMAIN flights = 1..Len(flights)
  BY DEF FlushTypes
<1>2. flights' \in Seq(AnyFlight) /\ Len(flights') = Len(flights)
  BY <1>1
<1>3. flights'[f] = moved /\ \A g \in DOMAIN flights \ {f} : flights'[g] = flights[g]
  BY <1>1, Zenon
<1> QED
  BY <1>1, <1>2, <1>3, Zenon DEF Moves

LEMMA FlightMoves ==
  ASSUME FlushTypes, NEW f \in 1..MaxPush, FlightStep(f)
  PROVE  \/ flights[f].pc = "call" /\ Moves(f, Returned)
         \/ flights[f].pc = "send" /\ Moves(f, "clear")
         \/ flights[f].pc = "clear" /\ Moves(f, "end")
<1>1. f \in DOMAIN flights /\ flights[f] \in AnyFlight /\ Returned \in {"send", "end"}
  <2>1. f \in DOMAIN flights
    BY Zenon DEF FlightStep, SinkWrite, CopyingFlush, SinkFail, Send, Clear, Flying
  <2>2. flights[f] \in AnyFlight
    BY <2>1 DEF FlushTypes
  <2>3. Returned \in {"send", "end"}
    BY Zenon DEF Returned
  <2> QED
    BY <2>1, <2>2, <2>3, Zenon
<1> HIDE DEF Returned
<1>2. CASE SinkWrite(f) \/ SinkFail(f)
  <2>1. PICK err \in BOOLEAN : flights' = [flights EXCEPT ![f].pc = Returned, ![f].err = err]
    BY <1>2, Zenon DEF SinkWrite, SinkFail
  <2> DEFINE moved == [[flights[f] EXCEPT !.pc = Returned] EXCEPT !.err = err]
  <2>2. moved \in AnyFlight /\ moved.pc = Returned /\ moved.frame = flights[f].frame
    BY <1>1, Zenon DEF AnyFlight
  <2>3. flights' = [flights EXCEPT ![f] = moved]
    BY <1>1, <2>1, Zenon DEF FlushTypes
  <2> HIDE DEF moved
  <2>4. flights[f].pc = "call"
    BY <1>2, Zenon DEF SinkWrite, SinkFail, Flying
  <2> QED
    BY <1>1, <2>2, <2>3, <2>4, MovedFlight, Zenon
<1>3. ASSUME NEW label \in {"send", "clear", "end"}, flights' = [flights EXCEPT ![f].pc = label]
      PROVE  Moves(f, label)
  <2> DEFINE moved == [flights[f] EXCEPT !.pc = label]
  <2>1. moved \in AnyFlight /\ moved.pc = label /\ moved.frame = flights[f].frame
    BY <1>1, Zenon DEF AnyFlight
  <2>2. flights' = [flights EXCEPT ![f] = moved]
    BY <1>1, <1>3, Zenon DEF FlushTypes
  <2> HIDE DEF moved
  <2> QED
    BY <1>1, <2>1, <2>2, MovedFlight, Zenon
<1>4. CASE CopyingFlush(f)
  BY <1>1, <1>3, <1>4, Zenon DEF CopyingFlush, Flying
<1>5. CASE Send(f) \/ Clear(f)
  BY <1>3, <1>5, Zenon DEF Send, Clear, Flying
<1> QED
  BY <1>2, <1>4, <1>5, Zenon DEF FlightStep

\* What a step of a call adds to what was written or queued.
LEMMA FlightWrites ==
  ASSUME FlushTypes, NEW f \in 1..MaxPush, FlightStep(f)
  PROVE  LET write == [flight |-> f, frame |-> PayloadBuffer] IN
         \/ UNCHANGED <<delivered, outbox>>
         \/ Flying(f, "call") /\ delivered' = Append(delivered, write) /\ outbox' = outbox
         \/ Flying(f, "call") /\ outbox' = Append(outbox, write) /\ delivered' = delivered
  BY Zenon DEF FlightStep, SinkWrite, CopyingFlush, SinkFail, Send, Clear

LEMMA SinkTypes ==
  ASSUME FlushTypes, Transmit \/ \E f \in 1..MaxPush : FlightStep(f)
  PROVE  FlushTypes'
<1>1. ASSUME NEW f \in 1..MaxPush, FlightStep(f) PROVE FlushTypes'
  <2>1. flights' \in Seq(AnyFlight)
    BY <1>1, FlightMoves, Zenon DEF Moves
  <2> DEFINE write == [flight |-> f, frame |-> PayloadBuffer]
  <2>2. write \in AnyWrite
    BY DEF PayloadBuffer, FlushTypes, AnyWrite
  <2> HIDE DEF write
  <2>3. outbox' \in {outbox, Append(outbox, write)} /\ delivered' \in {delivered, Append(delivered, write)}
    BY <1>1, FlightWrites, Zenon DEF write
  <2>4. outbox' \in Seq(AnyWrite) /\ delivered' \in Seq(AnyWrite)
    <3>1. outbox \in Seq(AnyWrite) /\ delivered \in Seq(AnyWrite)
      BY Zenon DEF FlushTypes
    <3>2. Append(outbox, write) \in Seq(AnyWrite) /\ Append(delivered, write) \in Seq(AnyWrite)
      BY <2>2, <3>1
    <3> QED
      BY <2>3, <3>1, <3>2, Zenon
  <2>5. UNCHANGED <<timeoutBuf, ringVars, dpc, frameVars, flushVars>>
    BY <1>1, Zenon DEF FlightStep, SinkWrite, CopyingFlush, SinkFail, Send, Clear, OutsideSink
  <2> QED
    BY <2>1, <2>4, <2>5, Zenon DEF FlushTypes, ringVars, frameVars, flushVars
<1>2. CASE Transmit
  <2>1. /\ outbox # << >> /\ outbox' = Tail(outbox) /\ delivered' = Append(delivered, Head(outbox))
        /\ UNCHANGED <<timeoutBuf, flights, ringVars, dpc, frameVars, flushVars>>
    BY <1>2, Zenon DEF Transmit, Owned, OutsideSink
  <2>2. outbox' \in Seq(AnyWrite) /\ delivered' \in Seq(AnyWrite)
    <3>1. outbox \in Seq(AnyWrite) /\ delivered \in Seq(AnyWrite)
      BY Zenon DEF FlushTypes
    <3>2. Head(outbox) \in AnyWrite /\ Tail(outbox) \in Seq(AnyWrite)
      BY <2>1, <3>1
    <3> QED
      BY <2>1, <3>1, <3>2
  <2> QED
    BY <2>1, <2>2, Zenon DEF FlushTypes, ringVars, frameVars, flushVars
<1> QED
  BY <1>1, <1>2, Zenon

-----------------------------------------------------------------------------
(* The drain and the loop                                                  *)

LEMMA DrainInvStep ==
  ASSUME DrainInv, [Next]_vars
  PROVE  DrainInv'
<1>1. CASE ProducerStep \/ Transmit \/ StatsLoad \/ UNCHANGED vars
  <2>1. UNCHANGED <<mpc, dpc, drainDone, shutdownDue>>
    BY <1>1, ProducersKeep, Zenon DEF NotProducer, Transmit,
                OutsideSink, StatsLoad, loopVars, vars
  <2> QED
    BY <2>1, Zenon DEF DrainInv
<1>2. ASSUME NEW f \in 1..MaxPush, FlightStep(f) PROVE DrainInv'
  <2>1. UNCHANGED <<mpc, dpc, drainDone, shutdownDue>>
    BY <1>2, Zenon DEF FlightStep, SinkWrite, CopyingFlush, SinkFail, Send, Clear, OutsideSink, loopVars
  <2> QED
    BY <2>1, Zenon DEF DrainInv
<1>3. CASE Start \/ Cancel \/ ShutdownDeadline \/ FinalReturn
  <2>1. dpc' = dpc /\ drainDone' = drainDone
    BY <1>3, Zenon DEF Start, Cancel, ShutdownDeadline, FinalReturn
  <2>2. CASE FinalReturn
    <3>1. mpc' = "exited" /\ shutdownDue' = shutdownDue /\ (drainDone \/ shutdownDue)
      BY <2>2, Zenon DEF FinalReturn
    <3> QED
      BY <2>1, <3>1, Zenon DEF DrainInv
  <2>3. CASE Start
    BY <2>1, <2>3 DEF DrainInv, Start
  <2>4. CASE Cancel \/ ShutdownDeadline
    <3>1. mpc' = mpc /\ (shutdownDue' = shutdownDue \/ mpc = "finalWait")
      BY <2>4, Zenon DEF Cancel, ShutdownDeadline
    <3> QED
      BY <2>1, <3>1, Zenon DEF DrainInv
  <2> QED
    BY <1>3, <2>2, <2>3, <2>4, Zenon
<1>4. CASE Tick \/ CtxDone
  BY <1>4 DEF DrainInv, Tick, CtxDone, BeginDrain
<1>5. CASE DrainStep
  <2>1. dpc # "idle"
    BY <1>5, Zenon DEF DrainStep, PopClaim, Marshal, StopDrain, DrainEmpty, Seal, Compress, CompressFails,
                Flush, FlushBusy, AwaitResult, AwaitTimeout
  <2>2. UNCHANGED loopVars \/ EndDrain
    BY <1>5, Zenon DEF DrainStep, PopClaim, Marshal, StopDrain, DrainEmpty, Seal, Compress, CompressFails,
                Flush, FlushBusy, AwaitResult, AwaitTimeout
  <2>3. CASE EndDrain
    <3>1. mpc \notin {"off", "select"} /\ ~drainDone /\ dpc' = "idle" /\ shutdownDue' = shutdownDue
      BY <2>1, <2>3, Zenon DEF DrainInv, EndDrain
    <3>2. drainDone' <=> mpc \in {"finalWait", "exited"}
      BY <2>3, Zenon DEF EndDrain
    <3>3. mpc \in {"finalWait", "exited"} => mpc' = mpc
      BY <2>3, Zenon DEF EndDrain
    <3> QED
      BY <3>1, <3>2, <3>3, Zenon DEF DrainInv
  <2>4. CASE UNCHANGED loopVars
    <3>1. UNCHANGED <<mpc, drainDone, shutdownDue>>
      BY <2>4, Zenon DEF loopVars
    <3>2. mpc \notin {"off", "select"} /\ ~drainDone /\ ~(mpc = "exited" /\ ~shutdownDue)
      BY <2>1, Zenon DEF DrainInv
    <3> QED
      BY <3>1, <3>2, Zenon DEF DrainInv
  <2> QED
    BY <2>2, <2>3, <2>4, Zenon
<1> QED
  BY <1>1, <1>2, <1>3, <1>4, <1>5, Zenon DEF Next, LoopStep

-----------------------------------------------------------------------------
(* The calls of Sink.Flush                                                 *)

\* A step that is not one of the sink's leaves a direct call, which the drain waits
\* for, as it is, and starts a call only when all others have ended.
LEMMA EngineSteps ==
  ASSUME FlushInv, ProducerStep \/ LoopStep \/ DrainStep \/ Transmit \/ StatsLoad \/ UNCHANGED vars
  PROVE  \/ Flush
         \/ /\ UNCHANGED <<flushInFlight, timeoutBuf, flights>>
            /\ \/ dpc # "await" \/ UNCHANGED <<dpc, byteBuffer>> \/ Timed
               \/ Awaited.pc \in {"clear", "end"}
<1>1. CASE ProducerStep \/ Transmit \/ StatsLoad \/ UNCHANGED vars
  BY <1>1, ProducersKeep, Zenon DEF NotProducer, Transmit,
              OutsideSink, StatsLoad, frameVars, flightVars, vars
<1>2. CASE Start \/ Cancel \/ ShutdownDeadline \/ FinalReturn
  BY <1>2, Zenon DEF Start, Cancel, ShutdownDeadline, FinalReturn, frameVars, flightVars
<1>3. CASE Tick \/ CtxDone
  BY <1>3, Zenon DEF FlushInv, DrainInv, Tick, CtxDone, BeginDrain, flightVars
<1>4. CASE DrainStep
  BY <1>4, ZenonT(30) DEF DrainStep, PopClaim, Marshal, StopDrain, DrainEmpty, Seal, Compress, CompressFails,
              FlushBusy, AwaitResult, AwaitTimeout, flightVars
<1> QED
  BY <1>1, <1>2, <1>3, <1>4, Zenon DEF LoopStep

LEMMA AllEnded ==
  ASSUME FlushInv, Flush
  PROVE  \A f \in DOMAIN flights : flights[f].pc = "end"
  BY Zenon DEF FlushInv, FlightInv, Flush, Busy

LEMMA FlightInvStep ==
  ASSUME FlushInv, [Next]_vars
  PROVE  FlightInv' /\ (FlushTimeout >= 0 => BufferInv')
<1>1. flights \in Seq(AnyFlight) /\ DOMAIN flights = 1..Len(flights) /\ Len(flights) \in Nat
  BY DEF FlushInv, FlushTypes
<1>2. ASSUME NEW f \in 1..MaxPush, FlightStep(f) PROVE FlightInv' /\ (FlushTimeout >= 0 => BufferInv')
  <2>1. /\ \/ flights[f].pc = "call" /\ Moves(f, Returned)
           \/ flights[f].pc = "send" /\ Moves(f, "clear")
           \/ flights[f].pc = "clear" /\ Moves(f, "end")
        /\ f \in DOMAIN flights /\ DOMAIN flights' = DOMAIN flights /\ Len(flights') = Len(flights)
    BY <1>1, <1>2, FlightMoves DEF FlushInv, Moves
  <2>2. UNCHANGED <<dpc, byteBuffer, timeoutBuf>>
    BY <1>2, Zenon DEF FlightStep, SinkWrite, CopyingFlush, SinkFail, Send, Clear, OutsideSink, frameVars
  <2>3. flights[f].pc # "clear" => flushInFlight' = flushInFlight
    BY <1>2, Zenon DEF FlightStep, SinkWrite, CopyingFlush, SinkFail, Send, Clear, Flying
  <2>4. flights[f].pc # "end" => f = Len(flights)
    BY <2>1, Zenon DEF FlushInv, FlightInv
  <2>5. ASSUME NEW g \in DOMAIN flights', flights'[g].pc # "end"
        PROVE  /\ g = Len(flights') /\ (Timed => flushInFlight')
               /\ (~Timed => dpc' = "await" /\ flights'[g].pc = "call")
    <3>1. CASE g = f
      <4>1. flights[f].pc \in {"call", "send"}
        BY <2>1, <2>5, <3>1, Zenon DEF Moves
      <4>2. f = Len(flights) /\ (Timed => flushInFlight) /\ (~Timed => flights[f].pc = "call")
        BY <2>1, <4>1, Zenon DEF FlushInv, FlightInv
      <4>3. Timed
        BY <2>1, <2>5, <3>1, <4>1, <4>2, Zenon DEF Moves, Returned
      <4> QED
        BY <2>1, <2>3, <3>1, <4>1, <4>2, <4>3, Zenon
    <3>2. CASE g # f
      <4>1. flights'[g] = flights[g]
        BY <2>1, <2>5, <3>2, Zenon DEF Moves
      <4>2. g = Len(flights) /\ f = Len(flights)
        BY <2>1, <2>4, <2>5, <4>1, Zenon DEF FlushInv, FlightInv
      <4> QED
        BY <3>2, <4>2, Zenon
    <3> QED
      BY <3>1, <3>2, Zenon
  <2>6. ASSUME FlushTimeout >= 0, NEW g \in DOMAIN flights', flights'[g].pc = "call"
        PROVE  PayloadBuffer' = flights'[g].frame
    <3>1. g # f
      BY <2>1, <2>6, Zenon DEF Moves, Returned
    <3>2. flights'[g] = flights[g]
      BY <2>1, <2>6, <3>1, Zenon DEF Moves
    <3> QED
      BY <2>1, <2>2, <2>6, <3>2, Zenon DEF FlushInv, BufferInv, PayloadBuffer
  <2> QED
    BY <2>5, <2>6, Zenon DEF FlightInv, BufferInv
<1>3. CASE Flush
  <2> DEFINE flight == [pc |-> "call", frame |-> byteBuffer, err |-> FALSE]
  <2>1. /\ flights' = Append(flights, flight) /\ flushInFlight' = Timed /\ dpc' = "await"
        /\ timeoutBuf' = (IF FlushTimeout > 0 THEN byteBuffer ELSE timeoutBuf) /\ byteBuffer' = byteBuffer
    BY <1>3, Zenon DEF Flush, frameVars
  <2>2. flight \in AnyFlight /\ flight.pc = "call" /\ flight.frame = byteBuffer
    BY Zenon DEF FlushInv, FlushTypes, AnyFlight
  <2> HIDE DEF flight
  <2>3. /\ DOMAIN flights' = 1..(Len(flights) + 1) /\ Len(flights') = Len(flights) + 1
        /\ flights'[Len(flights) + 1] = flight
        /\ \A g \in DOMAIN flights : flights'[g] = flights[g]
    BY <1>1, <2>1, <2>2
  <2>4. \A g \in DOMAIN flights : flights[g].pc = "end"
    BY <1>3, AllEnded, Zenon
  <2>5. \A g \in DOMAIN flights' : flights'[g].pc # "end" => g = Len(flights') /\ flights'[g] = flight
    BY <1>1, <2>3, <2>4
  <2>6. FlightInv'
    BY <2>1, <2>2, <2>5, Zenon DEF FlightInv
  <2>7. FlushTimeout >= 0 => PayloadBuffer' = byteBuffer
    <3>1. FlushTimeout \in Int
      BY EngineAssumption, Zenon
    <3>2. FlushTimeout >= 0 => FlushTimeout > 0 \/ ~Timed
      BY <3>1 DEF Timed
    <3>3. FlushTimeout > 0 => Timed
      BY <3>1 DEF Timed
    <3> QED
      BY <2>1, <3>2, <3>3, Zenon DEF PayloadBuffer
  <2> QED
    BY <2>2, <2>5, <2>6, <2>7, Zenon DEF BufferInv
<1>4. CASE /\ UNCHANGED <<flushInFlight, timeoutBuf, flights>>
           /\ \/ dpc # "await" \/ UNCHANGED <<dpc, byteBuffer>> \/ Timed
              \/ Awaited.pc \in {"clear", "end"}
  BY <1>1, <1>4, Zenon DEF FlushInv, FlightInv, BufferInv, PayloadBuffer, Awaited
<1> QED
  BY <1>2, <1>3, <1>4, EngineSteps, Zenon DEF Next

-----------------------------------------------------------------------------
(* What is written                                                         *)

LEMMA WriteInvStep ==
  ASSUME FlushInv, FlushTimeout >= 0, [Next]_vars
  PROVE  WriteInv'
<1>1. /\ flights \in Seq(AnyFlight) /\ DOMAIN flights = 1..Len(flights) /\ Len(flights) \in Nat
      /\ delivered \in Seq(AnyWrite) /\ outbox \in Seq(AnyWrite)
  BY DEF FlushInv, FlushTypes
<1>2. \A f \in DOMAIN flights : f \in DOMAIN flights' /\ flights'[f].frame = flights[f].frame
  <2>1. ASSUME NEW f \in 1..MaxPush, FlightStep(f)
        PROVE  \A g \in DOMAIN flights : g \in DOMAIN flights' /\ flights'[g].frame = flights[g].frame
    BY <1>1, <2>1, FlightMoves DEF FlushInv, Moves
  <2>2. CASE Flush
    <3> DEFINE flight == [pc |-> "call", frame |-> byteBuffer, err |-> FALSE]
    <3>1. flights' = Append(flights, flight) /\ flight \in AnyFlight
      BY <2>2, Zenon DEF Flush, FlushInv, FlushTypes, AnyFlight
    <3> HIDE DEF flight
    <3> QED
      BY <1>1, <3>1
  <2> QED
    BY <2>1, <2>2, EngineSteps, Zenon DEF Next
<1>3. \A w : Faithful(w) => Faithful(w)'
  BY <1>2, Zenon DEF Faithful
<1>4. ASSUME NEW f \in 1..MaxPush, FlightStep(f) PROVE WriteInv'
  <2> DEFINE write == [flight |-> f, frame |-> PayloadBuffer]
  <2>1. write \in AnyWrite /\ (Flying(f, "call") => Faithful(write))
    BY DEF PayloadBuffer, FlushInv, FlushTypes, AnyWrite, BufferInv, Flying, Faithful
  <2> HIDE DEF write
  <2>2. \/ UNCHANGED <<delivered, outbox>>
        \/ Flying(f, "call") /\ delivered' = Append(delivered, write) /\ outbox' = outbox
        \/ Flying(f, "call") /\ outbox' = Append(outbox, write) /\ delivered' = delivered
    BY <1>4, FlightWrites, Zenon DEF FlushInv, write
  <2>3. \A i \in DOMAIN delivered' : Faithful(delivered'[i])
    <3>1. \A i \in DOMAIN delivered : Faithful(delivered[i])
      BY Zenon DEF FlushInv, WriteInv
    <3>2. CASE UNCHANGED delivered
      BY <3>1, <3>2, Zenon
    <3>3. CASE Flying(f, "call") /\ delivered' = Append(delivered, write)
      <4>1. \A i \in DOMAIN delivered' :
              (i \in DOMAIN delivered /\ delivered'[i] = delivered[i]) \/ delivered'[i] = write
        BY <1>1, <2>1, <3>3
      <4> QED
        BY <2>1, <3>1, <3>3, <4>1, Zenon
    <3> QED
      BY <2>2, <3>2, <3>3, Zenon
  <2>4. \A i \in DOMAIN outbox' : Faithful(outbox'[i])
    <3>1. \A i \in DOMAIN outbox : Faithful(outbox[i])
      BY Zenon DEF FlushInv, WriteInv
    <3>2. CASE UNCHANGED outbox
      BY <3>1, <3>2
    <3>3. CASE Flying(f, "call") /\ outbox' = Append(outbox, write)
      <4>1. \A i \in DOMAIN outbox' :
              (i \in DOMAIN outbox /\ outbox'[i] = outbox[i]) \/ outbox'[i] = write
        BY <1>1, <2>1, <3>3
      <4> QED
        BY <2>1, <3>1, <3>3, <4>1
    <3> QED
      BY <2>2, <3>2, <3>3, Zenon
  <2> QED
    BY <1>3, <2>3, <2>4, Zenon DEF WriteInv
<1>5. CASE Transmit
  <2>1. outbox # << >> /\ outbox' = Tail(outbox) /\ delivered' = Append(delivered, Head(outbox))
    BY <1>5, Zenon DEF Transmit, Owned
  <2>2. Head(outbox) = outbox[1] /\ 1 \in DOMAIN outbox /\ Head(outbox) \in AnyWrite
    BY <1>1, <2>1
  <2>3. Faithful(Head(outbox))
    BY <2>2, Zenon DEF FlushInv, WriteInv
  <2>4. \A i \in DOMAIN delivered' : Faithful(delivered'[i])
    BY <1>1, <2>1, <2>2, <2>3 DEF FlushInv, WriteInv
  <2>5. \A i \in DOMAIN outbox' : outbox'[i] = outbox[i + 1] /\ i + 1 \in DOMAIN outbox
    BY <1>1, <2>1
  <2>6. \A i \in DOMAIN outbox' : Faithful(outbox'[i])
    BY <2>5, Zenon DEF FlushInv, WriteInv
  <2> QED
    BY <1>3, <2>4, <2>6, Zenon DEF WriteInv
<1>6. CASE ProducerStep \/ LoopStep \/ DrainStep \/ StatsLoad \/ UNCHANGED vars
  <2>1. UNCHANGED <<delivered, outbox>>
    <3>1. CASE ProducerStep \/ StatsLoad \/ UNCHANGED vars
      BY <3>1, ProducersKeep, Zenon DEF NotProducer, StatsLoad,
                  flightVars, vars
    <3>2. CASE LoopStep
      BY <3>2, Zenon DEF LoopStep, Start, Cancel, ShutdownDeadline, FinalReturn, Tick, CtxDone, BeginDrain,
                  flightVars
    <3>3. CASE DrainStep
      BY <3>3, Zenon DEF DrainStep, PopClaim, Marshal, StopDrain, DrainEmpty, Seal, Compress, CompressFails,
                  Flush, FlushBusy, AwaitResult, AwaitTimeout, flightVars
    <3> QED
      BY <1>6, <3>1, <3>2, <3>3, Zenon
  <2> QED
    BY <1>3, <2>1, Zenon DEF FlushInv, WriteInv
<1> QED
  BY <1>4, <1>5, <1>6, Zenon DEF Next

-----------------------------------------------------------------------------
(* Theorems                                                                *)

LEMMA FlushInvStep == FlushInv /\ [Next]_vars => FlushInv'
<1> SUFFICES ASSUME FlushInv, [Next]_vars PROVE FlushInv'
  BY Zenon
<1>1. FlushTypes'
  <2>1. CASE UNCHANGED vars
    BY <2>1, Zenon DEF FlushInv, FlushTypes, vars, ringVars, frameVars, flushVars, flightVars
  <2> QED
    BY <2>1, OuterTypes, DrainTypes, SinkTypes, Zenon DEF FlushInv, Next
<1>2. DrainInv'
  BY DrainInvStep, Zenon DEF FlushInv
<1> QED
  BY <1>1, <1>2, FlightInvStep, WriteInvStep, Zenon DEF FlushInv

LEMMA FlushInvariant == Spec => []FlushInv
  BY FlushInvInit, FlushInvStep, PTL DEF Spec

\* batcher.go, flushWithTimeout: flushInFlight, or the drain that waits, keeps two calls
\* of Sink.Flush from running at once, however late an abandoned call returns.
THEOREM CallsDoNotOverlap == Spec => []OneFlushAtATime
<1>1. FlushInv => OneFlushAtATime
  BY Zenon DEF FlushInv, FlightInv, OneFlushAtATime
<1> QED
  BY <1>1, FlushInvariant, PTL

\* batcher.go, flushWithTimeout, and copy_sink.go: with a FlushTimeout that is not
\* negative, what a call of Sink.Flush writes, and what an inner sink transmits after
\* it, is the frame the call was made with.
THEOREM WritesAreFaithful == ASSUME FlushTimeout >= 0 PROVE Spec => []SnapshotStable
<1>1. FlushInv => SnapshotStable
  BY Zenon DEF FlushInv, WriteInv, Faithful, SnapshotStable
<1> QED
  BY <1>1, FlushInvariant, PTL

\* batcher.go, finalDrain: without a FlushTimeout, Start's channel is closed before the
\* shutdown deadline only when no call is inside the sink and none will follow.
THEOREM ClosedWhenQuiet == Spec => []SafeToClose
<1>1. FlushInv => SafeToClose
  BY Zenon DEF FlushInv, DrainInv, FlightInv, SafeToClose
<1> QED
  BY <1>1, FlushInvariant, PTL

=============================================================================
