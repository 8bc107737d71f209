------------------------------- MODULE Engine -------------------------------
(***************************************************************************)
(* batcher.go: the tick engine behind Batcher.Start.  One goroutine,       *)
(* runLoop, drains the ring into a frame on every tick and hands the frame *)
(* to Sink.Flush; FlushTimeout moves the call to a goroutine of its own    *)
(* and lets the engine give up waiting; finalDrain drains once more when   *)
(* the context is cancelled, under ShutdownTimeout in a goroutine that     *)
(* runLoop may abandon.                                                    *)
(*                                                                         *)
(* The ring is the SlotQueue that RingBuf implements.  A frame is          *)
(* abstracted to the sequence number of its header, its items and, with    *)
(* DeltaEncoding, the frame it was XORed with.  Sequence numbers repeat,   *)
(* so frames are told apart by a number of their own that no code sees.    *)
(* The sink is the environment: it reads the buffer it was given at a      *)
(* moment of its own choosing and may fail or hang.                        *)
(***************************************************************************)
EXTENDS Integers, Sequences, FiniteSets

CONSTANTS
  Capacity, CanEvict,        \* QueueSize; whether Backpressure is DropOldest
  MaxPush,                   \* bound: number of Push calls
  HeaderSize, MaxBatchSize, MaxItemSize,   \* bytes
  MarshalResults,            \* what Marshal may return: a set of integers
  MaxCount,                  \* math.MaxUint16, the items a frame can count
  HasSink, HasCompressor,    \* whether cfg.Sink and cfg.Compressor are set
  FlushTimeout,              \* a duration: its sign is what matters
  ShutdownTimeouts,          \* values of ShutdownTimeout to consider
  DeltaEncoding, KeyframeInterval,
  FailsAfterWrite,           \* whether Flush may deliver and still return an error
  AsyncInner,                \* whether Sink is a CopyingSink around an asynchronous one
  ProducersHalt,             \* whether producers stop before cancel, as Start asks
  CallsStats,                \* whether somebody calls Stats
  SeqSpace                   \* the values of a uint32: sequence numbers wrap at 2^32

\* New's validation.  New also accepts a QueueSize of 1, where the ring is no queue
\* (RingSizeOne.cfg shows it), so that size is left out here.  The other checks have
\* no counterpart: CanEvict has the two values of Backpressure, a tick has no rate,
\* and this module's sink delivers what it reports as sent, like a ReliableSink.
ValidConfig ==
  /\ Capacity >= 2 /\ \E k \in 1..Capacity : Capacity = 2^k
  /\ MaxItemSize > 0
  /\ MaxBatchSize >= HeaderSize + MaxItemSize

ASSUME EngineAssumption ==
  /\ {Capacity, MaxPush, HeaderSize, MaxBatchSize, MaxItemSize, KeyframeInterval} \subseteq Nat
  /\ MarshalResults \cup ShutdownTimeouts \cup {FlushTimeout} \subseteq Int
  /\ {MaxCount, SeqSpace} \subseteq Nat \ {0}
  /\ {CanEvict, HasSink, HasCompressor, DeltaEncoding, FailsAfterWrite, AsyncInner,
      ProducersHalt, CallsStats} \subseteq BOOLEAN
  /\ ValidConfig

Items == 1..MaxPush
Drainer == "drainer"

VARIABLES
  queue, received, lost, pending, held, evicting,  \* the ring, as a SlotQueue
  blocked,                \* Push calls that found no slot and have not acted on it
  evicted,                \* ring.evicted
  pushes, dropped,        \* Push calls that have an outcome; Batcher.dropped
  ctx,                    \* the Start context: "live" or "cancelled"
  mpc,                    \* runLoop: where it is
  shutdownDue, drainDone, \* finalDrain: base.Done() and ch are closed
  dpc,                    \* drainAndFlush: where it is
  offset, byteBuffer,     \* the frame under construction and its length in bytes
  sequenceID, truncated,
  sealed,                 \* history: the number of frames sealed so far
  baseline, keyframeN,    \* the frame previousState holds; the keyframe cycle
  flushedBatches, flushedItems, flushErrs,
  compressReports,        \* errors of the Compressor that reportError was given
  flushInFlight, timeoutBuf,
  flights,                \* the Sink.Flush calls, in the order they were made
  outbox,                 \* copies an asynchronous inner sink has yet to transmit
  delivered,              \* history: the calls that wrote, with what they wrote
  loads, stats            \* a call of Stats: the loads done and what they returned

queueVars  == <<queue, received, lost, pending, held, evicting>>
ringVars   == <<queue, received, lost, pending, held, evicting, blocked, evicted, pushes, dropped>>
statsVars  == <<loads, stats>>
loopVars   == <<ctx, mpc, shutdownDue, drainDone, statsVars>>
frameVars  == <<offset, byteBuffer, sequenceID, truncated, sealed>>
flushVars  == <<baseline, keyframeN, flushedBatches, flushedItems, flushErrs, compressReports>>
flightVars == <<flushInFlight, timeoutBuf, flights, outbox, delivered>>
vars == <<ringVars, loopVars, dpc, frameVars, flushVars, flightVars>>

Ring == INSTANCE SlotQueue WITH Consumers <- {Drainer}

Raw == -1      \* the base of a frame that is not XORed with an earlier one
NoFrame == [number |-> 0, seq |-> 0, items |-> << >>, base |-> Raw]
n == Len(byteBuffer.items)

\* Variants: QueueDepth comes before the counters; it loads head before tail.
LoadOrderDepthFirst == <<"tail", "head", "Dropped", "Evicted", "Truncated", "FlushedItems">>
LoadOrderHeadFirst  == <<"Dropped", "Evicted", "Truncated", "FlushedItems", "head", "tail">>

\* The loads of Stats that count items, in the order it makes them.
LoadOrder == <<"Dropped", "Evicted", "Truncated", "FlushedItems", "tail", "head">>

Init ==
  /\ Ring!SlotInit /\ blocked = 0 /\ evicted = 0 /\ pushes = 0 /\ dropped = 0
  /\ ctx = "live" /\ mpc = "off" /\ shutdownDue = FALSE /\ drainDone = FALSE
  /\ dpc = "idle" /\ offset = HeaderSize /\ byteBuffer = NoFrame
  /\ sequenceID = 0 /\ truncated = 0 /\ sealed = 0 /\ baseline = 0 /\ keyframeN = 0
  /\ flushedBatches = 0 /\ flushedItems = 0 /\ flushErrs = 0 /\ compressReports = 0
  /\ flushInFlight = FALSE /\ timeoutBuf = NoFrame
  /\ flights = << >> /\ outbox = << >> /\ delivered = << >>
  /\ loads = 0 /\ stats = [field \in {LoadOrder[k] : k \in DOMAIN LoadOrder} |-> 0]

-----------------------------------------------------------------------------
(* Producers.  RingBuf has the steps of Push; here each of its effects is  *)
(* one step.  A Push acts on finding no slot some time after it looked: by *)
(* then the ring may have room again, or another thread may have moved the *)
(* head.  It drops its item, under DropOldest once it is out of attempts,  *)
(* or it evicts and looks again.                                           *)

Producing == pushes + blocked < MaxPush /\ (ProducersHalt => ctx = "live")

NotProducer == UNCHANGED <<loopVars, dpc, frameVars, flushVars, flightVars>>

Push ==
  /\ Producing
  /\ Ring!Claim(pushes + 1)
  /\ pushes' = pushes + 1
  /\ UNCHANGED <<blocked, evicted, dropped>> /\ NotProducer

PushFull ==
  /\ Producing /\ Ring!NoFreeSlot
  /\ blocked' = blocked + 1
  /\ UNCHANGED <<queueVars, evicted, pushes, dropped>> /\ NotProducer

PushDropped ==
  /\ blocked > 0
  /\ blocked' = blocked - 1
  /\ pushes' = pushes + 1
  /\ dropped' = dropped + 1
  /\ UNCHANGED <<queueVars, evicted>> /\ NotProducer

Publish ==
  /\ Ring!Publish
  /\ UNCHANGED <<blocked, evicted, pushes, dropped>> /\ NotProducer

\* evictOldest: the compare-and-swap on head succeeds ...
EvictOldest ==
  /\ blocked > 0
  /\ Ring!EvictHead
  /\ blocked' = blocked - 1
  /\ UNCHANGED <<evicted, pushes, dropped>> /\ NotProducer

\* ... or the head is not published, or the compare-and-swap on it is lost.
EvictNothing ==
  /\ blocked > 0 /\ CanEvict
  /\ blocked' = blocked - 1
  /\ UNCHANGED <<queueVars, evicted, pushes, dropped>> /\ NotProducer

EvictRecycle ==
  /\ Ring!Recycle
  /\ UNCHANGED <<blocked, evicted, pushes, dropped>> /\ NotProducer

\* An eviction whose slot is recycled is counted.
EvictCount ==
  /\ evicted + Cardinality(evicting) < Cardinality(lost)
  /\ evicted' = evicted + 1
  /\ UNCHANGED <<queueVars, blocked, pushes, dropped>> /\ NotProducer

-----------------------------------------------------------------------------
(* Start, runLoop and finalDrain                                           *)

Start ==
  /\ mpc = "off"
  /\ mpc' = "select"
  /\ UNCHANGED <<ringVars, ctx, shutdownDue, drainDone, statsVars, dpc, frameVars, flushVars,
                 flightVars>>

\* The caller cancels; Start asks it to halt its producers first.
Cancel ==
  /\ ctx = "live"
  /\ ProducersHalt => pending = {} /\ blocked = 0 /\ evicted = Cardinality(lost)
  /\ ctx' = "cancelled"
  /\ UNCHANGED <<ringVars, mpc, shutdownDue, drainDone, statsVars, dpc, frameVars, flushVars,
                 flightVars>>

\* drainAndFlush is entered.
BeginDrain ==
  /\ dpc' = "pop"
  /\ offset' = HeaderSize
  /\ byteBuffer' = [byteBuffer EXCEPT !.items = << >>]
  /\ UNCHANGED <<ringVars, ctx, shutdownDue, drainDone, statsVars, sequenceID, truncated,
                 sealed, flushVars, flightVars>>

Tick ==
  /\ mpc = "select"
  /\ mpc' = "tick"
  /\ BeginDrain

\* Variant: the loop returns on cancellation without draining.
CtxDoneReturns ==
  /\ mpc = "select" /\ ctx = "cancelled"
  /\ mpc' = "exited"
  /\ UNCHANGED <<ringVars, ctx, shutdownDue, drainDone, statsVars, dpc, frameVars, flushVars,
                 flightVars>>

\* <-ctx.Done() and finalDrain: inline, or in a goroutine that is waited for.
\* ShutdownTimeout is read only here, once.
CtxDone ==
  /\ mpc = "select" /\ ctx = "cancelled"
  /\ \E ShutdownTimeout \in ShutdownTimeouts :
       mpc' = IF ShutdownTimeout > 0 THEN "finalWait" ELSE "final"
  /\ BeginDrain

ShutdownDeadline ==
  /\ mpc = "finalWait" /\ ~shutdownDue
  /\ shutdownDue' = TRUE
  /\ UNCHANGED <<ringVars, ctx, mpc, drainDone, statsVars, dpc, frameVars, flushVars, flightVars>>

\* Variant: runLoop returns without waiting for the final drain.
FinalReturnUnwaited ==
  /\ mpc = "finalWait"
  /\ mpc' = "exited"
  /\ UNCHANGED <<ringVars, ctx, shutdownDue, drainDone, statsVars, dpc, frameVars, flushVars,
                 flightVars>>

\* finalDrain's select; runLoop returns and Start's channel is closed.
FinalReturn ==
  /\ mpc = "finalWait"
  /\ drainDone \/ shutdownDue
  /\ mpc' = "exited"
  /\ UNCHANGED <<ringVars, ctx, shutdownDue, drainDone, statsVars, dpc, frameVars, flushVars,
                 flightVars>>

\* drainAndFlush returns: to the select, out of runLoop, or to close(ch).
EndDrain ==
  /\ dpc' = "idle"
  /\ mpc' = CASE mpc = "tick" -> "select" [] mpc = "final" -> "exited" [] OTHER -> mpc
  /\ drainDone' = (mpc \in {"finalWait", "exited"})
  /\ UNCHANGED <<ctx, shutdownDue, statsVars>>

-----------------------------------------------------------------------------
(* drainAndFlush                                                           *)

RoomForItem == n < MaxCount /\ MaxBatchSize - offset >= MaxItemSize

\* popMarshal claims the head slot ...
PopClaim ==
  /\ dpc = "pop" /\ RoomForItem
  /\ Ring!Take(Drainer)
  /\ dpc' = "marshal"
  /\ UNCHANGED <<blocked, evicted, pushes, dropped, loopVars, frameVars, flushVars, flightVars>>

\* Variant: a length beyond the buffer is believed.
FitsUnchecked(written) == written > 0

Fits(written) == written > 0 /\ written <= MaxBatchSize - offset

\* ... and recycles it once Marshal has returned.  A length that is not
\* positive or exceeds the buffer discards the item and ends the loop.
Marshal(written) ==
  /\ dpc = "marshal"
  /\ Ring!Release
  /\ IF Fits(written)
       THEN /\ offset' = offset + written
            /\ byteBuffer' = [byteBuffer EXCEPT
                 !.items = Append(@, received[Drainer][Len(received[Drainer])])]
            /\ dpc' = "pop"
            /\ UNCHANGED truncated
       ELSE /\ truncated' = truncated + 1
            /\ dpc' = "seal"
            /\ UNCHANGED <<offset, byteBuffer>>
  /\ UNCHANGED <<blocked, evicted, pushes, dropped, loopVars, sequenceID, sealed, flushVars,
                 flightVars>>

\* The frame is full, or popMarshal found no published item at the head.
StopDrain ==
  /\ dpc = "pop" /\ ~(RoomForItem /\ Ring!HeadReady)
  /\ dpc' = "seal"
  /\ UNCHANGED <<ringVars, loopVars, frameVars, flushVars, flightVars>>

NothingToFlush == n = 0 \/ ~HasSink

DrainEmpty ==
  /\ dpc = "seal" /\ NothingToFlush
  /\ EndDrain
  /\ UNCHANGED <<ringVars, frameVars, flushVars, flightVars>>

IsKeyframe == DeltaEncoding /\ KeyframeInterval > 0 /\ keyframeN = 0

NextSequenceID == (sequenceID + 1) % SeqSpace

\* The header is written and the payload encoded.
Seal ==
  /\ dpc = "seal" /\ ~NothingToFlush
  /\ sequenceID' = NextSequenceID
  /\ sealed' = sealed + 1
  /\ byteBuffer' = [byteBuffer EXCEPT
       !.number = sealed + 1,
       !.seq = NextSequenceID,
       !.base = IF DeltaEncoding /\ ~IsKeyframe THEN baseline ELSE Raw]
  /\ dpc' = IF HasCompressor THEN "compress" ELSE "flush"
  /\ UNCHANGED <<ringVars, loopVars, offset, truncated, flushVars, flightVars>>

Compress ==
  /\ dpc = "compress"
  /\ dpc' = "flush"
  /\ UNCHANGED <<ringVars, loopVars, frameVars, flushVars, flightVars>>

\* Variant: the frame is given up without a word.
CompressFailsUnreported ==
  /\ dpc = "compress"
  /\ EndDrain
  /\ UNCHANGED <<ringVars, frameVars, flushVars, flightVars>>

\* Compress fails or returns a length out of range: the frame is given up.
CompressFails ==
  /\ dpc = "compress"
  /\ compressReports' = compressReports + 1
  /\ EndDrain
  /\ UNCHANGED <<ringVars, frameVars, baseline, keyframeN, flushedBatches, flushedItems, flushErrs,
                 flightVars>>

NextKeyframeN ==
  IF DeltaEncoding /\ KeyframeInterval > 0
    THEN IF keyframeN + 1 >= KeyframeInterval THEN 0 ELSE keyframeN + 1
    ELSE keyframeN

\* What drainAndFlush does when flushWithTimeout has returned nil, or an error.
FlushSucceeded ==
  /\ flushedBatches' = flushedBatches + 1
  /\ flushedItems' = flushedItems + n
  /\ baseline' = IF DeltaEncoding THEN byteBuffer.number ELSE baseline
  /\ keyframeN' = NextKeyframeN
  /\ UNCHANGED <<flushErrs, compressReports>>

\* Variant: a failed flush advances the delta baseline too.
FlushFailedAdvances ==
  /\ flushErrs' = flushErrs + 1
  /\ baseline' = byteBuffer.number
  /\ UNCHANGED <<flushedBatches, flushedItems, keyframeN, compressReports>>

FlushFailed ==
  /\ flushErrs' = flushErrs + 1
  /\ UNCHANGED <<flushedBatches, flushedItems, baseline, keyframeN, compressReports>>

-----------------------------------------------------------------------------
(* flushWithTimeout                                                        *)

\* Variant: flushInFlight is not tested.
BusyUntested == FALSE

Timed == FlushTimeout # 0

Busy == Timed /\ flushInFlight

\* Sink.Flush is called, directly or in a goroutine on a snapshot.  New allocates
\* timeoutBuf for a positive FlushTimeout only; without it the snapshot is empty.
Flush ==
  /\ dpc = "flush" /\ ~Busy
  /\ flights' = Append(flights, [pc |-> "call", frame |-> byteBuffer, err |-> FALSE])
  /\ flushInFlight' = Timed
  /\ timeoutBuf' = IF FlushTimeout > 0 THEN byteBuffer ELSE timeoutBuf
  /\ dpc' = "await"
  /\ UNCHANGED <<ringVars, loopVars, frameVars, flushVars, outbox, delivered>>

\* Variant: the rejected frame is not counted as an error.
FlushBusyUncounted ==
  /\ dpc = "flush" /\ Busy
  /\ EndDrain
  /\ UNCHANGED <<ringVars, frameVars, flushVars, flightVars>>

\* The compare-and-swap on flushInFlight fails: ErrFlushTimeout at once.
FlushBusy ==
  /\ dpc = "flush" /\ Busy
  /\ FlushFailed
  /\ EndDrain
  /\ UNCHANGED <<ringVars, frameVars, flightVars>>

Awaited == flights[Len(flights)]

\* A direct call has returned, or its result has been sent on ch.
AwaitResult ==
  /\ dpc = "await" /\ Awaited.pc \in {"clear", "end"}
  /\ IF Awaited.err THEN FlushFailed ELSE FlushSucceeded
  /\ EndDrain
  /\ UNCHANGED <<ringVars, frameVars, flightVars>>

\* Variants: the flag is cleared on timeout; the call is waited for regardless.
AwaitTimeoutClears ==
  /\ dpc = "await" /\ Timed
  /\ FlushFailed
  /\ EndDrain
  /\ flushInFlight' = FALSE
  /\ UNCHANGED <<ringVars, frameVars, timeoutBuf, flights, outbox, delivered>>

AwaitTimeoutBlocks ==
  /\ dpc = "await" /\ Timed /\ Awaited.pc = "end"
  /\ FlushFailed
  /\ EndDrain
  /\ UNCHANGED <<ringVars, frameVars, flightVars>>

\* <-fctx.Done(): the deadline passes while the call is still running.
AwaitTimeout ==
  /\ dpc = "await" /\ Timed
  /\ FlushFailed
  /\ EndDrain
  /\ UNCHANGED <<ringVars, frameVars, flightVars>>

-----------------------------------------------------------------------------
(* The Sink.Flush calls.  The sink is not code of the engine: it may write *)
(* what its payload slice holds, fail before or, if FailsAfterWrite, after *)
(* writing, or never come back.                                            *)

Flying(f, label) == f \in DOMAIN flights /\ flights[f].pc = label

OutsideSink == UNCHANGED <<ringVars, loopVars, dpc, frameVars, flushVars>>

Returned == IF Timed THEN "send" ELSE "end"

\* Variant: the goroutine is handed the live buffer.
PayloadLive == byteBuffer

\* The buffer behind the payload slice.
PayloadBuffer == IF Timed THEN timeoutBuf ELSE byteBuffer

SinkWrite(f) ==
  /\ Flying(f, "call") /\ ~AsyncInner
  /\ delivered' = Append(delivered, [flight |-> f, frame |-> PayloadBuffer])
  /\ \E err \in IF FailsAfterWrite THEN BOOLEAN ELSE {FALSE} :
       flights' = [flights EXCEPT ![f].pc = Returned, ![f].err = err]
  /\ UNCHANGED <<flushInFlight, timeoutBuf, outbox>> /\ OutsideSink

\* CopyingSink.Flush copies the payload and hands the copy to an inner Flush that
\* queues it and returns nil; the inner sink transmits it later.
CopyingFlush(f) ==
  /\ Flying(f, "call") /\ AsyncInner
  /\ outbox' = Append(outbox, [flight |-> f, frame |-> PayloadBuffer])
  /\ flights' = [flights EXCEPT ![f].pc = Returned]
  /\ UNCHANGED <<flushInFlight, timeoutBuf, delivered>> /\ OutsideSink

\* Variant: the inner sink was given the engine's slice instead of a copy.
OwnedSlice(entry) == [entry EXCEPT !.frame = PayloadBuffer]

\* What the inner sink transmits: the copy made by CopyingSink.
Owned(entry) == entry

Transmit ==
  /\ outbox # << >>
  /\ delivered' = Append(delivered, Owned(Head(outbox)))
  /\ outbox' = Tail(outbox)
  /\ UNCHANGED <<flushInFlight, timeoutBuf, flights>> /\ OutsideSink

SinkFail(f) ==
  /\ Flying(f, "call")
  /\ flights' = [flights EXCEPT ![f].pc = Returned, ![f].err = TRUE]
  /\ UNCHANGED <<flushInFlight, timeoutBuf, outbox, delivered>> /\ OutsideSink

\* The goroutine of flushWithTimeout: ch <- err, then flushInFlight.Store(false).
Send(f) ==
  /\ Flying(f, "send")
  /\ flights' = [flights EXCEPT ![f].pc = "clear"]
  /\ UNCHANGED <<flushInFlight, timeoutBuf, outbox, delivered>> /\ OutsideSink

Clear(f) ==
  /\ Flying(f, "clear")
  /\ flushInFlight' = FALSE
  /\ flights' = [flights EXCEPT ![f].pc = "end"]
  /\ UNCHANGED <<timeoutBuf, outbox, delivered>> /\ OutsideSink

-----------------------------------------------------------------------------
(* Stats loads one counter after the other, and QueueDepth loads tail and  *)
(* head one after the other, so the snapshot is of no single moment.       *)
(* FlushedBatches, FlushErrors, BytesFlushed, CoalescedTicks and           *)
(* LastFlushAt, which count no items, are left out.  One call is enough:   *)
(* it changes nothing the others see.                                      *)

Load(field) ==
  CASE field = "Dropped"      -> dropped
    [] field = "Evicted"      -> evicted
    [] field = "Truncated"    -> truncated
    [] field = "FlushedItems" -> flushedItems
    [] field = "tail"         -> pushes - dropped
    [] field = "head"         -> Cardinality(lost) + Len(received[Drainer])

StatsLoad ==
  /\ CallsStats /\ loads < Len(LoadOrder)
  /\ loads' = loads + 1
  /\ stats' = [stats EXCEPT ![LoadOrder[loads + 1]] = Load(LoadOrder[loads + 1])]
  /\ UNCHANGED <<ringVars, ctx, mpc, shutdownDue, drainDone, dpc, frameVars, flushVars, flightVars>>

QueueDepth == IF stats.tail >= stats.head THEN stats.tail - stats.head ELSE 0

-----------------------------------------------------------------------------

ProducerStep ==
  \/ Push \/ PushFull \/ PushDropped \/ Publish
  \/ EvictOldest \/ EvictNothing \/ EvictRecycle \/ EvictCount

DrainStep ==
  \/ PopClaim \/ (\E w \in MarshalResults : Marshal(w)) \/ StopDrain
  \/ DrainEmpty \/ Seal \/ Compress \/ CompressFails
  \/ Flush \/ FlushBusy \/ AwaitResult \/ AwaitTimeout

LoopStep == Start \/ Cancel \/ Tick \/ CtxDone \/ ShutdownDeadline \/ FinalReturn

FlightStep(f) == SinkWrite(f) \/ CopyingFlush(f) \/ SinkFail(f) \/ Send(f) \/ Clear(f)

Next ==
  \/ ProducerStep \/ LoopStep \/ DrainStep \/ Transmit \/ StatsLoad
  \/ \E f \in 1..MaxPush : FlightStep(f)

Spec == Init /\ [][Next]_vars

-----------------------------------------------------------------------------
(* Properties                                                              *)

Frames ==
  [number : 0..MaxPush, seq : 0..(SeqSpace - 1), items : Seq(Items), base : {Raw} \cup 0..MaxPush]

\* The variables stay in their types; the cursor of the keyframe cycle stays
\* below KeyframeInterval and the frame within the buffer and the 16-bit count
\* of its header, whatever length Marshal claims to have written.
TypeOK ==
  /\ queue \in Seq(Items) /\ received \in [{Drainer} -> Seq(Items)] /\ lost \subseteq Items
  /\ pending \subseteq Items /\ held \in 0..Capacity /\ evicting \subseteq 1..Capacity
  /\ {pushes, dropped, blocked, evicted} \subseteq 0..MaxPush
  /\ ctx \in {"live", "cancelled"} /\ {shutdownDue, drainDone, flushInFlight} \subseteq BOOLEAN
  /\ mpc \in {"off", "select", "tick", "final", "finalWait", "exited"}
  /\ dpc \in {"idle", "pop", "marshal", "seal", "compress", "flush", "await"}
  /\ offset \in HeaderSize..MaxBatchSize /\ n <= MaxCount
  /\ {byteBuffer, timeoutBuf} \subseteq Frames
  /\ keyframeN = 0 \/ keyframeN \in 1..(KeyframeInterval - 1)
  /\ sequenceID \in 0..(SeqSpace - 1)
  /\ {sealed, truncated, baseline, flushedBatches, flushedItems, flushErrs,
      compressReports} \subseteq 0..MaxPush
  /\ flights \in Seq([pc : {"call", "send", "clear", "end"}, frame : Frames,
                      err : BOOLEAN])
  /\ {outbox, delivered} \subseteq Seq([flight : DOMAIN flights, frame : Frames])
  /\ loads \in 0..Len(LoadOrder)
  /\ stats \in [{LoadOrder[k] : k \in DOMAIN LoadOrder} -> 0..MaxPush]

\* flushInFlight serialises Sink.Flush: however flushes time out and late calls
\* linger, two calls are never inside the sink at once.
OneFlushAtATime ==
  \A f, g \in DOMAIN flights :
    flights[f].pc = "call" /\ flights[g].pc = "call" => f = g

\* Whatever a call writes, however late, is the frame it was called with: the
\* drain loop never overwrites a payload that an abandoned call still reads.
SnapshotStable ==
  \A i \in DOMAIN delivered : delivered[i].frame = flights[delivered[i].flight].frame

\* The receiver sees every item at most once, in the order the items were pushed,
\* and the frames in the order they were sealed, even when they arrive after the
\* engine gave up on them.  A header's sequence number is its frame's number modulo
\* 2^32, so a gap tells the receiver how many frames are missing, up to a wrap.
DeliveredInOrder ==
  \A i \in DOMAIN delivered :
    LET d == delivered[i].frame IN
    /\ d.seq = d.number % SeqSpace
    /\ \A k, l \in DOMAIN d.items : k < l => d.items[k] < d.items[l]
    /\ \A j \in 1..(i - 1) :
         LET e == delivered[j].frame IN
         /\ e.number < d.number
         /\ \A k \in DOMAIN d.items, l \in DOMAIN e.items : e.items[l] < d.items[k]

DeliveredItems ==
  UNION {{d.frame.items[k] : k \in DOMAIN d.frame.items} :
           d \in {delivered[i] : i \in DOMAIN delivered} \cup {outbox[i] : i \in DOMAIN outbox}}

\* FlushedItems never exceeds what the sink was handed, and every sequence number, up
\* to a wrap, is accounted for: by FlushedBatches, by FlushErrorCount, by an error of
\* the Compressor (which is reported but in no counter) or by the frame in progress.
CountersAgree ==
  /\ flushedItems <= Cardinality(DeliveredItems)
  /\ sequenceID = (flushedBatches + flushErrs + compressReports
                     + (IF dpc \in {"compress", "flush", "await"} THEN 1 ELSE 0)) % SeqSpace

\* Every delta frame the sink writes was XORed with the frame it wrote just before
\* (with the zero frame if it is the first): SPEC.md's receiver can reconstruct it.  A
\* failed flush leaves the baseline, as SPEC.md says and RUNBOOK.md denies.
ChainIntact ==
  \A i \in DOMAIN delivered :
    LET d == delivered[i].frame IN
    d.base # Raw => d.base = IF i = 1 THEN 0 ELSE delivered[i - 1].frame.number

\* When Start's channel is closed before the shutdown deadline, no error was reported
\* and no item truncated, every item the ring accepted and did not evict was flushed.
NoneAbandoned ==
  mpc = "exited" /\ ~shutdownDue /\ flushErrs + compressReports + truncated = 0
    => flushedItems = pushes - dropped - Cardinality(lost)

\* Once Start's channel is closed before the shutdown deadline, and no flush ever ran
\* under a FlushTimeout, nothing of the engine is inside the sink or will call it
\* again: the sink may be closed, as the comment of TCPSink.Close asks.
SafeToClose ==
  mpc = "exited" /\ ~shutdownDue /\ ~Timed
    => dpc = "idle" /\ \A f \in DOMAIN flights : flights[f].pc = "end"

\* A snapshot counts no item twice, although items move from the ring to a frame and
\* to a counter while it is taken: what it reports as lost, flushed or queued adds up
\* to no more than was pushed.  So, contrary to the comment of Stats, a QueueDepth read
\* after FlushedItems reflects every flush that FlushedItems does: FlushedItems is loaded
\* first, and head has passed the items of a flush before they are counted.
CountsOnce ==
  loads = Len(LoadOrder)
    => stats.Dropped + stats.Evicted + stats.Truncated + stats.FlushedItems + QueueDepth <= pushes

\* QueueDepth never exceeds QueueCap, whatever pushes, pops and evictions happen
\* between its two loads, so that QueueDepth/QueueCap is a load factor.
DepthWithinCap == loads = Len(LoadOrder) => QueueDepth <= Capacity

=============================================================================
