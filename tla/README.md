# tickbatch: TLA+ specifications and proofs

tickbatch collects small items from many goroutines and sends them to a sink in
batches, once per tick. This directory holds TLA+ specifications of its parts,
from the ring buffer to the decoder at the other end of the connection, TLC
configurations that model-check them on small instances, and TLAPS proofs about
the ring buffer, the engine and the delta encoding for every size.

## The system and its parts

| Part | Source | State | Operations that change it | Modelled in |
|---|---|---|---|---|
| Ring buffer | `ringbuf.go` | `head`, `tail`, `seqs`, `data`, `evicted` | `push`, `evictOldest`, `popMarshal`, `pop` | `RingBuf` |
| Push, loss counters | `batcher.go` | `dropped` | `Push` | `RingBuf` |
| Drain and flush | `batcher.go` | `byteBuffer`, `sequenceID`, `previousState`, `keyframeN`, counters | `drainAndFlush` | `Engine` (control), `DeltaLink` (bytes) |
| Flush timeout | `batcher.go` | `flushInFlight`, `timeoutBuf`, result channel | `flushWithTimeout` and its goroutine | `Engine` |
| Run loop, shutdown | `batcher.go` | the Start context, the final drain's goroutine | `Start`, `runLoop`, `finalDrain` | `Engine` |
| Configuration | `batcher.go` | none | `New`, `MustNew` | as assumptions on constants |
| Observability | `batcher.go` | none (reads) | `QueueDepth`, `Stats` | `Engine` |
| XOR transform | `encode.go` | none (pure) | `xorBytes` | `XorBytes` |
| Codec | `codec/codec.go` | the receiver's previous frame | `Decode`, `DeltaReconstructor.Reconstruct` | `Codec`, `DeltaLink` |
| TCP sink | `tcp_sink.go` | the connection and what it accepted | `Flush`, `Close` | `TcpSink` |
| Copying sink | `copy_sink.go` | none | `Flush` | `Engine` |
| UDP sink, error reporting, contrib adapters, test helpers, example | several | none that the engine depends on | | no |

Many goroutines call `Push`. One drain goroutine takes items out of the ring,
marshals them into a frame and calls `Sink.Flush`. With `FlushTimeout` the call
runs in a goroutine of its own, which the drain goroutine may stop waiting for.
With `ShutdownTimeout` the final drain runs in a goroutine that `runLoop` may
abandon. A `TCPSink` writes the frames to a connection, at whose other end a
receiver takes them apart and decodes them. `PROJECT.json` lists the parts, the
hazards with the line where each bites, and the source lines behind every definition.

## Modules

* `BoundedQueue` is what the ring promises: a bounded FIFO queue with optional
  eviction of the oldest item.
* `SlotQueue` adds what the engine can see of the ring's inside, with its one
  consumer: `pending` (items claimed, not yet published, which block the head),
  `held` (the slot popMarshal occupies while Marshal runs) and `evicting` (slots that
  evictions have passed and not yet recycled). Slots are named by their distance from
  the head, so that a Push finds no room when one of them is a lap behind.
* `RingBuf` is `ringbuf.go` with one step per atomic load, store and
  compare-and-swap and one per plain access to `data[idx]`. `sync/atomic` is
  sequentially consistent, so behaviours are interleavings. `log`, `taken` and
  `out` are history variables.
* `RingRefinement` maps it to `BoundedQueue` (`Abstract`) and, with one consumer, to
  `SlotQueue` (`SlotView`). The linearization points are the successful
  compare-and-swaps on `tail` and `head`; the stores to the sequence numbers publish
  and recycle.
* `RingProgress` has the liveness properties, `RingClaims` states what the comment
  of `DropOldest` says, and `MCRingBuf` adds the symmetry of producers.
* `Engine` is the rest of `batcher.go`. It uses `SlotQueue` for the ring, which
  `RingBuf` implements (`RingIsSlotQueue`), one step of it at a time; `blocked` counts
  the Push calls that found no slot and have yet to drop their item or try an eviction,
  by which time the ring may look different. An eviction passes the head, recycles
  the slot and is counted in three steps. A frame is its sequence number, its items and, for
  delta frames, the frame it was XORed with. `sequenceID` wraps at `SeqSpace`, which
  stands for 2^32, so the history variable `sealed` numbers the frames. `flights` has one
  record for each `Sink.Flush` call. The sink is the environment: it reads its
  payload when it likes, fails, hangs, and with `FailsAfterWrite` reports an
  error for what it delivered. With `AsyncInner` it is a `CopyingSink` around a
  sink that transmits only after `Flush` has returned. With `CallsStats` somebody
  calls `Stats`, one step per load.
* `EngineProgress` adds fairness. `EngineClaims` states what a comment of
  `flushWithTimeout` says, with a history variable for the calls whose result was
  received and counted. `MCEngine` defines lengths a configuration cannot write.
* `Bytes` has bytes as sets of bits, so that XOR is symmetric difference.
  `XorBytes` has the three loops of `xorBytes` as the sets of indices they write,
  `Codec` the decoder, and `TcpSink` a `Flush` that the connection accepts piece by
  piece and may cut off.
* `DeltaLink` composes them: the sender of `drainAndFlush` at byte level, the sink,
  the connection and a receiver that may start over in mid-stream. `sent`,
  `disowned`, `synced` and `last` are history variables; `disowned` says that a
  `Flush` which the sender takes for failed has left bytes on the stream. The
  fields of the header and the length prefix are one byte each.
* `MCDeltaLink` defines the checksum and bodies for TLC; `LinkClaims` states what
  `SPEC.md` and a comment of `TCPSink` say.
* The proofs about the ring are in `RingBufTypes` (types, slot arithmetic, order of
  pushes), `RingBufInvariant` (one lemma for each step of push, popMarshal and
  evictOldest) and `RingBufProofs` (loss counters, what follows from the invariant,
  and the two refinements).
* Those about the engine are in `EngineProofs` (the calls of `Sink.Flush`),
  `EngineOrder` (what arrives, in which order), `EngineCounts` (the counters, `Stats`
  and shutdown) and `EngineDelivery` (the delta chain, counters against deliveries,
  types); each extends the one before it.
* Those about `xorBytes` and the link are in `DeltaLinkProofs`.

Definitions whose comment starts with "Variant" are deliberately wrong versions
of the definition after them. No specification uses them; they show that a
property fails when the code is changed in that way.

## Runs that pass

| Configuration | Module | Shows |
|---|---|---|
| `RingMPMC` | `MCRingBuf` | two producers, two consumers, `DropNewest`: queued items intact, per-producer order, no data race, intact delivery, a Push refused only when its slot is taken |
| `RingOldest` | `RingProgress` | with evictions: `IInv`, exact loss counters, refinement of `BoundedQueue` and `SlotQueue`; a call returns even if every other goroutine stops for ever; every accepted item leaves the ring |
| `EngineDirect` | `Engine` | direct flushes through a `CopyingSink`: the delta chain is intact and every sequence number accounted for, whatever flushes and compressions fail; late transmission carries the right frame; clean shutdown delivers everything that fits one frame and leaves nothing in the sink; `Stats` counts no item twice and no depth above the capacity |
| `EngineTimeout` | `MCEngine` | hanging, failing and late sinks, any length from Marshal: no overlapping calls, stable snapshots, ordered delivery, frame bounds, counters; the loop keeps draining and shuts down although the sink hangs |
| `DeltaLink` | `MCDeltaLink` | the length prefix keeps frames apart; a synchronised receiver recovers every frame; any other gets checksum errors until a keyframe; the sender's baseline is the last frame, zero-extended |

Bounds. Two slots are the smallest ring in which laps, full, empty and held
slots all occur and the algorithm is meant to work; two calls by each of two
producers wrap it twice. Two producers are needed for every race
between producers, two consumers for those between consumers. In `Engine`,
`MaxPush` items allow that many frames: one abandoned, one rejected, one after
it. `SeqSpace` is two, so that sequence numbers wrap. `MaxCount` stands for 65535, `HeaderSize` for 8 and `MaxEvictRetries` for
128; the sizes are scaled so that each limit is reached. `ShutdownTimeout` is
read once, when the context is done, so both of its kinds are tried there.
`CHECK_DEADLOCK FALSE` is set for `Engine` and `DeltaLink` because they end, by
shutdown or after `MaxFrames` frames.

In `DeltaLink` five frames pass a keyframe interval of three and wrap sequence
IDs of four values. Frames of three and five bytes with words of two bytes and an
unrolling of two reach all loops of `xorBytes`, and shrink and grow; a frame of
six exceeds `MaxPayload`, which stands for 2^32 - 1. The checksum has the
structure of CRC-32 (reflected, preset, complemented, truncated) with a register
of six bits. A checksum so short collides easily, so the bodies are chosen to
have different ones and lengths other than two, the one length at which the
checksum of zeros is zero (see below). The constraint `OwnedStream` stops at the
first stray byte: all properties of the run are about streams without one, and
`LinkClaimFraming` shows what comes after.

Fairness. In module `RingProgress` it is an assumption of each property: `CallsReturn`
assumes that the calling goroutine alone keeps running, `NoneStranded` that all
do. push is lock-free, not wait-free: `CallsReturn` relies on the bound `MaxPush`
for the number of times other producers can win the race for a position.
`EngineProgress` assumes that Go runs every runnable goroutine and fires its
timers (weak fairness) and that `select` picks at random, so a case that is ready
again and again is chosen (strong fairness of `ctx.Done()`).
Nothing is assumed of the sink.

## Where code and documents disagree

Each is a run that is expected to violate its one property.

| Configuration | What happens |
|---|---|
| `RingSizeOne` | `QueueSize` 1 is accepted, and a Push overwrites the queued item |
| `RingClaimEvicts` | under `DropOldest` a Push evicts items that do not make room for it |
| `EngineClaimShutdown` | the final drain sends one frame only; the rest stays in the ring |
| `EngineClaimBusy` | `ErrFlushTimeout` because of a call that returned nil and was counted: its goroutine sends the result before it clears `flushInFlight`. Clearing first would repair it |
| `EngineClaimDelta` | a timed-out frame that arrives late breaks the delta chain |
| `LinkClaimKeyframe` | a delta frame is taken for a keyframe, and decoded to something else without an error |
| `LinkClaimFraming` | a write cut off by its deadline leaves half a frame on the stream, and the receiver misreads what follows |

`LinkClaimKeyframe` needs a word of explanation. The first delta frame after a
keyframe always has the keyframe bit set, because one of the two headers has it
and the other has not. What is left to tell it from a keyframe is the checksum of
the XORed body. CRC-32 is affine: for two bodies of one length, the checksum of
their XOR is the XOR of their checksums and of the checksum of as many zeros. So
the direct check passes whenever the checksum of that many zeros, truncated to 15
bits, is zero, whatever the data is. Up to 40000 bytes that happens at
5017 and 35321. `MCDeltaLink` scales the checksum so that it happens at two bytes,
which its assumption `CrcOfZeros` states. At other lengths, and for frames of
different lengths, it remains a collision of a 15-bit checksum.

Two more are the other way round: the code does better than the document says, and
what the document says is one of the variants that a passing run rules out.

* `RUNBOOK.md`, line 37, says that with `DeltaEncoding` "any missed flush advances the
  sender's XOR baseline", so that every later delta frame decodes incorrectly, and that
  the engine "has no built-in mechanism to force a reference frame". The code does
  what `SPEC.md`, lines 111 to 116, says: `previousState` moves only when `Flush`
  returns nil (`batcher.go`, lines 643 to 650), and `KeyframeInterval` sends reference
  frames. `ChainIntact`, `BaselineIsLastFrame` and `Reconstructed`, and the theorems
  `DeltaChain`, `BaselineTracksStream` and `StreamIsReconstructed`, show the chain
  intact across missed flushes; the runbook's sentence is the variant
  `FlushFailedAdvances`, under which `ChainIntact` fails. The runbook's step is still
  right about two cases, both listed above: a flush that timed out and was delivered
  late (`EngineClaimDelta`), and a write cut off in the middle (`LinkClaimFraming`).
* The comment of `Stats` (`batcher.go`, lines 396 to 400) gives as an example of a torn
  snapshot that "FlushedItems may reflect a flush that QueueDepth, read a moment later,
  does not". `CountsOnce` and `SnapshotsCountOnce` show that it cannot: the head passes
  an item before it is counted as flushed, and `Stats` loads `FlushedItems` before
  `QueueDepth` loads the head. The snapshot can be torn the other way only: a depth
  may already miss items that no counter shows yet. The comment's example would come true if
  the depth were loaded first (the variant `LoadOrderDepthFirst`).

Three smaller ones have no run of their own. A Push under `DropOldest` can also be
dropped because the consumer is inside Marshal, where the comment of
`DroppedCount` names only a stalled producer. At the shutdown deadline
`runLoop` may return before a context-aware sink does, since `base.Done()`
releases both at once. And a negative `FlushTimeout`, which `New` accepts, takes
the timeout path without a snapshot buffer, so that the sink gets an empty payload.

## Proofs

Every safety property that a run checks is also a theorem, for all values of the
constants. What a theorem assumes beyond the named assumptions on constants
(`RingAssumption`, `EngineAssumption`, `BytesAssumption`, `XorAssumption`,
`TcpAssumption`, `LinkAssumption`, `PrefixAssumption`) is in its statement, and in
the tables below.

### The ring

For any sets of producers and consumers, both policies, any retry cap and any number
of calls:

| Theorem | Property | Assumes |
|---|---|---|
| `TypeCorrect` | `TypeOK` | |
| `PushesInOrder` | `ProducerOrder` | |
| `LossesCounted` | `CountersExact` | finitely many producers |
| `RingInvariant` | `IInv` | `QueueSize >= 2` |
| `RaceFreedom` | `NoDataRace` | `QueueSize >= 2` |
| `ItemsSurvive` | `QueuedPreserved` | `QueueSize >= 2` |
| `ItemsArriveIntact` | `DeliveredIntact` | `QueueSize >= 2` |
| `FullMeansFull` | `FullIsFull` (an action property) | `QueueSize >= 2` |
| `RingIsQueue` | `RefinesQueue` (a refinement) | `QueueSize >= 2` |
| `RingIsSlotQueue` | `RefinesSlots` (a refinement) | `QueueSize >= 2`; one consumer |

None of the properties is inductive alone. `IInv` adds what the sequence numbers
mean: the cell of a queued position is published or owned by the producer that
claimed it; the cell of a position still to be claimed is free or owned by the
thread that holds the position one lap earlier; owners are unique; and what a
thread saw before a compare-and-swap still holds if it is going to succeed. The
step needs that positions less than a lap apart use different slots
(`IdxDistinct`) and that a published cell is never equal to a free one, which is
where `QueueSize >= 2` comes in; `RingSizeOne` shows that it is needed. `QueueSize`
need not be a power of two in the proofs.

`RingIsQueue` maps the ring to `BoundedQueue` by the items at positions `head` to
`tail`. The compare-and-swap on `tail` appends, those on `head` take or evict, and
every other step stutters; that the appended item still has room is `IInv`.
`RingIsSlotQueue` says more: it is what entitles `Engine` to a ring of its own. The
claim adds to `pending` and the publishing store removes from it; the consumer's
compare-and-swap sets `held`, an evictor's adds to `evicting`, and the recycling
stores take them out again. Two facts of `IInv` carry it. The sequence number a Push
saw as free stays so until its compare-and-swap, so no holder is a lap behind the
tail at that step; and no two threads hold the same position, so that recycling one
slot removes one distance and leaves the others. The drain goroutine is the only
consumer of an engine, which is the theorem's second condition.
Order and counters need no `IInv`: they follow from the effect each step has on the
history (`StepEffects`), a producer having at most one Push under way.

### The engine

For every `QueueSize` of two or more that `New` accepts, every buffer size, policy and
number of items, any results of Marshal, the compressor and the sink, every
`ShutdownTimeout` and any size of the sequence number:

| Theorem | Property | Assumes |
|---|---|---|
| `CallsDoNotOverlap` | `OneFlushAtATime` | |
| `WritesAreFaithful` | `SnapshotStable` | `FlushTimeout >= 0` |
| `ClosedWhenQuiet` | `SafeToClose` | |
| `ArrivalsInOrder` | `DeliveredInOrder` | `FlushTimeout >= 0` |
| `SnapshotsCountOnce` | `CountsOnce` | |
| `DepthIsALoadFactor` | `DepthWithinCap` | |
| `ShutdownFlushesAll` | `NoneAbandoned` | a sink; producers halt first; a full queue fits one frame |
| `DeltaChain` | `ChainIntact` | no `FlushTimeout`; the sink fails only before it writes |
| `CountersAreHonest` | `CountersAgree` | `FlushTimeout >= 0` |
| `EngineTypeCorrect` | `TypeOK` | |

`New` also accepts a `QueueSize` of one, at which the ring is no queue (`RingSizeOne`) and
even the depth can exceed the capacity; `EngineAssumption` leaves it out.
`FlushTimeout >= 0` is there because `New` accepts a negative one and the sink then
gets an empty payload. The conditions of `ShutdownFlushesAll` and `DeltaChain` are
those under which the code keeps the promise: `EngineClaimShutdown` and
`EngineClaimDelta` show the failure without them.

The invariants build on one another.

* `FlushInv`: only the last call of `Sink.Flush` may not have ended, and until it
  has, `flushInFlight` stays set (with a timeout) or the drain goroutine waits
  (without). So neither `timeoutBuf` nor `byteBuffer` is filled again while a call
  can read it, and a final drain that is over has left no direct call behind.
* `OrderInv` and `StreamInv`: items leave the ring in order; every frame given to the
  sink is older than the one under construction, in its items and its number, of which
  its sequence number is the remainder (`SequenceWraps`); and calls write at most once, in the order they were made. The stream is what was
  delivered followed by what a copying sink has yet to transmit.
* `LedgerInv`: two accounts. Every pushed item is dropped, evicted, queued or taken
  (`RingLedger`), and no eviction is counted before its slot is recycled; every item taken is flushed, truncated or in the frame under way,
  unless a flush or a compression failed (`FrameLedger`). `StatsInv` says what each
  load of `Stats` can still be compared with after the counters have moved on:
  evictions, truncations and flushed items are loaded before `head`, which has passed
  all of them.
* `SizeInv` and `FinalInv`: while the final drain runs, the queue and the frame so far
  fit the buffer, so the drain ends because the queue is empty. The product of
  items and `MaxItemSize` makes this nonlinear, and `ProductGrows` has the one fact
  that is needed.
* `ChainInv` and `CountInv`: the baseline is the frame at the end of the stream unless
  its success has still to be learnt, and the items counted as flushed are among those
  on the stream.
* `TypeInv`: the ranges, most of which follow from the accounts.

### The delta encoding and the link

For every buffer size, keyframe interval, word size, unrolling, set of bodies and
checksum function, every split of the writes and every pattern of failures:

| Theorem | Property | Assumes |
|---|---|---|
| `XorExact` | `xorBytes` is the byte-wise XOR | |
| `RoundTrip` | a receiver with the sender's baseline recovers a delta frame | its bytes do not read as a keyframe |
| `BaselineTracksStream` | `BaselineIsLastFrame` | |
| `PrefixKeepsFramesApart` | `FramesKeptApart` | |
| `StreamIsReconstructed` | `Reconstructed` | no keyframes, or `ChecksumsApart` |
| `JoinersAreTold` | `DesyncDetected` | `ChecksumsApart` |

`ChecksumsApart` says that the checksum of the XOR of two bodies is not the XOR of
their checksums. A receiver can be misled only by a frame for which it fails: the
delta frame after a keyframe, and any delta frame read without its baseline. For
bodies of one length CRC-32 guarantees it, except at the lengths `LinkClaimKeyframe`
is about; for bodies of different lengths it can fail by collision. TLC
evaluates it on the bodies of the run (`Apart` in `MCDeltaLink`). `PrefixAssumption`
says that reading a length prefix inverts writing it. It is a fact about `Put` and
`Get`, but its proof needs induction over the bits, so TLC evaluates it instead.

* `XorExact`: the unrolled loop writes the words below the largest multiple of
  `Unroll`, the second loop the rest, and the tail the bytes beyond the last word
  (`WordLoops`, `AllWritten`).
* `LinkInv`: `prevOffset` is the length of the last frame, which makes clearing up to
  it enough, and a `Flush` about to return nil has written the frame in `byteBuffer`
  last.
* `StreamInv`: there are positions on the stream at which the payloads sent so far
  begin, one behind the other, and only the part already accepted of a frame being
  written follows. The receiver stands at one of them, and what it read last is the
  payload before it (`ReadInv`).
* `CodecInv`: each payload sent is the XOR of a sealed frame and the one sent before
  it, or is a keyframe, and a receiver in step has that earlier frame. `SyncInv` and
  `DesyncInv` then say what it gets out of the next payload.

### Model-checked only

Liveness (`CallsReturn`, `NoneStranded`, `StopsAfterCancel`, `KeepsDraining`) needs
fairness and `ENABLED`, which are out of the prover's reach. The claims that fail are
shown by TLC's counterexamples. What the scaled checksum of `MCDeltaLink` computes is
evaluated by TLC (`CrcOfZeros`, `Apart`).

## Not modelled

Time: `CoalescedTicks` and `LastFlushAt`; deadlines may pass at any moment. Also
`BytesFlushed`, the rate limit of `reportError`, and the order and arithmetic of
`New`'s checks. Wrapping of 64-bit cursors (unreachable). The panic on a second
Start and that of `xorBytes` on short buffers, which its one caller cannot cause.
How a sink reacts to its context other than by a write deadline. The UDP sink,
adapters, test helpers and example, which have no state the engine depends on.

In `Engine`, a Push under `DropOldest` may give up whenever it finds no slot, and its
eviction may come to nothing, since its attempts and what it loaded of the head are
only in `RingBuf`. Of `New`'s checks, `TickRate` has no counterpart, and that
`DeltaEncoding` needs a `ReliableSink` is the sink's behaviour in the model. In `DeltaLink` the item count of the header and
compression are left out, a frame is flushed after the call before it has returned
(frames rejected by `flushInFlight` reach no connection and change no baseline), and
a lost connection stays lost, as `TCPSink` never dials again.

## Plan

1. Late flushes at byte level: `flushWithTimeout` of `Engine` in the place of
   `DeltaLink`'s sender, so that an abandoned call writes while later frames are sealed.
2. `New`'s validation with integers of their width.
