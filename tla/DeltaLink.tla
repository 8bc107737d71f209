----------------------------- MODULE DeltaLink -----------------------------
(***************************************************************************)
(* A stream from end to end: the frames drainAndFlush seals and, with      *)
(* DeltaEncoding, XORs with the last frame it flushed (batcher.go); the    *)
(* TCPSink that writes them to a connection; a receiver that reads them as *)
(* the comment of TCPSink says and decodes them with the codec package.    *)
(* The sender does not see what the receiver gets: it takes a frame for    *)
(* delivered when Flush returns nil.  The receiver may start over with a   *)
(* new DeltaReconstructor in the middle of the stream.                     *)
(***************************************************************************)
EXTENDS XorBytes, Codec, TcpSink

CONSTANTS
  DeltaModes,        \* values of cfg.DeltaEncoding to consider
  KeyframeInterval, MaxBatchSize,
  SeqSpace,          \* 2^32, the values of the sequence ID
  Bodies,            \* the bodies a drain may marshal
  MaxFrames,         \* bound: number of frames
  MaxRejoins         \* bound: how often the receiver starts over

ASSUME LinkAssumption ==
  /\ DeltaModes \subseteq BOOLEAN
  /\ {KeyframeInterval, MaxBatchSize, MaxFrames, MaxRejoins} \subseteq Nat
  /\ SeqSpace \in 1..2^ByteBits /\ MaxPayload < 2^ByteBits
  /\ Bodies \subseteq {b \in Seq(Byte) : HeaderSize + Len(b) <= MaxBatchSize}
  /\ \A b \in Bodies : Crc(b) \subseteq 0..(ByteBits - 2)

\* binary.Uint32 inverts PutUint32 on every length the prefix can carry.
ASSUME PrefixAssumption == \A k \in 0..MaxPayload : Get(Put(k)) = k

VARIABLES
  DeltaEncoding,                 \* cfg.DeltaEncoding
  sequenceID, byteBuffer,
  previousState, prevOffset, keyframeN,
  frames,                        \* frames sealed
  prev,                          \* DeltaReconstructor.prev
  rpos, reads, rejoins,          \* bytes and frames read; restarts
  last,                          \* history: the last frame read, and what it gave
  synced,                        \* history: the receiver has the sender's baseline
  sent,                          \* history: the frames written in full
  disowned                       \* history: a Flush taken for failed left bytes behind

senderVars   == <<DeltaEncoding, sequenceID, byteBuffer, previousState, prevOffset, keyframeN, frames>>
receiverVars == <<prev, rpos, reads, rejoins, last, synced>>
historyVars  == <<sent, disowned>>
vars == <<senderVars, tcpVars, receiverVars, historyVars>>

Zeros(k) == [i \in 1..k |-> Zero]

Init ==
  /\ TcpInit /\ DeltaEncoding \in DeltaModes
  /\ sequenceID = 0 /\ byteBuffer = << >> /\ previousState = Zeros(MaxBatchSize)
  /\ prevOffset = 0 /\ keyframeN = 0 /\ frames = 0
  /\ prev = << >> /\ rpos = 0 /\ reads = 0 /\ rejoins = 0
  /\ last = [frame |-> << >>, synced |-> TRUE, err |-> "none", raw |-> << >>]
  /\ synced = TRUE /\ sent = << >> /\ disowned = FALSE

-----------------------------------------------------------------------------
(* The sender: drainAndFlush once the items are marshalled                 *)

IsKeyframe == DeltaEncoding /\ KeyframeInterval > 0 /\ keyframeN = 0

NextSeq == (sequenceID + 1) % SeqSpace

Tag(body) == Crc(body) \cup (IF IsKeyframe THEN {KeyframeBit} ELSE {})

RawFrame(body) == <<Put(NextSeq), Tag(body)>> \o body

\* xorBytes writes every byte of its destination (XorExact), so what deltaBuffer held
\* before is not kept.
Encoded(raw) ==
  IF DeltaEncoding /\ ~IsKeyframe
    THEN Xored(Zeros(Len(raw)), raw, SubSeq(previousState, 1, Len(raw)))
    ELSE raw

Seal(body) ==
  /\ frames < MaxFrames
  /\ Flush(Encoded(RawFrame(body)))
  /\ sequenceID' = NextSeq
  /\ byteBuffer' = RawFrame(body)
  /\ frames' = frames + 1
  /\ UNCHANGED <<DeltaEncoding, previousState, prevOffset, keyframeN, receiverVars, historyVars>>

\* Variant: the bytes beyond a shorter frame keep their old values.
AdvancedStale ==
  [k \in 1..MaxBatchSize |-> IF k <= Len(byteBuffer) THEN byteBuffer[k] ELSE previousState[k]]

\* copy(previousState, byteBuffer) and the clear of what a longer frame left.
Advanced ==
  [k \in 1..MaxBatchSize |->
     IF k <= Len(byteBuffer) THEN byteBuffer[k]
     ELSE IF k <= prevOffset THEN Zero
     ELSE previousState[k]]

\* Flush returned nil.
FlushSucceeded ==
  /\ FlushReturns /\ ~ferr
  /\ IF DeltaEncoding
       THEN /\ previousState' = Advanced
            /\ prevOffset' = Len(byteBuffer)
            /\ keyframeN' = IF KeyframeInterval = 0 \/ keyframeN + 1 >= KeyframeInterval
                              THEN 0 ELSE keyframeN + 1
       ELSE UNCHANGED <<previousState, prevOffset, keyframeN>>
  /\ UNCHANGED <<DeltaEncoding, sequenceID, byteBuffer, frames, receiverVars, historyVars>>

\* Flush returned an error, or its deadline made flushWithTimeout return
\* ErrFlushTimeout although Flush was about to return nil.
FlushFailed ==
  /\ FlushReturns /\ (ferr \/ HasDeadline)
  /\ disowned' = (disowned \/ n > 0)
  /\ UNCHANGED <<senderVars, receiverVars, sent>>

-----------------------------------------------------------------------------
(* The connection                                                          *)

Transmit(k) ==
  /\ Accept(k)
  /\ sent' = IF fpc' = "return"
               THEN Append(sent, [payload |-> payload, raw |-> byteBuffer, keyframe |-> IsKeyframe])
               ELSE sent
  /\ UNCHANGED <<senderVars, receiverVars, disowned>>

CutOff == WriteFails /\ UNCHANGED <<senderVars, receiverVars, historyVars>>

Disconnect == Close /\ UNCHANGED <<senderVars, receiverVars, historyVars>>

-----------------------------------------------------------------------------
(* The receiver                                                            *)

\* A length, then exactly that many bytes, once they have arrived.
FrameLen == Get(stream[rpos + 1])
FrameArrived == rpos < Len(stream) /\ rpos + 1 + FrameLen <= Len(stream)
NextFrame == SubSeq(stream, rpos + 2, rpos + 1 + FrameLen)

\* Whether the next frame to read was sealed as a keyframe.
AtKeyframe == reads < Len(sent) /\ sent[reads + 1].keyframe

Received(frame) == IF DeltaEncoding THEN Reconstruct(prev, frame) ELSE Decode(frame)

Read ==
  /\ FrameArrived
  /\ LET result == Received(NextFrame) IN
     /\ last' = [frame |-> NextFrame, synced |-> synced \/ AtKeyframe,
                 err |-> result.err, raw |-> result.raw]
     /\ prev' = IF DeltaEncoding /\ result.err = "none" THEN result.raw ELSE prev
  /\ synced' = (synced \/ AtKeyframe)
  /\ rpos' = rpos + 1 + FrameLen
  /\ reads' = reads + 1
  /\ UNCHANGED <<senderVars, tcpVars, rejoins, historyVars>>

\* The receiver starts over with the zero DeltaReconstructor.
Rejoin ==
  /\ reads > 0 /\ rejoins < MaxRejoins
  /\ prev' = << >>
  /\ rejoins' = rejoins + 1
  /\ synced' = ~DeltaEncoding
  /\ UNCHANGED <<senderVars, tcpVars, rpos, reads, last, historyVars>>

-----------------------------------------------------------------------------

Next ==
  \/ \E body \in Bodies : Seal(body)
  \/ FlushSucceeded \/ FlushFailed
  \/ \E k \in 1..(MaxPayload + 1) : Transmit(k)
  \/ CutOff \/ Disconnect \/ Read \/ Rejoin

Spec == Init /\ [][Next]_vars

-----------------------------------------------------------------------------
(* Properties                                                              *)

\* The length prefix keeps frames apart: as long as no Flush that the sender takes
\* for failed has left bytes on the stream, the receiver's k-th read yields the
\* payload of the k-th Flush that wrote in full, whatever pieces the connection
\* took it in and whichever payloads were rejected as too long.
FramesKeptApart ==
  reads > 0 /\ ~disowned => reads <= Len(sent) /\ last.frame = sent[reads].payload

\* XOR, zero extension, keyframes and the sender's baseline fit together: under the
\* same condition a receiver that has read from the start, or has read a keyframe
\* since it started over, recovers exactly the frame that was sealed, with flushes
\* that fail cleanly in between, with frames of changing length, and across the
\* wrap of the sequence ID.
Reconstructed ==
  reads > 0 /\ ~disowned /\ last.synced
    => last.err = "none" /\ last.raw = sent[reads].raw

\* The checksum of the XOR of two bodies is not the XOR of their checksums.  For bodies
\* of one length CRC-32 guarantees it unless the checksum of as many zeros is zero.
Sendable == {b \in Bodies : HeaderSize + Len(b) <= MaxPayload}
ChecksumsApart == \A b, c \in Sendable : Crc(Undelta(c, b)) # XorByte(Crc(b), Crc(c))

\* A receiver without the sender's baseline gets ErrCRCMismatch for every frame up
\* to the next keyframe, and never data (SPEC.md, "Mid-stream joins").  A checksum
\* can collide: this is about bodies whose checksums tell them apart.
DesyncDetected ==
  reads > 0 /\ ~disowned /\ ~last.synced => last.err = "crc"

\* The frame previousState stands for when no Flush is being settled.
LastFlushed ==
  LET done == IF fpc = "return" /\ ~ferr THEN Len(sent) - 1 ELSE Len(sent)
  IN IF done = 0 THEN << >> ELSE sent[done].raw

\* The sender's baseline is the last frame written, zero-extended to the size of the
\* buffer, however the lengths of the frames went up and down.
BaselineIsLastFrame ==
  DeltaEncoding /\ ~disowned
    => previousState = [k \in 1..MaxBatchSize |->
                          IF k <= Len(LastFlushed) THEN LastFlushed[k] ELSE Zero]

=============================================================================
