-------------------------- MODULE DeltaLinkProofs --------------------------
(***************************************************************************)
(* xorBytes is the byte-wise XOR, for every length, word size and unroll   *)
(* factor; Reconstruct inverts the encoding built on it; and the sender's  *)
(* delta baseline is right for every batch size, keyframe interval and     *)
(* sequence of frames.                                                     *)
(***************************************************************************)
EXTENDS DeltaLink, XorBytes, TLAPS

-----------------------------------------------------------------------------
(* xorBytes: its three loops together write each byte they are meant to    *)
(* and no other.                                                           *)

LEMMA DivMod ==
  ASSUME NEW k \in Nat, NEW d \in Nat \ {0}
  PROVE  /\ k \div d \in Nat /\ k % d \in 0..(d - 1)
         /\ k = d * (k \div d) + (k % d)
  OBVIOUS

\* A multiple of d that is at most k is at most the largest such multiple.
LEMMA MultipleBelow ==
  ASSUME NEW k \in Nat, NEW d \in Nat \ {0}, NEW m \in Nat, d * m <= k
  PROVE  m <= k \div d
<1>1. /\ k \div d \in Nat /\ k % d \in 0..(d - 1)
      /\ k = d * (k \div d) + (k % d)
  BY DivMod, Zenon
<1>2. SUFFICES ASSUME m >= (k \div d) + 1 PROVE FALSE
  BY <1>1
<1>3. d * m >= d * ((k \div d) + 1)
  BY <1>1, <1>2
<1> QED
  BY <1>1, <1>3

LEMMA MultipleMod ==
  ASSUME NEW d \in Nat \ {0}, NEW m \in Nat
  PROVE  (d * m) % d = 0
<1> DEFINE k == d * m
<1>1. k \in Nat
  OBVIOUS
<1>2. /\ k \div d \in Nat /\ k % d \in 0..(d - 1)
      /\ k = d * (k \div d) + (k % d)
  BY <1>1, DivMod, Zenon
<1>3. m <= k \div d
  BY <1>1, MultipleBelow
<1>4. d * m <= d * (k \div d)
  BY <1>2, <1>3
<1> QED
  BY <1>2, <1>4

\* The two word loops of xorBytes visit exactly the words 0 .. words-1.
LEMMA WordLoops ==
  ASSUME NEW words \in Nat
  PROVE  WrittenWords(words) = 0..(words - 1)
<1> USE XorAssumption
<1> DEFINE q == words \div Unroll
<1>1. q \in Nat /\ Unroll * q <= words /\ Unroll * q \in Nat
  BY DivMod
<1>2. ASSUME NEW w \in UnrolledWords(words) PROVE w \in 0..(words - 1)
  BY <1>2 DEF UnrolledWords
<1>3. ASSUME NEW w \in CleanupWords(words) PROVE w \in 0..(words - 1)
  BY <1>1, <1>3 DEF CleanupWords
<1>4. ASSUME NEW w \in 0..(words - 1), w \notin CleanupWords(words)
      PROVE  w \in UnrolledWords(words)
  <2> DEFINE p == w \div Unroll
  <2>1. w \in Nat /\ w < Unroll * q
    BY <1>1, <1>4 DEF CleanupWords
  <2>2. p \in Nat /\ w % Unroll \in 0..(Unroll - 1) /\ w = Unroll * p + (w % Unroll)
    BY <2>1, DivMod, Zenon
  <2>3. p + 1 <= q
    <3>1. SUFFICES ASSUME q <= p PROVE FALSE
      BY <1>1, <2>2
    <3>2. Unroll * q <= Unroll * p
      BY <1>1, <2>2, <3>1
    <3> QED
      BY <1>1, <2>1, <2>2, <3>2
  <2>4. Unroll * (p + 1) <= Unroll * q
    BY <1>1, <2>2, <2>3
  <2>5. Unroll * p \in Nat /\ Unroll * p + Unroll <= words
    BY <1>1, <2>2, <2>4
  <2>6. (Unroll * p) % Unroll = 0
    BY <2>2, MultipleMod, Zenon
  <2>7. Unroll * p \in {m \in 0..words : m % Unroll = 0 /\ m + Unroll <= words}
    BY <2>5, <2>6
  <2>8. w \in (Unroll * p)..(Unroll * p + Unroll - 1)
    BY <2>2
  <2> QED
    BY <2>7, <2>8, Zenon DEF UnrolledWords
<1> QED
  BY <1>2, <1>3, <1>4, Zenon DEF WrittenWords

\* Together with the byte loop they write exactly the bytes 0 .. n-1.
LEMMA AllWritten ==
  ASSUME NEW len \in Nat
  PROVE  Written(len) = 0..(len - 1)
<1> USE XorAssumption
<1> DEFINE words == len \div WordSize
<1>1. words \in Nat /\ WordSize * words <= len /\ WordSize * words \in Nat
  BY DivMod
<1>2. WrittenWords(words) = 0..(words - 1)
  BY <1>1, WordLoops, Zenon
<1>3. ASSUME NEW i \in Written(len) PROVE i \in 0..(len - 1)
  <2>1. CASE i \in TailBytes(len)
    BY <1>1, <2>1 DEF TailBytes
  <2>2. ASSUME NEW w \in 0..(words - 1), i \in BytesOf(w) PROVE i \in 0..(len - 1)
    <3>1. WordSize * (w + 1) <= WordSize * words
      BY <1>1
    <3> QED
      BY <1>1, <2>2, <3>1 DEF BytesOf
  <2> QED
    BY <1>2, <1>3, <2>1, <2>2, Zenon DEF Written
<1>4. ASSUME NEW i \in 0..(len - 1), i \notin TailBytes(len)
      PROVE  \E w \in 0..(words - 1) : i \in BytesOf(w)
  <2> DEFINE p == i \div WordSize
  <2>1. i \in Nat /\ i < WordSize * words
    BY <1>1, <1>4 DEF TailBytes
  <2>2. p \in Nat /\ i % WordSize \in 0..(WordSize - 1) /\ i = WordSize * p + (i % WordSize)
    BY <2>1, DivMod, Zenon
  <2>3. p \in 0..(words - 1)
    <3>1. SUFFICES ASSUME words <= p PROVE FALSE
      BY <1>1, <2>2
    <3>2. WordSize * words <= WordSize * p
      BY <1>1, <2>2, <3>1
    <3> QED
      BY <1>1, <2>1, <2>2, <3>2
  <2>4. i \in BytesOf(p)
    BY <2>2 DEF BytesOf
  <2> QED
    BY <2>3, <2>4, Zenon
<1> QED
  BY <1>2, <1>3, <1>4, Zenon DEF Written

\* encode.go, xorBytes: "computes the bitwise XOR of a and b, writing each result byte
\* into dst ... extra trailing bytes are ignored".
THEOREM XorExact ==
  ASSUME NEW dst \in Seq(Byte), NEW a \in Seq(Byte), NEW b \in Seq(Byte),
         Len(dst) >= Len(a), Len(b) >= Len(a)
  PROVE  Xored(dst, a, b) =
           [k \in 1..Len(dst) |-> IF k <= Len(a) THEN XorByte(a[k], b[k]) ELSE dst[k]]
<1>1. Len(a) \in Nat /\ Len(dst) \in Nat
  OBVIOUS
<1>2. ASSUME NEW k \in 1..Len(dst)
      PROVE  (k - 1) \in Written(Len(a)) <=> k <= Len(a)
  BY <1>1, AllWritten
<1> QED
  BY <1>2, Zenon DEF Xored

-----------------------------------------------------------------------------
(* The encoding and the link                                               *)

LEMMA XorType ==
  ASSUME NEW x \in Byte, NEW y \in Byte
  PROVE  XorByte(x, y) \in Byte
  BY Zenon DEF XorByte, Byte

LEMMA XorTwice ==
  ASSUME NEW x \in Byte, NEW y \in Byte
  PROVE  XorByte(XorByte(x, y), y) = x
  BY Zenon DEF XorByte, Byte

LEMMA ZeroType == Zero \in Byte
  BY Zenon DEF Zero, Byte

LEMMA PutType == ASSUME NEW k \in Nat PROVE Put(k) \in Byte
  BY Zenon DEF Put, Byte

\* A frame is sealed with a header of two bytes before its body.
LEMMA FrameType ==
  ASSUME NEW body \in Bodies, sequenceID \in Nat
  PROVE  RawFrame(body) \in Seq(Byte) /\ Len(RawFrame(body)) <= MaxBatchSize
<1>1. body \in Seq(Byte) /\ 2 + Len(body) <= MaxBatchSize /\ Crc(body) \subseteq 0..(ByteBits - 2)
  BY LinkAssumption, Zenon DEF HeaderSize
<1>2. NextSeq \in Nat
  BY LinkAssumption DEF NextSeq
<1>3. Put(NextSeq) \in Byte
  BY <1>2, PutType, Zenon
<1>4. Tag(body) \in Byte
  BY <1>1, BytesAssumption DEF Tag, Byte, KeyframeBit
<1>5. <<Put(NextSeq), Tag(body)>> \in Seq(Byte) /\ Len(<<Put(NextSeq), Tag(body)>>) = 2
  BY <1>3, <1>4
<1> HIDE DEF NextSeq
<1> QED
  BY <1>1, <1>5 DEF RawFrame

-----------------------------------------------------------------------------
(* Delta encoding and decoding                                             *)

Extended(frame) == [k \in 1..MaxBatchSize |-> IF k <= Len(frame) THEN frame[k] ELSE Zero]

\* What is sent for a frame, given the sender's baseline.
LEMMA EncodedIs ==
  ASSUME NEW raw \in Seq(Byte), Len(raw) <= MaxBatchSize,
         previousState \in [1..MaxBatchSize -> Byte]
  PROVE  /\ Encoded(raw) \in Seq(Byte) /\ Len(Encoded(raw)) = Len(raw)
         /\ DeltaEncoding /\ ~IsKeyframe
              => Encoded(raw) = [k \in 1..Len(raw) |-> XorByte(raw[k], previousState[k])]
<1>1. CASE ~(DeltaEncoding /\ ~IsKeyframe)
  BY <1>1, Zenon DEF Encoded
<1>2. CASE DeltaEncoding /\ ~IsKeyframe
  <2> DEFINE zs == Zeros(Len(raw))
             ps == SubSeq(previousState, 1, Len(raw))
  <2>1. zs \in Seq(Byte) /\ Len(zs) = Len(raw)
    BY ZeroType DEF Zeros
  <2>2. MaxBatchSize \in Nat /\ previousState \in Seq(Byte) /\ Len(previousState) = MaxBatchSize
    BY LinkAssumption
  <2>3. ps \in Seq(Byte) /\ Len(ps) = Len(raw) /\ \A k \in 1..Len(raw) : ps[k] = previousState[k]
    BY <2>2
  <2> HIDE DEF zs, ps
  <2>4. Xored(zs, raw, ps) =
          [k \in 1..Len(zs) |-> IF k <= Len(raw) THEN XorByte(raw[k], ps[k]) ELSE zs[k]]
    BY <2>1, <2>3, XorExact
  <2>5. Xored(zs, raw, ps) = [k \in 1..Len(raw) |-> XorByte(raw[k], previousState[k])]
    BY <2>1, <2>3, <2>4
  <2>6. \A k \in 1..Len(raw) : XorByte(raw[k], previousState[k]) \in Byte
    BY <2>2, XorType
  <2>7. Encoded(raw) = Xored(zs, raw, ps)
    BY <1>2, Zenon DEF Encoded, zs, ps
  <2> QED
    BY <1>2, <2>5, <2>6, <2>7
<1> QED
  BY <1>1, <1>2, Zenon

\* codec.go, Reconstruct inverts the encoding of drainAndFlush: a receiver whose
\* previous frame is the sender's baseline recovers a delta frame exactly, unless its
\* bytes read as a keyframe.
THEOREM RoundTrip ==
  ASSUME NEW raw \in Seq(Byte), Len(raw) \in HeaderSize..MaxBatchSize, Valid(raw),
         NEW base \in Seq(Byte), previousState = Extended(base),
         DeltaEncoding, ~IsKeyframe, ~ReadsAsKeyframe(Encoded(raw))
  PROVE  Reconstruct(base, Encoded(raw)) = Ok(raw)
<1>1. MaxBatchSize \in Nat
  BY LinkAssumption, Zenon
<1>2. previousState \in [1..MaxBatchSize -> Byte]
  BY <1>1, ZeroType DEF Extended
<1>3. /\ Len(raw) <= MaxBatchSize
      /\ Encoded(raw) = [k \in 1..Len(raw) |-> XorByte(raw[k], previousState[k])]
      /\ Len(Encoded(raw)) = Len(raw)
  BY <1>1, <1>2, EncodedIs DEF HeaderSize
<1>4. ASSUME NEW k \in 1..Len(raw)
      PROVE  Undelta(base, Encoded(raw))[k] = raw[k]
  <2>1. previousState[k] = (IF k <= Len(base) THEN base[k] ELSE Zero) /\ previousState[k] \in Byte
    BY <1>1, <1>2, <1>3 DEF Extended
  <2>2. Undelta(base, Encoded(raw))[k] = XorByte(XorByte(raw[k], previousState[k]), previousState[k])
    BY <1>3, <2>1, Zenon DEF Undelta
  <2> QED
    BY <2>1, <2>2, XorTwice
<1>5. Undelta(base, Encoded(raw)) = [k \in 1..Len(raw) |-> raw[k]]
  BY <1>3, <1>4, Zenon DEF Undelta
<1>6. Undelta(base, Encoded(raw)) = raw
  BY <1>5
<1> QED
  BY <1>3, <1>6 DEF Reconstruct, Decode, HeaderSize

-----------------------------------------------------------------------------
(* The sender's baseline                                                   *)

SentFrame == [payload : Seq(Byte), raw : Seq(Byte), keyframe : BOOLEAN]

LinkTypes ==
  /\ DeltaEncoding \in BOOLEAN /\ disowned \in BOOLEAN /\ ferr \in BOOLEAN
  /\ fpc \in {"idle", "write", "return"}
  /\ sequenceID \in Nat /\ n \in Nat
  /\ byteBuffer \in Seq(Byte) /\ Len(byteBuffer) <= MaxBatchSize
  /\ payload \in Seq(Byte)
  /\ previousState \in [1..MaxBatchSize -> Byte] /\ prevOffset \in 0..MaxBatchSize
  /\ sent \in Seq(SentFrame)

\* A Flush that is about to return nil has written, last of all, the frame in
\* byteBuffer; one that is writing has not failed.
FlushState ==
  /\ fpc = "return" /\ ~ferr
       => n > 0 /\ Len(sent) > 0 /\ sent[Len(sent)].raw = byteBuffer
  /\ fpc = "write" => ~ferr

\* previousState is the last frame, zero-extended, and prevOffset is its length.
Baseline ==
  DeltaEncoding /\ ~disowned => previousState = Extended(LastFlushed) /\ prevOffset = Len(LastFlushed)

LinkInv == LinkTypes /\ FlushState /\ Baseline

LEMMA LinkInvInit == Init => LinkInv
<1> SUFFICES ASSUME Init PROVE LinkInv
  BY Zenon
<1>1. MaxBatchSize \in Nat /\ DeltaModes \subseteq BOOLEAN
  BY LinkAssumption, Zenon
<1>2. Zeros(MaxBatchSize) \in [1..MaxBatchSize -> Byte]
  BY <1>1, ZeroType, Zenon DEF Zeros
<1>3. LinkTypes
  <2>1. DeltaEncoding \in BOOLEAN /\ disowned \in BOOLEAN /\ ferr \in BOOLEAN
    BY <1>1, Zenon DEF Init, TcpInit
  <2>2. /\ byteBuffer \in Seq(Byte) /\ payload \in Seq(Byte) /\ sent \in Seq(SentFrame)
        /\ Len(byteBuffer) = 0
    BY DEF Init, TcpInit
  <2> QED
    BY <1>1, <1>2, <2>1, <2>2 DEF Init, TcpInit, LinkTypes
<1>4. FlushState
  BY Zenon DEF Init, TcpInit, FlushState
<1>5. LastFlushed = << >>
  BY Zenon DEF Init, TcpInit, LastFlushed
<1>6. Extended(<< >>) = Zeros(MaxBatchSize)
  BY <1>1 DEF Extended, Zeros
<1> QED
  BY <1>3, <1>4, <1>5, <1>6, Zenon DEF LinkInv, Baseline, Init

\* The frame LastFlushed stands for is one of those sent.
LEMMA LastFlushedType ==
  ASSUME LinkTypes, FlushState
  PROVE  LastFlushed \in Seq(Byte)
<1> DEFINE done == IF fpc = "return" /\ ~ferr THEN Len(sent) - 1 ELSE Len(sent)
<1>1. done \in 0..Len(sent)
  BY DEF LinkTypes, FlushState
<1>2. LastFlushed = IF done = 0 THEN << >> ELSE sent[done].raw
  BY Zenon DEF LastFlushed
<1>3. sent \in Seq(SentFrame) /\ Len(sent) \in Nat
  BY DEF LinkTypes
<1> HIDE DEF done
<1>4. ASSUME done # 0 PROVE sent[done].raw \in Seq(Byte)
  <2>1. sent[done] \in SentFrame
    BY <1>1, <1>3, <1>4
  <2> QED
    BY <2>1, Zenon DEF SentFrame
<1> QED
  BY <1>2, <1>4

LEMMA LinkInvStep == LinkInv /\ [Next]_vars => LinkInv'
<1> SUFFICES ASSUME LinkInv, [Next]_vars PROVE LinkInv'
  BY Zenon
<1> USE DEF LinkInv
<1>1. MaxBatchSize \in Nat
  BY LinkAssumption, Zenon
<1>2. ASSUME NEW body \in Bodies, Seal(body) PROVE LinkInv'
  <2>1. RawFrame(body) \in Seq(Byte) /\ Len(RawFrame(body)) <= MaxBatchSize
    BY FrameType, Zenon DEF LinkTypes
  <2>2. Encoded(RawFrame(body)) \in Seq(Byte)
    BY <2>1, EncodedIs, Zenon DEF LinkTypes
  <2>3. NextSeq \in Nat
    BY LinkAssumption DEF NextSeq, LinkTypes
  <2> HIDE DEF NextSeq
  <2> DEFINE long == TooLong(Encoded(RawFrame(body)))
  <2>4. long \in BOOLEAN
    BY DEF TooLong
  <2>5. fpc = "idle" /\ n' = 0 /\ ferr' = long /\ sent' = sent
        /\ fpc' = IF long THEN "return" ELSE "write"
    BY <1>2, Zenon DEF Seal, Flush, historyVars
  <2> HIDE DEF long
  <2>6. (fpc' = "return" => ferr') /\ (fpc' = "write" => ~ferr')
        /\ ferr' \in BOOLEAN /\ fpc' \in {"write", "return"}
    BY <2>4, <2>5, Zenon
  <2>7. LinkTypes'
    BY <1>2, <2>1, <2>2, <2>3, <2>5, <2>6 DEF LinkTypes, Seal, Flush, historyVars
  <2>8. FlushState'
    BY <2>6, Zenon DEF FlushState
  <2>9. LastFlushed' = LastFlushed
    BY <2>5, <2>6, Zenon DEF LastFlushed
  <2> QED
    BY <1>2, <2>7, <2>8, <2>9, Zenon DEF Baseline, Extended, Seal, historyVars
<1>3. CASE FlushSucceeded
  <2>1. fpc = "return" /\ ~ferr /\ fpc' = "idle" /\ UNCHANGED <<sent, disowned, byteBuffer, DeltaEncoding>>
    BY <1>3, Zenon DEF FlushSucceeded, FlushReturns, historyVars
  <2>2. Len(sent) > 0 /\ sent[Len(sent)].raw = byteBuffer /\ Len(sent) \in Nat
    BY <2>1 DEF FlushState, LinkTypes
  <2>3. LastFlushed' = byteBuffer
    BY <2>1, <2>2 DEF LastFlushed
  <2>4. Len(byteBuffer) \in 0..MaxBatchSize /\ \A k \in 1..Len(byteBuffer) : byteBuffer[k] \in Byte
    BY <1>1 DEF LinkTypes
  <2>5. Advanced \in [1..MaxBatchSize -> Byte]
    BY <1>1, <2>4, ZeroType DEF Advanced, LinkTypes
  <2>6. LinkTypes'
    BY <1>3, <2>1, <2>4, <2>5, Zenon DEF LinkTypes, FlushSucceeded, FlushReturns
  <2>7. ASSUME DeltaEncoding, ~disowned PROVE Advanced = Extended(byteBuffer)
    <3>1. previousState = Extended(LastFlushed) /\ prevOffset = Len(LastFlushed)
      BY <2>7, Zenon DEF Baseline
    <3>2. LastFlushed \in Seq(Byte)
      BY LastFlushedType, Zenon
    <3>3. \A k \in 1..MaxBatchSize : ~(k <= prevOffset) => previousState[k] = Zero
      BY <1>1, <3>1, <3>2, Zenon DEF Extended
    <3> QED
      BY <1>1, <3>3, Zenon DEF Advanced, Extended
  <2>8. Baseline'
    BY <1>3, <2>1, <2>3, <2>7 DEF Baseline, FlushSucceeded, Extended
  <2> QED
    BY <2>1, <2>6, <2>8, Zenon DEF FlushState
<1>4. CASE FlushFailed
  <2>1. fpc = "return" /\ fpc' = "idle" /\ disowned' = (disowned \/ n > 0) /\ ferr' = ferr
        /\ UNCHANGED <<sent, byteBuffer, previousState, prevOffset, DeltaEncoding, sequenceID, n, payload>>
    BY <1>4, Zenon DEF FlushFailed, FlushReturns, senderVars
  <2>2. LinkTypes' /\ FlushState'
    BY <2>1, Zenon DEF LinkTypes, FlushState
  <2>3. ~disowned' => ~disowned /\ LastFlushed' = LastFlushed
    BY <2>1, Zenon DEF FlushState, LastFlushed, LinkTypes
  <2> QED
    BY <2>1, <2>2, <2>3, Zenon DEF Baseline, Extended
<1>5. ASSUME NEW k \in 1..(MaxPayload + 1), Transmit(k) PROVE LinkInv'
  <2> DEFINE frame == [payload |-> payload, raw |-> byteBuffer, keyframe |-> IsKeyframe]
  <2>1. /\ fpc = "write" /\ ~ferr /\ ferr' = ferr /\ n' = n + k /\ fpc' \in {"return", "write"}
        /\ sent' = IF fpc' = "return" THEN Append(sent, frame) ELSE sent
        /\ UNCHANGED <<byteBuffer, previousState, prevOffset, DeltaEncoding, sequenceID, disowned, payload>>
    BY <1>5, Zenon DEF Transmit, Accept, senderVars, FlushState
  <2>2. IsKeyframe \in BOOLEAN
    BY Zenon DEF IsKeyframe
  <2>3. frame \in SentFrame
    BY <2>2, Zenon DEF LinkTypes, SentFrame
  <2>4. frame.raw = byteBuffer
    BY Zenon
  <2> HIDE DEF frame
  <2>5. k \in Nat /\ k > 0 /\ n' \in Nat /\ n' > 0
    BY <2>1, TcpAssumption DEF LinkTypes
  <2>6. sent \in Seq(SentFrame)
    BY Zenon DEF LinkTypes
  <2>7. CASE fpc' = "return"
    <3>1. sent' = Append(sent, frame)
      BY <2>1, <2>7, Zenon
    <3>2. sent' \in Seq(SentFrame) /\ Len(sent') = Len(sent) + 1 /\ sent'[Len(sent')] = frame
          /\ \A i \in 1..Len(sent) : sent'[i] = sent[i]
      BY <2>3, <2>6, <3>1
    <3>3. LinkTypes'
      BY <2>1, <2>5, <3>2, Zenon DEF LinkTypes
    <3>4. FlushState'
      BY <2>1, <2>4, <2>5, <2>6, <2>7, <3>2 DEF FlushState
    <3>5. LastFlushed' = LastFlushed
      BY <2>1, <2>6, <2>7, <3>2 DEF LastFlushed
    <3> QED
      BY <2>1, <3>3, <3>4, <3>5, Zenon DEF Baseline, Extended
  <2>8. CASE fpc' = "write"
    <3>1. sent' = sent
      BY <2>1, <2>8, Zenon
    <3>2. LinkTypes' /\ FlushState'
      BY <2>1, <2>5, <2>8, <3>1, Zenon DEF LinkTypes, FlushState
    <3>3. LastFlushed' = LastFlushed
      BY <2>1, <2>8, <3>1, Zenon DEF LastFlushed
    <3> QED
      BY <2>1, <3>2, <3>3, Zenon DEF Baseline, Extended
  <2> QED
    BY <2>1, <2>7, <2>8, Zenon
<1>6. CASE CutOff
  <2>1. /\ fpc = "write" /\ fpc' = "return" /\ ferr' = TRUE
        /\ UNCHANGED <<sent, byteBuffer, previousState, prevOffset, DeltaEncoding, sequenceID,
                       disowned, payload, n>>
    BY <1>6, Zenon DEF CutOff, WriteFails, senderVars, historyVars
  <2>2. LinkTypes' /\ FlushState' /\ LastFlushed' = LastFlushed
    BY <2>1, Zenon DEF LinkTypes, FlushState, LastFlushed
  <2> QED
    BY <2>1, <2>2, Zenon DEF Baseline, Extended
<1>7. CASE Disconnect \/ Read \/ Rejoin \/ UNCHANGED vars
  <2>1. UNCHANGED <<sent, byteBuffer, previousState, prevOffset, DeltaEncoding, sequenceID,
                    disowned, payload, n, fpc, ferr>>
    BY <1>7, Zenon DEF Disconnect, Close, Read, Rejoin, vars, senderVars, tcpVars, historyVars
  <2>2. LinkTypes' /\ FlushState' /\ LastFlushed' = LastFlushed
    BY <2>1, Zenon DEF LinkTypes, FlushState, LastFlushed
  <2> QED
    BY <2>1, <2>2, Zenon DEF Baseline, Extended
<1> QED
  BY <1>2, <1>3, <1>4, <1>5, <1>6, <1>7, Zenon DEF Next

\* batcher.go: after every successful flush previousState is the frame just sent,
\* zero-extended, however the lengths of the frames go up and down and whichever
\* flushes fail in between.
THEOREM BaselineTracksStream == Spec => []BaselineIsLastFrame
<1>1. LinkInv => BaselineIsLastFrame
  BY Zenon DEF LinkInv, Baseline, BaselineIsLastFrame, Extended
<1> QED
  BY <1>1, LinkInvInit, LinkInvStep, PTL DEF Spec

-----------------------------------------------------------------------------
(* The stream                                                              *)

\* The k-th frame is on the stream behind at[k]: its length, then its payload.
Placed(at, k) ==
  LET p == sent[k].payload IN
  /\ Len(p) <= MaxPayload /\ at[k + 1] = at[k] + 1 + Len(p)
  /\ stream[at[k] + 1] = Put(Len(p))
  /\ \A j \in 1..Len(p) : stream[at[k] + 1 + j] = p[j]

\* The call in progress has put the first n bytes of Bufs on the stream, not all.
Partial == fpc = "write" \/ (fpc = "return" /\ ferr)

Unfinished(end) ==
  /\ Len(stream) = end + n /\ n <= Len(payload)
  /\ \A j \in 1..n : stream[end + j] = Bufs[j]
  /\ fpc = "write" \/ n > 0 => Len(payload) <= MaxPayload /\ lbuf = Put(Len(payload))

Layout(at) ==
  /\ at \in [1..(Len(sent) + 1) -> Nat] /\ at[1] = 0
  /\ \A k \in 1..(Len(sent) + 1) : at[k] <= Len(stream)
  /\ \A k \in 1..Len(sent) : Placed(at, k)
  /\ IF Partial THEN Unfinished(at[Len(sent) + 1]) ELSE Len(stream) = at[Len(sent) + 1]
  /\ reads <= Len(sent) /\ rpos = at[reads + 1]

\* The frames written in full lie one behind the other on the stream, and the
\* receiver stands between two of them.
StreamInv ==
  /\ stream \in Seq(Byte) /\ lbuf \in Byte /\ reads \in Nat
  /\ ~disowned => \E at : Layout(at)

LEMMA StreamInit == Init => StreamInv
<1> SUFFICES ASSUME Init PROVE StreamInv
  OBVIOUS
<1> DEFINE at == [k \in 1..1 |-> 0]
<1>1. /\ stream = << >> /\ sent = << >> /\ fpc = "idle" /\ reads = 0 /\ rpos = 0 /\ lbuf = Zero
  BY Zenon DEF Init, TcpInit
<1>2. Len(stream) = 0 /\ Len(sent) = 0 /\ stream \in Seq(Byte)
  BY <1>1
<1>3. Layout(at)
  BY <1>1, <1>2 DEF Layout, Partial
<1> QED
  BY <1>1, <1>2, <1>3, ZeroType, Zenon DEF StreamInv

\* SubSeq, element by element.
LEMMA Slice ==
  ASSUME NEW s \in Seq(Byte), NEW a \in Nat, NEW m \in Nat, a + 1 + m <= Len(s)
  PROVE  SubSeq(s, a + 2, a + 1 + m) = [j \in 1..m |-> s[a + 1 + j]]
<1>1. Len(SubSeq(s, a + 2, a + 1 + m)) = m
  OBVIOUS
<1>2. SubSeq(s, a + 2, a + 1 + m) \in Seq(Byte)
  OBVIOUS
<1>3. \A j \in 1..m : SubSeq(s, a + 2, a + 1 + m)[j] = s[a + 1 + j]
  OBVIOUS
<1> QED
  BY <1>1, <1>2, <1>3

\* What the next read yields.
LEMMA NextRead ==
  ASSUME LinkInv, StreamInv, NEW at, Layout(at), FrameArrived
  PROVE  /\ reads < Len(sent) /\ FrameLen = Len(sent[reads + 1].payload)
         /\ NextFrame = sent[reads + 1].payload
         /\ rpos + 1 + FrameLen = at[reads + 2]
<1>a. /\ stream \in Seq(Byte) /\ payload \in Seq(Byte) /\ sent \in Seq(SentFrame)
      /\ n \in Nat /\ reads \in Nat
  BY Zenon DEF LinkInv, LinkTypes, StreamInv
<1>b. Len(stream) \in Nat /\ Len(sent) \in Nat /\ Len(payload) \in Nat
  BY <1>a
<1>0. /\ stream \in Seq(Byte) /\ Len(stream) \in Nat /\ Len(sent) \in Nat /\ n \in Nat /\ reads \in 0..Len(sent)
      /\ rpos = at[reads + 1] /\ rpos \in Nat /\ rpos < Len(stream)
      /\ payload \in Seq(Byte) /\ Len(payload) \in Nat /\ sent \in Seq(SentFrame)
  BY <1>a, <1>b, SMTT(30) DEF Layout, FrameArrived
<1>1. reads < Len(sent)
  <2>1. SUFFICES ASSUME reads = Len(sent) PROVE FALSE
    BY <1>0
  <2>2. Unfinished(rpos) /\ n > 0
    BY <1>0, <2>1 DEF Layout, Unfinished
  <2>3. Bufs[1] = lbuf
    BY <1>0 DEF Bufs, StreamInv
  <2>4. stream[rpos + 1] = Put(Len(payload)) /\ Len(payload) \in 0..MaxPayload /\ Len(stream) = rpos + n
        /\ n <= Len(payload)
    BY <1>0, <2>2, <2>3, TcpAssumption DEF Unfinished
  <2>5. FrameLen = Len(payload)
    BY <2>4, PrefixAssumption, Zenon DEF FrameLen
  <2> QED
    BY <1>0, <2>4, <2>5 DEF FrameArrived
<1>2. Placed(at, reads + 1)
  BY <1>0, <1>1 DEF Layout
<1> DEFINE p == sent[reads + 1].payload
<1>3. p \in Seq(Byte) /\ Len(p) \in Nat
  <2>1. sent[reads + 1] \in SentFrame
    BY <1>0, <1>1
  <2> QED
    BY <2>1 DEF SentFrame
<1>4. /\ Len(p) \in 0..MaxPayload /\ at[reads + 2] = rpos + 1 + Len(p) /\ stream[rpos + 1] = Put(Len(p))
      /\ \A j \in 1..Len(p) : stream[rpos + 1 + j] = p[j]
  BY <1>0, <1>2, <1>3, TcpAssumption DEF Placed
<1> HIDE DEF p
<1>5. FrameLen = Len(p)
  BY <1>4, PrefixAssumption, Zenon DEF FrameLen
<1>6. rpos + 1 + Len(p) <= Len(stream)
  BY <1>5, Zenon DEF FrameArrived
<1>7. NextFrame = SubSeq(stream, rpos + 2, rpos + 1 + Len(p))
  BY <1>5, Zenon DEF NextFrame
<1>8. NextFrame = [j \in 1..Len(p) |-> stream[rpos + 1 + j]]
  <2>1. SubSeq(stream, rpos + 2, rpos + 1 + Len(p)) = [j \in 1..Len(p) |-> stream[rpos + 1 + j]]
    BY <1>0, <1>3, <1>6, Slice, ZenonT(30)
  <2> QED
    BY <1>7, <2>1, Zenon
<1>9. NextFrame = p
  BY <1>3, <1>4, <1>8
<1> QED
  BY <1>1, <1>4, <1>5, <1>9, Zenon DEF p

LEMMA Sliced ==
  ASSUME NEW s \in Seq(Byte), NEW a \in Nat, NEW m \in Nat, a + m <= Len(s)
  PROVE  /\ SubSeq(s, a + 1, a + m) \in Seq(Byte) /\ Len(SubSeq(s, a + 1, a + m)) = m
         /\ \A j \in 1..m : SubSeq(s, a + 1, a + m)[j] = s[a + j]
<1>1. Len(SubSeq(s, a + 1, a + m)) = m
  OBVIOUS
<1>2. SubSeq(s, a + 1, a + m) \in Seq(Byte)
  OBVIOUS
<1>3. \A j \in 1..m : SubSeq(s, a + 1, a + m)[j] = s[a + j]
  OBVIOUS
<1> QED
  BY <1>1, <1>2, <1>3, Zenon

LEMMA Joined ==
  ASSUME NEW s \in Seq(Byte), NEW t \in Seq(Byte)
  PROVE  /\ s \o t \in Seq(Byte) /\ Len(s \o t) = Len(s) + Len(t)
         /\ \A i \in 1..Len(s) : (s \o t)[i] = s[i]
         /\ \A j \in 1..Len(t) : (s \o t)[Len(s) + j] = t[j]
  OBVIOUS

LEMMA Inside ==
  ASSUME NEW a \in Nat, NEW l \in Nat, NEW m \in Nat, a + 1 + l <= m
  PROVE  a + 1 \in 1..m /\ \A j \in 1..l : a + 1 + j \in 1..m
  OBVIOUS

\* The connection takes k more bytes of Bufs.
LEMMA TransmitLayout ==
  ASSUME LinkInv, StreamInv, NEW at, Layout(at), NEW k \in 1..(MaxPayload + 1), Transmit(k)
  PROVE  /\ stream' \in Seq(Byte)
         /\ \E to : Layout(to)'
<1> DEFINE end  == at[Len(sent) + 1]
           part == SubSeq(Bufs, n + 1, n + k)
<1>1. /\ fpc = "write" /\ ~ferr /\ ferr' = ferr /\ n' = n + k /\ k <= Len(Bufs) - n
      /\ stream' = stream \o part
      /\ fpc' = IF n + k = Len(Bufs) THEN "return" ELSE "write"
      /\ UNCHANGED <<payload, lbuf, reads, rpos>>
  BY Zenon DEF Transmit, Accept, LinkInv, FlushState, receiverVars
<1>2. /\ stream \in Seq(Byte) /\ payload \in Seq(Byte) /\ lbuf \in Byte /\ n \in Nat /\ k \in Nat /\ k > 0
      /\ sent \in Seq(SentFrame) /\ reads \in Nat
  BY TcpAssumption DEF LinkInv, LinkTypes, StreamInv
<1>3. Len(stream) \in Nat /\ Len(sent) \in Nat /\ Len(payload) \in Nat
  BY <1>2
<1>4. Bufs \in Seq(Byte) /\ Len(Bufs) = 1 + Len(payload) /\ Bufs[1] = lbuf
      /\ \A j \in 1..Len(payload) : Bufs[j + 1] = payload[j]
  BY <1>2 DEF Bufs
<1> HIDE DEF part
<1>5. part \in Seq(Byte) /\ Len(part) = k /\ \A j \in 1..k : part[j] = Bufs[n + j]
  <2>1. n + k <= Len(Bufs)
    BY <1>1, <1>2, <1>3, <1>4
  <2> QED
    BY <1>2, <1>4, <2>1, Sliced DEF part
<1>join. stream' = stream \o part /\ stream \in Seq(Byte) /\ part \in Seq(Byte) /\ Len(part) = k
  BY <1>1, <1>2, <1>5, Zenon
<1>6. /\ stream' \in Seq(Byte)
      /\ \A i \in 1..Len(stream) : stream'[i] = stream[i]
      /\ \A j \in 1..k : stream'[Len(stream) + j] = part[j]
  BY <1>join, Joined
<1>len. Len(stream') = Len(stream) + k
  BY <1>join, Joined, Zenon
<1>7. /\ at \in [1..(Len(sent) + 1) -> Nat] /\ at[1] = 0
      /\ reads <= Len(sent) /\ rpos = at[reads + 1]
  BY Zenon DEF Layout
<1>at. \A i \in 1..(Len(sent) + 1) : at[i] \in Nat /\ at[i] <= Len(stream)
  BY <1>7, Zenon DEF Layout
<1>end. end \in Nat
  BY <1>3, <1>7
<1>8. Len(stream) = end + n /\ n <= Len(payload)
  BY <1>1, Zenon DEF Layout, Partial, Unfinished
<1>put. Len(payload) <= MaxPayload /\ lbuf = Put(Len(payload))
  BY <1>1, Zenon DEF Layout, Partial, Unfinished
<1>old. \A j \in 1..n : stream[end + j] = Bufs[j]
  BY <1>1, Zenon DEF Layout, Partial, Unfinished
<1> HIDE DEF end
\* The stream now ends with the first n + k bytes of Bufs.
<1>sum. Len(stream') = end + (n + k)
  BY <1>2, <1>8, <1>end, <1>len
<1>9. \A j \in 1..(n + k) : stream'[end + j] = Bufs[j]
  <2>1. ASSUME NEW j \in 1..(n + k) PROVE stream'[end + j] = Bufs[j]
    <3>1. CASE j <= n
      <4>1. j \in 1..n /\ end + j \in 1..Len(stream)
        BY <1>2, <1>8, <1>end, <3>1
      <4> QED
        BY <1>6, <1>old, <4>1, Zenon
    <3>2. CASE j > n
      <4>1. PICK i \in 1..k : j = n + i
        <5>1. j - n \in 1..k /\ j = n + (j - n)
          BY <1>2, <3>2
        <5> QED
          BY <5>1, Zenon
      <4>2. end + j = Len(stream) + i
        BY <1>2, <1>8, <1>end, <4>1
      <4> QED
        BY <1>5, <1>6, <4>1, <4>2, Zenon
    <3> QED
      BY <1>2, <3>1, <3>2
  <2> QED
    BY <2>1, Zenon
\* The frames before it are where they were.
<1>10. ASSUME NEW i \in 1..Len(sent)
       PROVE  LET p == sent[i].payload IN
              /\ Len(p) <= MaxPayload /\ at[i + 1] = at[i] + 1 + Len(p)
              /\ stream'[at[i] + 1] = Put(Len(p))
              /\ \A j \in 1..Len(p) : stream'[at[i] + 1 + j] = p[j]
  <2> DEFINE p == sent[i].payload
  <2>1. sent[i] \in SentFrame
    BY <1>2
  <2>2. p \in Seq(Byte) /\ Len(p) \in Nat
    BY <2>1 DEF SentFrame
  <2>3. /\ Len(p) <= MaxPayload /\ at[i + 1] = at[i] + 1 + Len(p)
        /\ stream[at[i] + 1] = Put(Len(p))
        /\ \A j \in 1..Len(p) : stream[at[i] + 1 + j] = p[j]
    BY Zenon DEF Layout, Placed
  <2>4. at[i] \in Nat /\ at[i + 1] <= Len(stream)
    BY <1>3, <1>at
  <2>a. at[i + 1] = at[i] + 1 + Len(p)
    BY <2>3, Zenon
  <2> HIDE DEF p
  <2>5. at[i] + 1 \in 1..Len(stream) /\ \A j \in 1..Len(p) : at[i] + 1 + j \in 1..Len(stream)
    <3>1. at[i] + 1 + Len(p) <= Len(stream)
      BY <2>4, <2>a, Zenon
    <3> QED
      BY <1>3, <2>2, <2>4, <3>1, Inside, Zenon
  <2>6. stream'[at[i] + 1] = Put(Len(p)) /\ \A j \in 1..Len(p) : stream'[at[i] + 1 + j] = p[j]
    BY <1>6, <2>3, <2>5, Zenon
  <2> QED
    BY <2>3, <2>6, Zenon DEF p
<1>11. CASE fpc' = "write"
  <2>1. sent' = sent /\ n + k # Len(Bufs)
    BY <1>1, <1>11, Zenon DEF Transmit
  <2>2. Partial' /\ n' = n + k /\ n + k <= Len(payload) /\ Bufs' = Bufs /\ n' > 0
    BY <1>1, <1>2, <1>3, <1>4, <1>11, <2>1 DEF Partial, Bufs
  <2>3. \A i \in 1..Len(sent) : Placed(at, i)'
    BY <1>10, <2>1, Zenon DEF Placed
  <2>4. end = at[Len(sent') + 1]
    BY <2>1, Zenon DEF end
  <2>5. /\ Len(stream') = at[Len(sent') + 1] + n' /\ n' <= Len(payload')
        /\ \A j \in 1..n' : stream'[at[Len(sent') + 1] + j] = Bufs'[j]
        /\ Len(payload') <= MaxPayload /\ lbuf' = Put(Len(payload'))
    <3>1. payload' = payload /\ lbuf' = lbuf
      BY <1>1, Zenon
    <3> QED
      BY <1>9, <1>put, <1>sum, <2>2, <2>4, <3>1, Zenon
  <2>6. Unfinished(at[Len(sent) + 1])'
    BY <2>5, Zenon DEF Unfinished
  <2>7. \A i \in 1..(Len(sent') + 1) : at[i] <= Len(stream')
    BY <1>2, <1>3, <1>at, <1>len, <2>1
  <2>8. Layout(at)'
    BY <1>1, <1>7, <2>1, <2>2, <2>3, <2>6, <2>7, Zenon DEF Layout
  <2> QED
    BY <1>6, <2>8, Zenon
<1>12. CASE fpc' = "return"
  <2> DEFINE frame == [payload |-> payload, raw |-> byteBuffer, keyframe |-> IsKeyframe]
  <2>1. sent' = Append(sent, frame) /\ n + k = Len(payload) + 1 /\ ~Partial'
    BY <1>1, <1>4, <1>12 DEF Transmit, Partial
  <2>2. frame.payload = payload
    BY Zenon
  <2> HIDE DEF frame
  <2>3. Len(sent') = Len(sent) + 1 /\ sent'[Len(sent) + 1] = frame
        /\ \A i \in 1..Len(sent) : sent'[i] = sent[i]
    BY <1>2, <2>1
  <2>4. PICK to : to = [i \in 1..(Len(sent) + 2) |-> IF i <= Len(sent) + 1 THEN at[i] ELSE Len(stream')]
    BY Zenon
  <2>5. Len(stream') = end + 1 + Len(payload) /\ Len(stream') \in Nat
    <3>1. n + k = Len(payload) + 1
      BY <2>1, Zenon
    <3> QED
      BY <1>3, <1>end, <1>sum, <3>1
  <2>6. /\ to \in [1..(Len(sent') + 1) -> Nat] /\ to[Len(sent) + 2] = Len(stream')
        /\ to[Len(sent) + 1] = end /\ to[1] = 0
        /\ \A i \in 1..(Len(sent) + 1) : to[i] = at[i]
    BY <1>3, <1>7, <2>3, <2>4, <2>5 DEF end
  <2>7. \A i \in 1..(Len(sent') + 1) : to[i] <= Len(stream')
    <3>1. ASSUME NEW i \in 1..(Len(sent) + 2) PROVE to[i] <= Len(stream')
      <4>1. CASE i <= Len(sent) + 1
        BY <1>2, <1>3, <1>at, <1>len, <2>6, <4>1
      <4>2. CASE i = Len(sent) + 2
        BY <2>5, <2>6, <4>2
      <4> QED
        BY <1>3, <4>1, <4>2
    <3> QED
      BY <1>3, <2>3, <3>1
  <2>8. ASSUME NEW i \in 1..Len(sent) PROVE Placed(to, i)'
    <3>1. to[i] = at[i] /\ to[i + 1] = at[i + 1] /\ sent'[i] = sent[i]
      <4>1. i \in 1..(Len(sent) + 1) /\ i + 1 \in 1..(Len(sent) + 1)
        BY <1>3
      <4> QED
        BY <2>3, <2>6, <4>1, Zenon
    <3> QED
      BY <1>10, <3>1, Zenon DEF Placed
  <2>9. ASSUME NEW i, i = Len(sent') PROVE Placed(to, i)'
    <3>1. /\ sent'[Len(sent')].payload = payload /\ to[Len(sent')] = end
          /\ to[Len(sent') + 1] = end + 1 + Len(payload)
      BY <1>3, <2>2, <2>3, <2>5, <2>6
    <3>2. stream'[end + 1] = Put(Len(payload))
      <4>1. 1 \in 1..(n + k)
        BY <1>2
      <4> QED
        BY <1>4, <1>9, <1>put, <4>1, Zenon
    <3>3. \A j \in 1..Len(payload) : stream'[end + 1 + j] = payload[j]
      <4>1. ASSUME NEW j \in 1..Len(payload) PROVE stream'[end + 1 + j] = payload[j]
        <5>1. j + 1 \in 1..(n + k) /\ end + (j + 1) = end + 1 + j
          BY <1>3, <1>end, <2>1
        <5> QED
          BY <1>4, <1>9, <5>1, Zenon
      <4> QED
        BY <4>1, Zenon
    <3> QED
      BY <1>put, <2>9, <3>1, <3>2, <3>3, Zenon DEF Placed
  <2>10. Layout(to)'
    <3>1. \A i \in 1..Len(sent') : Placed(to, i)'
      <4>1. ASSUME NEW i \in 1..Len(sent') PROVE Placed(to, i)'
        <5>1. i \in 1..Len(sent) \/ i = Len(sent')
          BY <1>3, <2>3
        <5> QED
          BY <2>8, <2>9, <5>1, Zenon
      <4> QED
        BY <4>1, Zenon
    <3>2. reads' <= Len(sent') /\ rpos' = to[reads' + 1]
      BY <1>1, <1>2, <1>3, <1>7, <2>3, <2>6
    <3>3. Len(stream') = to[Len(sent') + 1]
      BY <1>3, <2>3, <2>6
    <3> QED
      BY <2>1, <2>6, <2>7, <3>1, <3>2, <3>3, Zenon DEF Layout
  <2> QED
    BY <1>6, <2>10, Zenon
<1> QED
  BY <1>1, <1>11, <1>12, Zenon

LEMMA StreamStep == LinkInv /\ StreamInv /\ [Next]_vars => StreamInv'
<1> SUFFICES ASSUME LinkInv, StreamInv, [Next]_vars PROVE StreamInv'
  BY Zenon
<1>0. /\ stream \in Seq(Byte) /\ lbuf \in Byte /\ reads \in Nat
      /\ ~disowned => \E at : Layout(at)
  BY Zenon DEF StreamInv
<1>1. ASSUME NEW body \in Bodies, Seal(body) PROVE StreamInv'
  <2> DEFINE p == Encoded(RawFrame(body))
  <2>1. /\ fpc = "idle" /\ payload' = p /\ n' = 0 /\ ferr' = TooLong(p)
        /\ lbuf' = (IF TooLong(p) THEN lbuf ELSE Put(Len(p) % (MaxPayload + 1)))
        /\ fpc' = (IF TooLong(p) THEN "return" ELSE "write")
        /\ UNCHANGED <<stream, sent, disowned, reads, rpos>>
    BY <1>1, Zenon DEF Seal, Flush, receiverVars, historyVars
  <2>2. p \in Seq(Byte)
    <3>1. RawFrame(body) \in Seq(Byte) /\ Len(RawFrame(body)) <= MaxBatchSize
      BY FrameType, Zenon DEF LinkInv, LinkTypes
    <3> QED
      BY <3>1, EncodedIs, Zenon DEF LinkInv, LinkTypes
  <2> HIDE DEF p
  <2>3. Len(p) \in Nat
    BY <2>2
  <2>4. ~TooLong(p) => Len(p) <= MaxPayload /\ Len(p) % (MaxPayload + 1) = Len(p)
    BY <2>3, TcpAssumption DEF TooLong
  <2>5. lbuf' \in Byte
    BY <1>0, <2>1, <2>3, <2>4, PutType, Zenon
  <2>6. ASSUME NEW at, Layout(at) PROVE Layout(at)'
    <3>1. Len(stream) = at[Len(sent) + 1] /\ Len(stream) \in Nat
      BY <1>0, <2>1, <2>6 DEF Layout, Partial
    <3>2. fpc' = "write" => Len(payload') <= MaxPayload /\ lbuf' = Put(Len(payload'))
      BY <2>1, <2>4, Zenon
    <3>3. Unfinished(at[Len(sent) + 1])'
      <4>1. Len(stream') = at[Len(sent') + 1] + n' /\ n' <= Len(payload') /\ n' = 0
        BY <2>1, <2>3, <3>1
      <4> QED
        BY <3>2, <4>1 DEF Unfinished
    <3>4. Partial'
      <4>1. TooLong(p) \in BOOLEAN
        BY DEF TooLong
      <4> QED
        BY <2>1, <4>1, Zenon DEF Partial
    <3>5. \A i \in 1..Len(sent) : Placed(at, i)'
      BY <2>1, <2>6, Zenon DEF Layout, Placed
    <3> QED
      BY <2>1, <2>6, <3>3, <3>4, <3>5, Zenon DEF Layout
  <2> QED
    BY <1>0, <2>1, <2>5, <2>6, Zenon DEF StreamInv
<1>2. CASE FlushSucceeded \/ FlushFailed
  <2>1. /\ fpc = "return" /\ fpc' = "idle" /\ UNCHANGED <<stream, lbuf, sent, reads, rpos>>
        /\ ~disowned' => ~disowned /\ ~(ferr /\ n > 0)
    <3>1. CASE FlushSucceeded
      BY <3>1, Zenon DEF FlushSucceeded, FlushReturns, receiverVars, historyVars
    <3>2. CASE FlushFailed
      <4>1. /\ fpc = "return" /\ fpc' = "idle" /\ UNCHANGED <<stream, lbuf, sent, reads, rpos>>
            /\ disowned' = (disowned \/ n > 0)
        BY <3>2, Zenon DEF FlushFailed, FlushReturns, receiverVars
      <4> QED
        BY <4>1, Zenon
    <3> QED
      BY <1>2, <3>1, <3>2, Zenon
  <2>2. ASSUME NEW at, Layout(at), ~disowned' PROVE Layout(at)'
    <3>1. n \in Nat /\ Len(stream) \in Nat /\ Len(sent) \in Nat /\ at[Len(sent) + 1] \in Nat
      <4>1. n \in Nat /\ Len(sent) \in Nat /\ Len(stream) \in Nat
        BY <1>0 DEF LinkInv, LinkTypes
      <4>2. at \in [1..(Len(sent) + 1) -> Nat]
        BY <2>2, Zenon DEF Layout
      <4> QED
        BY <4>1, <4>2
    <3>2. Len(stream) = at[Len(sent) + 1]
      <4>1. CASE Partial
        <5>1. Len(stream) = at[Len(sent) + 1] + n /\ n = 0
          BY <2>1, <2>2, <3>1, <4>1 DEF Layout, Partial, Unfinished
        <5> QED
          BY <3>1, <5>1
      <4>2. CASE ~Partial
        BY <2>2, <4>2, Zenon DEF Layout
      <4> QED
        BY <4>1, <4>2, Zenon
    <3>3. ~Partial'
      BY <2>1, Zenon DEF Partial
    <3>4. \A i \in 1..Len(sent) : Placed(at, i)'
      BY <2>1, <2>2, Zenon DEF Layout, Placed
    <3> QED
      BY <2>1, <2>2, <3>2, <3>3, <3>4, Zenon DEF Layout
  <2> QED
    BY <1>0, <2>1, <2>2, Zenon DEF StreamInv
<1>3. ASSUME NEW k \in 1..(MaxPayload + 1), Transmit(k) PROVE StreamInv'
  <2>1. UNCHANGED <<lbuf, reads, disowned>>
    BY <1>3, Zenon DEF Transmit, Accept, receiverVars
  <2>2. stream' \in Seq(Byte)
    <3>1. /\ stream \in Seq(Byte) /\ payload \in Seq(Byte) /\ lbuf \in Byte /\ n \in Nat /\ k \in Nat
          /\ k <= Len(Bufs) - n /\ stream' = stream \o SubSeq(Bufs, n + 1, n + k)
      BY <1>0, <1>3, TcpAssumption DEF LinkInv, LinkTypes, Transmit, Accept
    <3>2. Bufs \in Seq(Byte) /\ Len(Bufs) \in Nat
      BY <3>1 DEF Bufs
    <3>3. n + k <= Len(Bufs)
      BY <3>1, <3>2
    <3>4. SubSeq(Bufs, n + 1, n + k) \in Seq(Byte)
      BY <3>1, <3>2, <3>3, Sliced, Zenon
    <3> QED
      BY <3>1, <3>4, Joined, Zenon
  <2>3. ASSUME NEW at, Layout(at) PROVE \E to : Layout(to)'
    BY <1>3, <2>3, TransmitLayout, Zenon
  <2> QED
    BY <1>0, <2>1, <2>2, <2>3, Zenon DEF StreamInv
<1>4. CASE CutOff
  <2>1. /\ fpc = "write" /\ fpc' = "return" /\ ferr'
        /\ UNCHANGED <<stream, lbuf, payload, n, sent, reads, rpos, disowned>>
    BY <1>4, Zenon DEF CutOff, WriteFails, receiverVars, historyVars
  <2>2. ASSUME NEW at, Layout(at) PROVE Layout(at)'
    <3>1. Partial /\ Partial' /\ Bufs' = Bufs
      BY <2>1, Zenon DEF Partial, Bufs
    <3>2. Unfinished(at[Len(sent) + 1])'
      BY <2>1, <2>2, <3>1, Zenon DEF Layout, Unfinished
    <3>3. \A i \in 1..Len(sent) : Placed(at, i)'
      BY <2>1, <2>2, Zenon DEF Layout, Placed
    <3> QED
      BY <2>1, <2>2, <3>1, <3>2, <3>3, Zenon DEF Layout
  <2> QED
    BY <1>0, <2>1, <2>2, Zenon DEF StreamInv
<1>5. CASE Read
  <2>1. /\ FrameArrived /\ reads' = reads + 1 /\ rpos' = rpos + 1 + FrameLen
        /\ UNCHANGED <<stream, lbuf, payload, n, fpc, ferr, sent, disowned>>
    BY <1>5, Zenon DEF Read, tcpVars, historyVars
  <2>2. ASSUME NEW at, Layout(at) PROVE Layout(at)'
    <3>1. reads < Len(sent) /\ rpos' = at[reads + 2]
      BY <2>1, <2>2, NextRead, Zenon
    <3>2. reads' <= Len(sent') /\ rpos' = at[reads' + 1]
      <4>1. Len(sent) \in Nat
        BY DEF LinkInv, LinkTypes
      <4> QED
        BY <1>0, <2>1, <3>1, <4>1
    <3>3. (Partial <=> Partial') /\ Bufs' = Bufs
      BY <2>1, Zenon DEF Partial, Bufs
    <3>4. Unfinished(at[Len(sent) + 1]) => Unfinished(at[Len(sent) + 1])'
      BY <2>1, <3>3, Zenon DEF Unfinished
    <3>5. \A i \in 1..Len(sent) : Placed(at, i)'
      BY <2>1, <2>2, ZenonT(30) DEF Layout, Placed
    <3> QED
      BY <2>1, <2>2, <3>2, <3>3, <3>4, <3>5, Zenon DEF Layout
  <2> QED
    BY <1>0, <2>1, <2>2 DEF StreamInv
<1>6. CASE Disconnect \/ Rejoin \/ UNCHANGED vars
  <2>1. UNCHANGED <<stream, lbuf, payload, n, fpc, ferr, sent, disowned, reads, rpos>>
    BY <1>6, Zenon DEF Disconnect, Close, Rejoin, vars, tcpVars, receiverVars, historyVars
  <2>2. ASSUME NEW at, Layout(at) PROVE Layout(at)'
    BY <2>1, <2>2, ZenonT(30) DEF Layout, Partial, Unfinished, Placed, Bufs
  <2> QED
    BY <1>0, <2>1, <2>2, Zenon DEF StreamInv
<1> QED
  BY <1>1, <1>2, <1>3, <1>4, <1>5, <1>6, Zenon DEF Next

\* What the receiver read last is on the stream as the frame of that number.
ReadInv == reads > 0 /\ ~disowned => last.frame = sent[reads].payload

LEMMA ReadStep == LinkInv /\ StreamInv /\ ReadInv /\ [Next]_vars => ReadInv'
<1> SUFFICES ASSUME LinkInv, StreamInv, ReadInv, [Next]_vars, reads' > 0, ~disowned'
             PROVE  last'.frame = sent'[reads'].payload
  BY ZenonT(30) DEF ReadInv
<1>1. reads \in Nat /\ sent \in Seq(SentFrame) /\ Len(sent) \in Nat /\ ~disowned
  <2>1. reads \in Nat /\ sent \in Seq(SentFrame) /\ Len(sent) \in Nat
    BY DEF StreamInv, LinkInv, LinkTypes
  <2>2. disowned' \/ ~disowned
    BY Zenon DEF Next, Seal, FlushSucceeded, FlushFailed, Transmit, CutOff, Disconnect, Read, Rejoin,
      vars, historyVars
  <2> QED
    BY <2>1, <2>2, Zenon
<1>2. PICK at : Layout(at)
  BY <1>1, Zenon DEF StreamInv
<1>3. reads <= Len(sent)
  BY <1>2, Zenon DEF Layout
<1>4. CASE Read
  <2>1. FrameArrived /\ last'.frame = NextFrame /\ reads' = reads + 1 /\ sent' = sent
    BY <1>4, Zenon DEF Read, historyVars
  <2> QED
    BY <1>2, <2>1, NextRead, Zenon
<1>5. ASSUME NEW k \in 1..(MaxPayload + 1), Transmit(k) PROVE last'.frame = sent'[reads'].payload
  <2>1. UNCHANGED <<last, reads>> /\ (sent' = sent \/ \E frame : sent' = Append(sent, frame))
    BY <1>5, Zenon DEF Transmit, receiverVars
  <2>2. reads \in 1..Len(sent) /\ sent'[reads] = sent[reads]
    BY <1>1, <1>3, <2>1
  <2> QED
    BY <1>1, <2>1, <2>2, Zenon DEF ReadInv
<1>6. CASE \/ (\E body \in Bodies : Seal(body)) \/ FlushSucceeded \/ FlushFailed
           \/ CutOff \/ Disconnect \/ Rejoin \/ UNCHANGED vars
  <2>1. UNCHANGED <<last, reads, sent>>
    BY <1>6, Zenon DEF Seal, FlushSucceeded, FlushFailed, CutOff, Disconnect, Rejoin, vars, receiverVars,
      historyVars
  <2> QED
    BY <1>1, <2>1, Zenon DEF ReadInv
<1> QED
  BY <1>4, <1>5, <1>6, ZenonT(30) DEF Next

\* TCPSink.Flush and its receiver: the length prefix keeps frames apart, for every
\* sequence of payload lengths and every way the connection splits the writes.
THEOREM PrefixKeepsFramesApart == Spec => []FramesKeptApart
<1>1. Init => ReadInv
  <2>1. Init => reads = 0
    BY Zenon DEF Init
  <2> QED
    BY <2>1 DEF ReadInv
<1>2. LinkInv /\ StreamInv /\ ReadInv => FramesKeptApart
  BY Zenon DEF ReadInv, StreamInv, Layout, FramesKeptApart
<1> QED
  BY <1>1, <1>2, LinkInvInit, LinkInvStep, StreamInit, StreamStep, ReadStep, PTL DEF Spec

-----------------------------------------------------------------------------
(* What a receiver makes of the frames                                     *)

Marks == {{}, {KeyframeBit}}
Framed(s, mark, b) == <<Put(s), Crc(b) \cup mark>> \o b

LEMMA BodyType ==
  ASSUME NEW b \in Bodies
  PROVE  b \in Seq(Byte) /\ Crc(b) \in Byte /\ KeyframeBit \notin Crc(b) /\ {KeyframeBit} \in SUBSET (0..(ByteBits - 1))
<1>1. b \in Seq(Byte) /\ Crc(b) \subseteq 0..(ByteBits - 2) /\ ByteBits \in Nat /\ ByteBits > 0
  BY LinkAssumption, BytesAssumption, SMTT(30)
<1> QED
  BY <1>1 DEF Byte, KeyframeBit

\* The parts of a frame are those it was put together from.
LEMMA FramedIs ==
  ASSUME NEW s \in Nat, NEW mark \in Marks, NEW b \in Bodies,
         NEW raw, raw = Framed(s, mark, b)
  PROVE  /\ raw \in Seq(Byte) /\ Len(raw) = 2 + Len(b)
         /\ raw[2] = Crc(b) \cup mark
         /\ \A j \in 1..Len(b) : raw[2 + j] = b[j]
<1> DEFINE tag == Crc(b) \cup mark
<1>1. b \in Seq(Byte) /\ Len(b) \in Nat
  BY BodyType, SMTT(30)
<1>2. tag \in Byte
  BY BodyType, Zenon DEF Byte, Marks
<1>3. Put(s) \in Byte
  BY PutType, Zenon
<1> HIDE DEF tag
<1>4. <<Put(s), tag>> \in Seq(Byte) /\ Len(<<Put(s), tag>>) = 2 /\ <<Put(s), tag>>[2] = tag
  BY <1>2, <1>3
<1>5. PICK h : h = <<Put(s), tag>>
  BY Zenon
<1>6. raw = h \o b
  BY <1>5, Zenon DEF Framed, tag
<1>7. /\ h \o b \in Seq(Byte) /\ Len(h \o b) = 2 + Len(b)
      /\ (h \o b)[2] = tag /\ \A j \in 1..Len(b) : (h \o b)[2 + j] = b[j]
  BY <1>1, <1>4, <1>5, Joined
<1> QED
  BY <1>6, <1>7, Zenon DEF tag

\* The body of a sequence of bytes with a header.
LEMMA BodyIs ==
  ASSUME NEW f \in Seq(Byte), Len(f) >= 2
  PROVE  Body(f) = [j \in 1..(Len(f) - 2) |-> f[2 + j]]
<1>1. PICK m \in Nat : Len(f) = 2 + m
  <2>1. Len(f) - 2 \in Nat /\ Len(f) = 2 + (Len(f) - 2)
    OBVIOUS
  <2> QED
    BY <2>1, Zenon
<1>2. /\ SubSeq(f, 2 + 1, 2 + m) \in Seq(Byte) /\ Len(SubSeq(f, 2 + 1, 2 + m)) = m
      /\ \A j \in 1..m : SubSeq(f, 2 + 1, 2 + m)[j] = f[2 + j]
  BY <1>1, Sliced
<1>3. Body(f) = SubSeq(f, 2 + 1, 2 + m) /\ m = Len(f) - 2
  BY <1>1 DEF Body, HeaderSize
<1> HIDE DEF Body
<1>4. Body(f) \in Seq(Byte) /\ Len(Body(f)) = m /\ \A j \in 1..m : Body(f)[j] = f[2 + j]
  BY <1>2, <1>3, Zenon
<1> QED
  BY <1>3, <1>4

\* Decode accepts a frame as it was sealed, and tells whether it is a keyframe.
LEMMA SealedIsValid ==
  ASSUME NEW s \in Nat, NEW mark \in Marks, NEW b \in Bodies,
         NEW raw, raw = Framed(s, mark, b)
  PROVE  /\ Valid(raw) /\ (ParseHeader(raw).keyframe <=> KeyframeBit \in mark) /\ ~(Len(raw) < HeaderSize)
<1>2. /\ raw \in Seq(Byte) /\ Len(raw) = 2 + Len(b)
      /\ raw[2] = Crc(b) \cup mark
      /\ \A j \in 1..Len(b) : raw[2 + j] = b[j]
  BY FramedIs, SMTT(30)
<1>3. b \in Seq(Byte) /\ Len(b) \in Nat /\ KeyframeBit \notin Crc(b)
  BY BodyType
<1>4. Body(raw) = [j \in 1..Len(b) |-> raw[2 + j]]
  <2>1. Len(raw) >= 2 /\ Len(raw) - 2 = Len(b)
    BY <1>2, <1>3
  <2> QED
    BY <1>2, <2>1, BodyIs, Zenon
<1>5. Body(raw) = b
  BY <1>2, <1>3, <1>4
<1>6. ParseHeader(raw).crc = raw[2] \ {KeyframeBit} /\ (ParseHeader(raw).keyframe <=> KeyframeBit \in raw[2])
  BY ZenonT(30) DEF ParseHeader
<1>7. raw[2] \ {KeyframeBit} = Crc(b) /\ (KeyframeBit \in raw[2] <=> KeyframeBit \in mark)
  BY <1>2, <1>3, Zenon DEF Marks
<1>8. Valid(raw) /\ (ParseHeader(raw).keyframe <=> KeyframeBit \in mark)
  BY <1>5, <1>6, <1>7, Zenon DEF Valid, CrcOK
<1>9. ~(Len(raw) < HeaderSize)
  BY <1>2, <1>3, SMTT(30) DEF HeaderSize
<1> QED
  BY <1>8, <1>9, Zenon

\* The XOR of a frame with the one before it: its header is the XOR of the headers,
\* its body that of the bodies.
LEMMA DeltaIs ==
  ASSUME NEW s \in Nat, NEW b \in Bodies, NEW raw, raw = Framed(s, {}, b),
         NEW t \in Nat, NEW mark \in Marks, NEW c \in Bodies, NEW base, base = Framed(t, mark, c),
         NEW p, p = Undelta(base, raw)
  PROVE  /\ p \in Seq(Byte) /\ Len(p) = 2 + Len(b) /\ Body(p) = Undelta(c, b)
         /\ ParseHeader(p).crc = XorByte(Crc(b), Crc(c))
         /\ (ParseHeader(p).keyframe <=> KeyframeBit \in mark)
<1>4. /\ raw \in Seq(Byte) /\ Len(raw) = 2 + Len(b) /\ raw[2] = Crc(b)
      /\ \A j \in 1..Len(b) : raw[2 + j] = b[j]
  <2>0. PICK none : none = {}
    BY Zenon
  <2>1. none \in Marks /\ raw = Framed(s, none, b)
    BY <2>0, Zenon DEF Marks
  <2>2. raw[2] = Crc(b) \cup none
    BY <2>1, FramedIs, SMTT(30)
  <2>3. /\ raw \in Seq(Byte) /\ Len(raw) = 2 + Len(b)
        /\ \A j \in 1..Len(b) : raw[2 + j] = b[j]
    BY <2>1, FramedIs, SMTT(30)
  <2> QED
    BY <2>0, <2>2, <2>3, Zenon
<1>5. /\ base \in Seq(Byte) /\ Len(base) = 2 + Len(c)
      /\ base[2] = Crc(c) \cup mark
      /\ \A j \in 1..Len(c) : base[2 + j] = c[j]
  BY FramedIs, SMTT(30)
<1>6. /\ b \in Seq(Byte) /\ Len(b) \in Nat /\ c \in Seq(Byte) /\ Len(c) \in Nat
      /\ KeyframeBit \notin Crc(b) /\ KeyframeBit \notin Crc(c)
  BY BodyType
<1>7. p = [k \in 1..Len(raw) |-> XorByte(raw[k], IF k <= Len(base) THEN base[k] ELSE Zero)]
  BY Zenon DEF Undelta
<1>8. p \in Seq(Byte) /\ Len(p) = 2 + Len(b)
  <2>1. \A k \in 1..Len(raw) : XorByte(raw[k], IF k <= Len(base) THEN base[k] ELSE Zero) \in Byte
    <3>1. ASSUME NEW k \in 1..Len(raw)
          PROVE  XorByte(raw[k], IF k <= Len(base) THEN base[k] ELSE Zero) \in Byte
      <4>1. raw[k] \in Byte /\ (IF k <= Len(base) THEN base[k] ELSE Zero) \in Byte
        BY <1>4, <1>5, ZeroType
      <4> QED
        BY <4>1, XorType, Zenon
    <3> QED
      BY <3>1, Zenon
  <2>2. Len(raw) \in Nat
    BY <1>4
  <2> QED
    BY <1>4, <1>7, <2>1, <2>2, SMTT(30)
<1>9. p[2] = XorByte(Crc(b), Crc(c) \cup mark)
  <2>1. 2 \in 1..Len(raw) /\ 2 <= Len(base)
    <3>1. Len(raw) = 2 + Len(b) /\ Len(base) = 2 + Len(c) /\ Len(b) \in Nat /\ Len(c) \in Nat
      BY <1>4, <1>5, <1>6, Zenon
    <3> QED
      BY <3>1
  <2> QED
    BY <1>4, <1>5, <1>7, <2>1, ZenonT(30)
<1>10. ParseHeader(p).crc = p[2] \ {KeyframeBit} /\ (ParseHeader(p).keyframe <=> KeyframeBit \in p[2])
  BY ZenonT(30) DEF ParseHeader
<1>11. p[2] \ {KeyframeBit} = XorByte(Crc(b), Crc(c)) /\ (KeyframeBit \in p[2] <=> KeyframeBit \in mark)
  BY <1>6, <1>9, SMTT(30) DEF XorByte, Marks
<1>12. Body(p) = Undelta(c, b)
  <2>1. Len(p) >= 2 /\ Len(p) - 2 = Len(b)
    BY <1>6, <1>8
  <2>2. Body(p) = [j \in 1..Len(b) |-> p[2 + j]]
    BY <1>8, <2>1, BodyIs
  <2>3. ASSUME NEW j \in 1..Len(b)
        PROVE  p[2 + j] = XorByte(b[j], IF j <= Len(c) THEN c[j] ELSE Zero)
    <3>1. /\ 2 + j \in 1..Len(raw) /\ (2 + j <= Len(base) <=> j <= Len(c)) /\ raw[2 + j] = b[j]
          /\ (j <= Len(c) => base[2 + j] = c[j])
      BY <1>4, <1>5, <1>6
    <3> QED
      BY <1>7, <3>1
  <2> QED
    BY <2>2, <2>3, ZenonT(30) DEF Undelta
<1> QED
  BY <1>8, <1>10, <1>11, <1>12, ZenonT(30)

\* XOR with the same frame twice, and with none.
LEMMA UndeltaTwice ==
  ASSUME NEW base \in Seq(Byte), NEW raw \in Seq(Byte)
  PROVE  /\ Undelta(base, Undelta(base, raw)) = raw
         /\ Undelta(<< >>, raw) = raw
         /\ Len(Undelta(base, raw)) = Len(raw)
<1> DEFINE b(k) == IF k <= Len(base) THEN base[k] ELSE Zero
<1>1. PICK p : p = Undelta(base, raw)
  BY Zenon
<1>2. Len(raw) \in Nat /\ p = [k \in 1..Len(raw) |-> XorByte(raw[k], b(k))]
  BY <1>1 DEF Undelta
<1>3. \A k \in 1..Len(raw) : raw[k] \in Byte /\ b(k) \in Byte
  BY ZeroType
<1>4. Len(p) = Len(raw)
  BY <1>2
<1>5. Undelta(base, p) = [k \in 1..Len(raw) |-> XorByte(p[k], b(k))]
  BY <1>4, Zenon DEF Undelta
<1> HIDE DEF b
<1>6. \A k \in 1..Len(raw) : XorByte(p[k], b(k)) = raw[k]
  BY <1>2, <1>3, XorTwice, Zenon
<1>7. Undelta(base, p) = raw
  BY <1>2, <1>5, <1>6, SMTT(30)
<1>8. Undelta(<< >>, raw) = [k \in 1..Len(raw) |-> XorByte(raw[k], Zero)]
  BY DEF Undelta
<1>9. \A k \in 1..Len(raw) : XorByte(raw[k], Zero) = raw[k]
  BY Zenon DEF XorByte, Zero
<1>10. Undelta(<< >>, raw) = raw
  BY <1>2, <1>8, <1>9
<1> QED
  BY <1>1, <1>4, <1>7, <1>10, Zenon

Mark(key) == IF key THEN {KeyframeBit} ELSE {}
IsSealed(raw, key) == \E s \in Nat, b \in Sendable : raw = Framed(s, Mark(key), b)

LEMMA MarkType ==
  ASSUME NEW key \in BOOLEAN
  PROVE  Mark(key) \in Marks /\ (KeyframeBit \in Mark(key) <=> key)
  BY Zenon DEF Mark, Marks

\* A frame as drainAndFlush makes it when previousState is base.
Sound(frame, base) ==
  /\ frame.keyframe \in BOOLEAN /\ IsSealed(frame.raw, frame.keyframe)
  /\ frame.keyframe => DeltaEncoding /\ KeyframeInterval > 0
  /\ frame.payload = IF DeltaEncoding /\ ~frame.keyframe THEN Undelta(base, frame.raw) ELSE frame.raw

SoundBase(base) ==
  base = << >> \/ \E key \in BOOLEAN : IsSealed(base, key) /\ (key => KeyframeInterval > 0)

\* A delta frame on its own fails the checksum.
LEMMA DeltaIsNotValid ==
  ASSUME ChecksumsApart, NEW s \in Nat, NEW b \in Sendable, NEW raw, raw = Framed(s, {}, b),
         NEW t \in Nat, NEW mark \in Marks, NEW c \in Sendable, NEW base, base = Framed(t, mark, c)
  PROVE  ~Valid(Undelta(base, raw))
<1>1. b \in Bodies /\ c \in Bodies
  BY Zenon DEF Sendable
<1>2. PICK p : p = Undelta(base, raw)
  BY Zenon
<1>3. Body(p) = Undelta(c, b) /\ ParseHeader(p).crc = XorByte(Crc(b), Crc(c))
  BY <1>1, <1>2, DeltaIs
<1>4. Crc(Undelta(c, b)) # XorByte(Crc(b), Crc(c))
  BY Zenon DEF ChecksumsApart
<1>5. ~Valid(p)
  BY <1>3, <1>4, Zenon DEF Valid, CrcOK
<1> QED
  BY <1>2, <1>5, Zenon

\* With the sender's baseline, or from a keyframe, the frame is recovered.
LEMMA SyncedReceives ==
  ASSUME KeyframeInterval = 0 \/ ChecksumsApart, NEW frame, NEW base, Sound(frame, base), SoundBase(base),
         prev = base \/ frame.keyframe \/ ~DeltaEncoding
  PROVE  Received(frame.payload) = Ok(frame.raw)
<1>1. PICK s \in Nat, b \in Sendable : frame.raw = Framed(s, Mark(frame.keyframe), b)
  BY Zenon DEF Sound, IsSealed
<1>2. PICK raw, p : raw = frame.raw /\ p = frame.payload
  BY Zenon
<1>3. b \in Bodies /\ frame.keyframe \in BOOLEAN
  BY ZenonT(30) DEF Sendable, Sound
<1>m. Mark(frame.keyframe) \in Marks /\ (KeyframeBit \in Mark(frame.keyframe) <=> frame.keyframe)
  BY <1>3, MarkType, Zenon
<1>4. raw \in Seq(Byte)
  BY <1>1, <1>2, <1>3, <1>m, FramedIs, SMTT(30)
<1>5. Valid(raw) /\ (ParseHeader(raw).keyframe <=> frame.keyframe) /\ ~(Len(raw) < HeaderSize)
  BY <1>1, <1>2, <1>3, <1>m, SealedIsValid, Zenon
<1>6. Decode(raw) = Ok(raw)
  BY <1>5, Zenon DEF Decode
<1>7. CASE ~DeltaEncoding
  BY <1>2, <1>6, <1>7, Zenon DEF Received, Sound
<1>8. CASE DeltaEncoding /\ frame.keyframe
  <2>1. p = raw /\ ReadsAsKeyframe(raw)
    BY <1>2, <1>5, <1>8, Zenon DEF Sound, ReadsAsKeyframe
  <2>2. Reconstruct(prev, p) = Ok(raw)
    BY <1>5, <2>1, Zenon DEF Reconstruct
  <2> QED
    BY <1>2, <1>8, <2>2, Zenon DEF Received
<1>9. CASE DeltaEncoding /\ ~frame.keyframe
  <2>1. prev = base /\ p = Undelta(base, raw)
    BY <1>2, <1>9, ZenonT(30) DEF Sound
  <2>2. base \in Seq(Byte) /\ ~ReadsAsKeyframe(p)
    <3>1. CASE base = << >>
      <4>1. p = raw
        BY <1>4, <2>1, <3>1, UndeltaTwice, Zenon
      <4> QED
        BY <1>5, <1>9, <3>1, <4>1 DEF ReadsAsKeyframe
    <3>2. CASE base # << >>
      <4>1. PICK key \in BOOLEAN, t \in Nat, c \in Sendable :
              base = Framed(t, Mark(key), c) /\ (key => KeyframeInterval > 0)
        BY <3>2, Zenon DEF SoundBase, IsSealed
      <4>2. c \in Bodies /\ raw = Framed(s, {}, b)
        <5>1. Mark(frame.keyframe) = {}
          BY <1>9, Zenon DEF Mark
        <5> QED
          BY <1>1, <1>2, <5>1, Zenon DEF Sendable
      <4>3. Mark(key) \in Marks /\ (KeyframeBit \in Mark(key) <=> key)
        BY MarkType, Zenon
      <4>4. base \in Seq(Byte)
        BY <4>1, <4>2, <4>3, FramedIs, ZenonT(30)
      <4>5. ParseHeader(p).keyframe <=> KeyframeBit \in Mark(key)
        BY <1>3, <2>1, <4>1, <4>2, <4>3, DeltaIs, SMTT(30)
      <4>6. KeyframeInterval = 0 => ~key
        BY <4>1
      <4>7. ChecksumsApart => ~Valid(p)
        BY <2>1, <4>1, <4>2, <4>3, DeltaIsNotValid, Zenon
      <4> QED
        BY <4>3, <4>4, <4>5, <4>6, <4>7, Zenon DEF ReadsAsKeyframe
    <3> QED
      BY <3>1, <3>2
  <2>3. Undelta(prev, p) = raw /\ Len(p) = Len(raw)
    BY <1>4, <2>1, <2>2, UndeltaTwice, Zenon
  <2>4. Reconstruct(prev, p) = Ok(raw)
    BY <1>5, <1>6, <2>2, <2>3, Zenon DEF Reconstruct
  <2> QED
    BY <1>2, <1>9, <2>4, Zenon DEF Received
<1> QED
  BY <1>3, <1>7, <1>8, <1>9, Zenon

\* Without it, a delta frame is refused.
LEMMA DesyncedReceives ==
  ASSUME ChecksumsApart, DeltaEncoding, NEW frame, NEW base, Sound(frame, base), SoundBase(base),
         base # << >>, prev = << >>, ~frame.keyframe
  PROVE  Received(frame.payload) = ErrCRCMismatch
<1>1. PICK s \in Nat, b \in Sendable : frame.raw = Framed(s, Mark(frame.keyframe), b)
  BY Zenon DEF Sound, IsSealed
<1>2. PICK key \in BOOLEAN, t \in Nat, c \in Sendable : base = Framed(t, Mark(key), c)
  BY Zenon DEF SoundBase, IsSealed
<1>3. PICK p, raw : p = frame.payload /\ raw = frame.raw
  BY Zenon
<1>4. Mark(frame.keyframe) = {} /\ b \in Bodies /\ c \in Bodies /\ Mark(key) \in Marks
  BY MarkType, ZenonT(30) DEF Mark, Sendable
<1>5. p = Undelta(base, raw) /\ raw = Framed(s, {}, b)
  BY <1>1, <1>3, <1>4, Zenon DEF Sound
<1>6. ~Valid(p)
  BY <1>2, <1>4, <1>5, DeltaIsNotValid, Zenon
<1>7. p \in Seq(Byte) /\ Len(p) = 2 + Len(b) /\ Len(b) \in Nat
  <2>1. p \in Seq(Byte) /\ Len(p) = 2 + Len(b)
    BY <1>2, <1>4, <1>5, DeltaIs
  <2>2. b \in Seq(Byte)
    BY <1>4, BodyType, Zenon
  <2> QED
    BY <2>1, <2>2
<1>8. Undelta(<< >>, p) = p /\ ~(Len(p) < HeaderSize)
  BY <1>7, UndeltaTwice DEF HeaderSize
<1>9. Reconstruct(prev, p) = ErrCRCMismatch
  BY <1>6, <1>8, Zenon DEF Reconstruct, Decode, ReadsAsKeyframe
<1> QED
  BY <1>3, <1>9, Zenon DEF Received

\* The frame the k-th frame was XORed with, as far as it was.
Base(k) == IF k = 1 THEN << >> ELSE sent[k - 1].raw

InProgress == [payload |-> payload, raw |-> byteBuffer, keyframe |-> IsKeyframe]

\* Every frame on the stream, and the one being written, was made from the frame
\* before it on the stream.
CodecInv ==
  ~disowned => /\ \A k \in 1..Len(sent) : Sound(sent[k], Base(k))
               /\ fpc = "write" => Sound(InProgress, Base(Len(sent) + 1))

LEMMA BaseIsSound ==
  ASSUME LinkInv, CodecInv, ~disowned, NEW k \in 1..(Len(sent) + 1)
  PROVE  SoundBase(Base(k)) /\ (k > 1 => Base(k) # << >>)
<1>0. Len(sent) \in Nat
  BY DEF LinkInv, LinkTypes
<1>1. CASE k = 1
  BY <1>1 DEF Base, SoundBase
<1>2. CASE k # 1
  <2>1. k - 1 \in 1..Len(sent) /\ Base(k) = sent[k - 1].raw
    BY <1>0, <1>2 DEF Base
  <2>2. PICK i \in 1..Len(sent) : Base(k) = sent[i].raw
    BY <2>1, Zenon
  <2>3. Sound(sent[i], Base(i))
    BY Zenon DEF CodecInv
  <2>4. PICK key \in BOOLEAN : IsSealed(Base(k), key) /\ (key => KeyframeInterval > 0)
    BY <2>2, <2>3, Zenon DEF Sound
  <2>5. PICK s \in Nat, b \in Sendable : Base(k) = Framed(s, Mark(key), b)
    BY <2>4, Zenon DEF IsSealed
  <2>6. Base(k) \in Seq(Byte) /\ Len(Base(k)) = 2 + Len(b) /\ Len(b) \in Nat
    <3>1. b \in Bodies /\ Mark(key) \in Marks
      BY MarkType, Zenon DEF Sendable
    <3>2. b \in Seq(Byte)
      BY <3>1, BodyType
    <3>3. Len(b) \in Nat
      BY <3>2
    <3>4. PICK raw, mark : raw = Base(k) /\ mark = Mark(key)
      BY Zenon
    <3>5. mark \in Marks /\ raw = Framed(s, mark, b)
      BY <2>5, <3>1, <3>4, Zenon
    <3>6. raw \in Seq(Byte) /\ Len(raw) = 2 + Len(b)
      BY <3>1, <3>5, FramedIs, ZenonT(30)
    <3> QED
      BY <3>3, <3>4, <3>6, Zenon
  <2>7. Base(k) # << >>
    BY <2>6
  <2> QED
    BY <2>4, <2>7 DEF SoundBase
<1> QED
  BY <1>1, <1>2, Zenon

\* What Seal gives to Flush is made from the last frame on the stream.
LEMMA SealIsSound ==
  ASSUME LinkInv, ~disowned, fpc = "idle", NEW body \in Bodies,
         NEW frame, frame = [payload |-> Encoded(RawFrame(body)), raw |-> RawFrame(body), keyframe |-> IsKeyframe],
         ~TooLong(frame.payload)
  PROVE  Sound(frame, Base(Len(sent) + 1))
<1> DEFINE base == Base(Len(sent) + 1)
<1>1. PICK raw : raw = RawFrame(body)
  BY Zenon
<1>2. /\ frame.raw = raw /\ frame.payload = Encoded(raw) /\ frame.keyframe = IsKeyframe
  BY <1>1, Zenon
<1>3. IsKeyframe \in BOOLEAN /\ (IsKeyframe => DeltaEncoding /\ KeyframeInterval > 0)
  BY Zenon DEF IsKeyframe
<1>4. raw \in Seq(Byte) /\ Len(raw) <= MaxBatchSize
  BY <1>1, FrameType, Zenon DEF LinkInv, LinkTypes
<1>5. Encoded(raw) \in Seq(Byte) /\ Len(Encoded(raw)) = Len(raw)
  BY <1>4, EncodedIs, ZenonT(30) DEF LinkInv, LinkTypes
<1>6. raw = Framed(NextSeq, Mark(IsKeyframe), body) /\ NextSeq \in Nat
  BY <1>1, LinkAssumption DEF RawFrame, Framed, Tag, Mark, NextSeq, LinkInv, LinkTypes
<1> HIDE DEF NextSeq
<1>7. body \in Sendable
  <2>1. Len(raw) = 2 + Len(body)
    <3>1. Mark(IsKeyframe) \in Marks
      BY <1>3, MarkType, Zenon
    <3> QED
      BY <1>6, <3>1, FramedIs, ZenonT(30)
  <2>2. Len(raw) <= MaxPayload
    <3>1. Len(raw) \in Nat /\ ~(Len(Encoded(raw)) > MaxPayload)
      BY <1>2, <1>4 DEF TooLong
    <3> QED
      BY <1>5, <3>1, TcpAssumption
  <2> QED
    BY <2>1, <2>2, Zenon DEF Sendable, HeaderSize
<1>8. IsSealed(raw, IsKeyframe)
  BY <1>6, <1>7, SMTT(30) DEF IsSealed
<1>9. ASSUME DeltaEncoding, ~IsKeyframe PROVE Encoded(raw) = Undelta(base, raw)
  <2>1. LastFlushed = base
    BY DEF LastFlushed, Base, LinkInv, LinkTypes
  <2>2. base \in Seq(Byte)
    BY <2>1, LastFlushedType, Zenon DEF LinkInv
  <2>3. previousState = Extended(base)
    BY <1>9, <2>1, Zenon DEF LinkInv, Baseline
  <2>4. Encoded(raw) = [k \in 1..Len(raw) |-> XorByte(raw[k], previousState[k])]
    BY <1>4, <1>9, EncodedIs, Zenon DEF LinkInv, LinkTypes
  <2> HIDE DEF base
  <2>5. \A k \in 1..Len(raw) : previousState[k] = IF k <= Len(base) THEN base[k] ELSE Zero
    BY <1>4, <2>3, LinkAssumption DEF Extended
  <2> QED
    BY <2>4, <2>5, ZenonT(30) DEF Undelta
<1>10. ~(DeltaEncoding /\ ~IsKeyframe) => Encoded(raw) = raw
  BY Zenon DEF Encoded
<1> QED
  BY <1>2, <1>3, <1>8, <1>9, <1>10, Zenon DEF Sound

LEMMA CodecStep == LinkInv /\ CodecInv /\ [Next]_vars => CodecInv'
<1> SUFFICES ASSUME LinkInv, CodecInv, [Next]_vars, ~disowned'
             PROVE  /\ \A k \in 1..Len(sent') : Sound(sent[k], Base(k))'
                    /\ fpc' = "write" => Sound(InProgress, Base(Len(sent) + 1))'
  BY Zenon DEF CodecInv
<1>1. ~disowned /\ DeltaEncoding' = DeltaEncoding
  BY Zenon DEF LinkInv, LinkTypes, Next, Seal, FlushSucceeded, FlushFailed, Transmit, CutOff,
    Disconnect, Read, Rejoin, vars, senderVars, historyVars
<1>2. sent \in Seq(SentFrame) /\ Len(sent) \in Nat
  BY DEF LinkInv, LinkTypes
<1>3. \A k \in 1..Len(sent) : Sound(sent[k], Base(k))
  BY <1>1, SMTT(30) DEF CodecInv
<1>4. ASSUME sent' = sent PROVE \A k \in 1..Len(sent') : Sound(sent[k], Base(k))'
  BY <1>1, <1>3, <1>4, ZenonT(30) DEF Sound, Base
<1>5. ASSUME NEW body \in Bodies, Seal(body)
      PROVE  sent' = sent /\ (fpc' = "write" => Sound(InProgress, Base(Len(sent) + 1))')
  <2> DEFINE p == Encoded(RawFrame(body))
  <2>1. /\ fpc = "idle" /\ payload' = p /\ byteBuffer' = RawFrame(body) /\ (IsKeyframe' <=> IsKeyframe)
        /\ sent' = sent /\ fpc' = (IF TooLong(p) THEN "return" ELSE "write")
    BY <1>5, Zenon DEF Seal, Flush, historyVars, IsKeyframe
  <2>2. PICK frame : frame = [payload |-> p, raw |-> RawFrame(body), keyframe |-> IsKeyframe]
    BY ZenonT(30)
  <2>3. IsKeyframe' = IsKeyframe
    BY <2>1, Zenon DEF IsKeyframe
  <2>4. InProgress' = frame /\ frame.payload = p
    BY <2>1, <2>2, <2>3, Zenon DEF InProgress
  <2>5. PICK base : base = Base(Len(sent) + 1)
    BY Zenon
  <2>6. (Base(Len(sent) + 1))' = base
    BY <2>1, <2>5, ZenonT(30) DEF Base
  <2>7. ASSUME fpc' = "write" PROVE Sound(frame, base)
    <3>1. ~TooLong(p)
      BY <2>1, <2>7, Zenon
    <3> HIDE DEF p
    <3>2. ~TooLong(frame.payload)
      BY <2>4, <3>1, Zenon
    <3> QED
      BY <1>1, <2>1, <2>2, <2>5, <3>2, SealIsSound, Zenon DEF p
  <2> HIDE DEF p
  <2> QED
    BY <1>1, <2>1, <2>4, <2>6, <2>7, ZenonT(30) DEF Sound
<1>6. ASSUME NEW k \in 1..(MaxPayload + 1), Transmit(k)
      PROVE  /\ \A i \in 1..Len(sent') : Sound(sent[i], Base(i))'
             /\ fpc' = "write" => Sound(InProgress, Base(Len(sent) + 1))'
  <2>1. PICK frame, base : frame = InProgress /\ base = Base(Len(sent) + 1)
    BY Zenon
  <2>2. /\ fpc = "write" /\ fpc' \in {"return", "write"} /\ UNCHANGED <<payload, byteBuffer, keyframeN>>
        /\ sent' = IF fpc' = "return" THEN Append(sent, frame) ELSE sent
    BY <1>6, <2>1, Zenon DEF Transmit, Accept, senderVars, InProgress
  <2>3. Sound(frame, base)
    BY <1>1, <2>1, <2>2, SMTT(30) DEF CodecInv
  <2>4. CASE fpc' = "write"
    <3>1. sent' = sent
      BY <2>2, <2>4, Zenon
    <3>2. IsKeyframe' = IsKeyframe
      BY <1>1, <2>2, Zenon DEF IsKeyframe
    <3>3. InProgress' = frame /\ (Base(Len(sent) + 1))' = base
      BY <2>1, <2>2, <3>1, <3>2, Zenon DEF InProgress, Base
    <3> QED
      BY <1>1, <1>4, <2>3, <3>1, <3>3, Zenon DEF Sound
  <2>5. CASE fpc' = "return"
    <3>1. sent' = Append(sent, frame)
      BY <2>2, <2>5, ZenonT(30)
    <3>2. Len(sent') = Len(sent) + 1 /\ sent'[Len(sent) + 1] = frame
          /\ \A i \in 1..Len(sent) : sent'[i] = sent[i]
      BY <1>2, <3>1
    <3>3. ASSUME NEW i \in 1..Len(sent') PROVE Sound(sent[i], Base(i))'
      <4>1. PICK b : b = Base(i)
        BY Zenon
      <4>2. (Base(i))' = b
        <5>1. i = 1 \/ i - 1 \in 1..Len(sent)
          BY <1>2, <3>2
        <5> QED
          BY <3>2, <4>1, <5>1, Zenon DEF Base
      <4>3. Sound(sent'[i], b)
        <5>1. i \in 1..Len(sent) \/ i = Len(sent) + 1
          BY <1>2, <3>2
        <5>2. CASE i \in 1..Len(sent)
          BY <1>3, <3>2, <4>1, <5>2
        <5>3. CASE i = Len(sent) + 1
          BY <2>1, <2>3, <3>2, <4>1, <5>3, Zenon
        <5> QED
          BY <5>1, <5>2, <5>3, Zenon
      <4> QED
        BY <1>1, <4>2, <4>3, Zenon DEF Sound
    <3> QED
      BY <2>5, <3>3, Zenon
  <2> QED
    BY <2>2, <2>4, <2>5, Zenon
<1>7. CASE FlushSucceeded \/ FlushFailed \/ CutOff
  <2>1. sent' = sent /\ fpc' # "write"
    BY <1>7, Zenon DEF FlushSucceeded, FlushFailed, CutOff, FlushReturns, WriteFails, historyVars
  <2> QED
    BY <1>4, <2>1, Zenon
<1>8. CASE Disconnect \/ Read \/ Rejoin \/ UNCHANGED vars
  <2>1. UNCHANGED <<sent, fpc, payload, byteBuffer, keyframeN>>
    BY <1>8, Zenon DEF Disconnect, Close, Read, Rejoin, vars, senderVars, tcpVars, historyVars
  <2>2. PICK frame, base : frame = InProgress /\ base = Base(Len(sent) + 1)
    BY Zenon
  <2>3. IsKeyframe' = IsKeyframe
    BY <1>1, <2>1, Zenon DEF IsKeyframe
  <2>4. InProgress' = frame /\ (Base(Len(sent) + 1))' = base
    BY <2>1, <2>2, <2>3, Zenon DEF InProgress, Base
  <2>5. fpc' = "write" => Sound(frame, base)
    BY <1>1, <2>1, <2>2, Zenon DEF CodecInv
  <2> QED
    BY <1>1, <1>4, <2>1, <2>4, <2>5, ZenonT(30) DEF Sound
<1> QED
  BY <1>4, <1>5, <1>6, <1>7, <1>8, Zenon DEF Next

\* A receiver in step with the sender holds the frame that the next one on the
\* stream was XORed with; one that is not holds none.
SyncInv ==
  ~disowned => /\ synced /\ DeltaEncoding => prev = Base(reads + 1)
               /\ reads > 0 /\ last.synced => last.err = "none" /\ last.raw = sent[reads].raw

DesyncInv ==
  ~disowned => /\ ~synced => DeltaEncoding /\ prev = << >> /\ reads > 0
               /\ reads > 0 /\ ~last.synced => last.err = "crc"

WireInv == LinkInv /\ StreamInv /\ CodecInv

LEMMA WireInvariant == Spec => []WireInv
<1>1. Init => CodecInv
  BY SMTT(30) DEF Init, TcpInit, CodecInv
<1> QED
  BY <1>1, LinkInvInit, LinkInvStep, StreamInit, StreamStep, CodecStep, PTL DEF Spec, WireInv

\* A step of the receiver reads the next frame of the stream.
LEMMA ReadsNext ==
  ASSUME WireInv, ~disowned, Read
  PROVE  \E frame :
           /\ reads \in Nat /\ frame = sent[reads + 1] /\ reads' = reads + 1 /\ (Base(reads + 1))' = frame.raw
           /\ Sound(frame, Base(reads + 1)) /\ SoundBase(Base(reads + 1))
           /\ reads > 0 => Base(reads + 1) # << >>
           /\ last' = [frame |-> NextFrame, synced |-> synced \/ frame.keyframe,
                       err |-> Received(frame.payload).err, raw |-> Received(frame.payload).raw]
           /\ prev' = IF DeltaEncoding /\ Received(frame.payload).err = "none"
                        THEN Received(frame.payload).raw ELSE prev
           /\ synced' = (synced \/ frame.keyframe)
           /\ UNCHANGED <<sent, disowned, DeltaEncoding>>
<1>1. PICK at : Layout(at)
  BY Zenon DEF WireInv, StreamInv
<1>2. FrameArrived
  BY Zenon DEF Read
<1>3. reads < Len(sent) /\ NextFrame = sent[reads + 1].payload
  BY <1>1, <1>2, NextRead, Zenon DEF WireInv
<1>4. reads \in Nat /\ Len(sent) \in Nat
  BY DEF WireInv, StreamInv, LinkInv, LinkTypes
<1>5. PICK frame : frame = sent[reads + 1]
  BY Zenon
<1>6. reads + 1 \in 1..Len(sent) /\ reads + 1 \in 1..(Len(sent) + 1)
  BY <1>3, <1>4
<1>7. Sound(frame, Base(reads + 1))
  BY <1>5, <1>6, Zenon DEF WireInv, CodecInv
<1>8. SoundBase(Base(reads + 1)) /\ (reads > 0 => Base(reads + 1) # << >>)
  <2>1. reads > 0 => reads + 1 > 1
    BY <1>4
  <2> QED
    BY <1>6, <2>1, BaseIsSound, Zenon DEF WireInv
<1>9. reads' = reads + 1 /\ UNCHANGED <<sent, disowned, DeltaEncoding>>
  BY Zenon DEF Read, senderVars, historyVars
<1>10. (Base(reads + 1))' = frame.raw
  BY <1>4, <1>5, <1>9 DEF Base
<1>11. AtKeyframe = frame.keyframe
  <2>1. frame.keyframe \in BOOLEAN
    BY <1>7, ZenonT(30) DEF Sound
  <2> QED
    BY <1>3, <1>5, <2>1, Zenon DEF AtKeyframe
<1>12. /\ last' = [frame |-> NextFrame, synced |-> synced \/ AtKeyframe,
                   err |-> Received(NextFrame).err, raw |-> Received(NextFrame).raw]
       /\ prev' = (IF DeltaEncoding /\ Received(NextFrame).err = "none"
                     THEN Received(NextFrame).raw ELSE prev)
       /\ synced' = (synced \/ AtKeyframe)
  BY ZenonT(30) DEF Read
<1> QED
  BY <1>3, <1>4, <1>5, <1>7, <1>8, <1>9, <1>10, <1>11, <1>12, Zenon

\* Any other step leaves what was read where it is.
LEMMA ReadStays ==
  ASSUME WireInv, ~disowned', [Next]_vars, ~Read
  PROVE  /\ ~disowned /\ reads \in Nat /\ UNCHANGED <<reads, last, DeltaEncoding>>
         /\ reads > 0 => sent'[reads] = sent[reads]
         /\ (Base(reads + 1))' = Base(reads + 1)
         /\ UNCHANGED <<prev, synced>>
              \/ (prev' = << >> /\ reads > 0 /\ synced' = ~DeltaEncoding)
<1>1. ~disowned /\ UNCHANGED <<reads, last, DeltaEncoding>>
  BY ZenonT(30) DEF WireInv, LinkInv, LinkTypes, Next, Seal, FlushSucceeded, FlushFailed, Transmit, CutOff,
    Disconnect, Rejoin, vars, senderVars, receiverVars, historyVars
<1>2. UNCHANGED <<prev, synced>> \/ (prev' = << >> /\ reads > 0 /\ synced' = ~DeltaEncoding)
  BY ZenonT(30) DEF Next, Seal, FlushSucceeded, FlushFailed, Transmit, CutOff, Disconnect, Rejoin, vars, receiverVars
<1>3. sent' = sent \/ \E frame : sent' = Append(sent, frame)
  BY Zenon DEF Next, Seal, FlushSucceeded, FlushFailed, Transmit, CutOff, Disconnect, Rejoin, vars, historyVars
<1>4. PICK at : Layout(at)
  BY <1>1, Zenon DEF WireInv, StreamInv
<1>5. sent \in Seq(SentFrame) /\ Len(sent) \in Nat /\ reads \in 0..Len(sent)
  BY <1>4 DEF Layout, WireInv, StreamInv, LinkInv, LinkTypes
<1>6. reads > 0 => sent'[reads] = sent[reads]
  BY <1>3, <1>5
<1>7. (Base(reads + 1))' = Base(reads + 1)
  BY <1>1, <1>5, <1>6 DEF Base
<1> QED
  BY <1>1, <1>2, <1>5, <1>6, <1>7, SMTT(30)

LEMMA SyncStep ==
  ASSUME KeyframeInterval = 0 \/ ChecksumsApart
  PROVE  WireInv /\ SyncInv /\ [Next]_vars => SyncInv'
<1> SUFFICES ASSUME WireInv, SyncInv, [Next]_vars, ~disowned'
             PROVE  /\ synced' /\ DeltaEncoding' => prev' = (Base(reads + 1))'
                    /\ reads' > 0 /\ last'.synced => last'.err = "none" /\ last'.raw = sent'[reads'].raw
  BY Zenon DEF SyncInv
<1>1. CASE Read
  <2>0. ~disowned
    BY <1>1, Zenon DEF Read, historyVars
  <2>1. PICK frame :
          /\ reads \in Nat /\ frame = sent[reads + 1] /\ reads' = reads + 1 /\ (Base(reads + 1))' = frame.raw
          /\ Sound(frame, Base(reads + 1)) /\ SoundBase(Base(reads + 1))
          /\ last' = [frame |-> NextFrame, synced |-> synced \/ frame.keyframe,
                      err |-> Received(frame.payload).err, raw |-> Received(frame.payload).raw]
          /\ prev' = IF DeltaEncoding /\ Received(frame.payload).err = "none"
                       THEN Received(frame.payload).raw ELSE prev
          /\ synced' = (synced \/ frame.keyframe)
          /\ UNCHANGED <<sent, disowned, DeltaEncoding>>
    BY <1>1, <2>0, ReadsNext, ZenonT(30)
  <2>2. last'.synced = (synced \/ frame.keyframe) /\ last'.err = Received(frame.payload).err
        /\ last'.raw = Received(frame.payload).raw
    BY <2>1, Zenon
  <2>3. ASSUME synced \/ frame.keyframe PROVE Received(frame.payload) = Ok(frame.raw)
    <3>1. prev = Base(reads + 1) \/ frame.keyframe \/ ~DeltaEncoding
      BY <2>0, <2>3, Zenon DEF SyncInv
    <3> QED
      BY <2>1, <3>1, SyncedReceives, Zenon
  <2>4. (synced \/ frame.keyframe)
          => Received(frame.payload).err = "none" /\ Received(frame.payload).raw = frame.raw
    BY <2>3 DEF Ok
  <2> QED
    BY <2>1, <2>2, <2>4, ZenonT(30)
<1>2. CASE ~Read
  <2>1. /\ ~disowned /\ reads \in Nat /\ UNCHANGED <<reads, last, DeltaEncoding>>
        /\ reads > 0 => sent'[reads] = sent[reads]
        /\ (Base(reads + 1))' = Base(reads + 1)
        /\ UNCHANGED <<prev, synced>>
             \/ (prev' = << >> /\ reads > 0 /\ synced' = ~DeltaEncoding)
    BY <1>2, ReadStays, Zenon
  <2>2. synced' /\ DeltaEncoding' => prev' = (Base(reads + 1))'
    BY <2>1, ZenonT(30) DEF SyncInv
  <2>3. reads' > 0 /\ last'.synced => last'.err = "none" /\ last'.raw = sent'[reads'].raw
    BY <2>1, ZenonT(30) DEF SyncInv
  <2> QED
    BY <2>2, <2>3, Zenon
<1> QED
  BY <1>1, <1>2, Zenon

LEMMA DesyncStep ==
  ASSUME ChecksumsApart
  PROVE  WireInv /\ DesyncInv /\ [Next]_vars => DesyncInv'
<1> SUFFICES ASSUME WireInv, DesyncInv, [Next]_vars, ~disowned'
             PROVE  /\ ~synced' => DeltaEncoding' /\ prev' = << >> /\ reads' > 0
                    /\ reads' > 0 /\ ~last'.synced => last'.err = "crc"
  BY Zenon DEF DesyncInv
<1>1. CASE Read
  <2>0. ~disowned
    BY <1>1, Zenon DEF Read, historyVars
  <2>1. PICK frame :
          /\ reads \in Nat /\ reads' = reads + 1
          /\ Sound(frame, Base(reads + 1)) /\ SoundBase(Base(reads + 1))
          /\ reads > 0 => Base(reads + 1) # << >>
          /\ last' = [frame |-> NextFrame, synced |-> synced \/ frame.keyframe,
                      err |-> Received(frame.payload).err, raw |-> Received(frame.payload).raw]
          /\ prev' = IF DeltaEncoding /\ Received(frame.payload).err = "none"
                       THEN Received(frame.payload).raw ELSE prev
          /\ synced' = (synced \/ frame.keyframe)
          /\ DeltaEncoding' = DeltaEncoding
    BY <1>1, <2>0, ReadsNext, ZenonT(30)
  <2>2. last'.synced = (synced \/ frame.keyframe) /\ last'.err = Received(frame.payload).err
    BY <2>1, Zenon
  <2>3. ASSUME ~(synced \/ frame.keyframe)
        PROVE  DeltaEncoding /\ prev = << >> /\ Received(frame.payload).err = "crc"
    <3>1. DeltaEncoding /\ prev = << >> /\ reads > 0 /\ ~frame.keyframe
      BY <2>0, <2>3, Zenon DEF DesyncInv
    <3>2. Received(frame.payload) = ErrCRCMismatch
      BY <2>1, <3>1, DesyncedReceives, ZenonT(30)
    <3> QED
      BY <3>1, <3>2 DEF ErrCRCMismatch
  <2>4. reads' > 0
    BY <2>1
  <2> QED
    BY <2>1, <2>2, <2>3, <2>4, ZenonT(30)
<1>2. CASE ~Read
  <2>1. /\ ~disowned /\ UNCHANGED <<reads, last, DeltaEncoding>>
        /\ UNCHANGED <<prev, synced>>
             \/ (prev' = << >> /\ reads > 0 /\ synced' = ~DeltaEncoding)
    BY <1>2, ReadStays, Zenon
  <2>2. reads' > 0 /\ ~last'.synced => last'.err = "crc"
    BY <2>1, Zenon DEF DesyncInv
  <2>3. ~synced' => DeltaEncoding' /\ prev' = << >> /\ reads' > 0
    <3>1. CASE UNCHANGED <<prev, synced>>
      BY <2>1, <3>1, Zenon DEF DesyncInv
    <3>2. CASE prev' = << >> /\ reads > 0 /\ synced' = ~DeltaEncoding
      <4>1. ~synced' => DeltaEncoding
        BY <3>2, Zenon
      <4> QED
        BY <2>1, <3>2, <4>1, Zenon
    <3> QED
      BY <2>1, <3>1, <3>2, Zenon
  <2> QED
    BY <2>2, <2>3, Zenon
<1> QED
  BY <1>1, <1>2, Zenon

\* drainAndFlush, TCPSink.Flush and Reconstruct together: a receiver in step with the
\* sender recovers every frame as it was sealed.  Where there are keyframes, a delta
\* frame must not pass for one, which is a matter of the checksum alone.
THEOREM StreamIsReconstructed ==
  ASSUME KeyframeInterval = 0 \/ ChecksumsApart
  PROVE  Spec => []Reconstructed
<1>1. Init => SyncInv
  <2> SUFFICES ASSUME Init PROVE SyncInv
    BY Zenon
  <2>1. reads = 0 /\ prev = << >>
    BY Zenon DEF Init
  <2>2. Base(reads + 1) = << >>
    BY <2>1 DEF Base
  <2> QED
    BY <2>1, <2>2 DEF SyncInv
<1>2. SyncInv => Reconstructed
  BY Zenon DEF SyncInv, Reconstructed
<1> QED
  BY <1>1, <1>2, WireInvariant, SyncStep, PTL DEF Spec

\* codec.go, Reconstruct: a receiver that joins in the middle of the stream gets
\* ErrCRCMismatch until it reads a keyframe, and never a wrong frame.
THEOREM JoinersAreTold ==
  ASSUME ChecksumsApart
  PROVE  Spec => []DesyncDetected
<1>1. Init => DesyncInv
  BY DEF Init, DesyncInv
<1>2. DesyncInv => DesyncDetected
  BY Zenon DEF DesyncInv, DesyncDetected
<1> QED
  BY <1>1, <1>2, WireInvariant, DesyncStep, PTL DEF Spec

=============================================================================
