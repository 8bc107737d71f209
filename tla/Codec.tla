------------------------------- MODULE Codec -------------------------------
(***************************************************************************)
(* codec/codec.go: the reference decoder.  A frame is a sequence of bytes: *)
(* the sequence ID, the integrity tag (a truncated checksum of the body    *)
(* and the keyframe bit), then the body.  The item count, which no decoder *)
(* looks at, is left out of the header.                                    *)
(***************************************************************************)
EXTENDS Bytes

CONSTANT Crc(_)      \* crc32.ChecksumIEEE(body) & crcMask

HeaderSize == 2
KeyframeBit == ByteBits - 1

ParseHeader(frame) ==
  [seq |-> Get(frame[1]), crc |-> frame[2] \ {KeyframeBit}, keyframe |-> KeyframeBit \in frame[2]]

Body(frame) == SubSeq(frame, HeaderSize + 1, Len(frame))

\* Variant: the checksum is not compared.
CrcUnchecked(body, want) == TRUE

CrcOK(body, want) == Crc(body) = want

Valid(frame) == CrcOK(Body(frame), ParseHeader(frame).crc)

\* What a call returns: the raw frame or an error.
Ok(raw) == [err |-> "none", raw |-> raw]
ErrShortFrame == [err |-> "short", raw |-> << >>]
ErrCRCMismatch == [err |-> "crc", raw |-> << >>]

Decode(frame) ==
  IF Len(frame) < HeaderSize THEN ErrShortFrame
  ELSE IF Valid(frame) THEN Ok(frame) ELSE ErrCRCMismatch

ReadsAsKeyframe(frame) == ParseHeader(frame).keyframe /\ Valid(frame)

\* XOR with the previous raw frame, zero-extended.
Undelta(prev, frame) ==
  [k \in 1..Len(frame) |-> XorByte(frame[k], IF k <= Len(prev) THEN prev[k] ELSE Zero)]

Reconstruct(prev, frame) ==
  IF Len(frame) < HeaderSize THEN ErrShortFrame
  ELSE IF ReadsAsKeyframe(frame) THEN Ok(frame)
  ELSE Decode(Undelta(prev, frame))

=============================================================================
