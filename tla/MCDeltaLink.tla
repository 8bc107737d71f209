---------------------------- MODULE MCDeltaLink ----------------------------
(***************************************************************************)
(* Values for model checking DeltaLink: a checksum built as CRC-32/IEEE is *)
(* (reflected, register preset to ones and complemented at the end, then   *)
(* truncated to make room for the keyframe bit) with a 6-bit register and  *)
(* 4-bit bytes, and bodies for it.                                         *)
(***************************************************************************)
EXTENDS DeltaLink, SequencesExt

Register == 0..5
Poly == {2, 3, 5}

Clock(reg) == XorByte({i - 1 : i \in reg \ {0}}, IF 0 \in reg THEN Poly ELSE {})

ClockByte(reg) ==
  LET after[k \in 0..ByteBits] == IF k = 0 THEN reg ELSE Clock(after[k - 1])
  IN after[ByteBits]

ScaledCrc(body) ==
  (Register \ FoldLeft(LAMBDA reg, byte : ClockByte(XorByte(reg, byte)), Register, body))
    \cap (0..(ByteBits - 2))

\* Bodies of one and three bytes, and one that TCPSink rejects.
ShortAndLong == {<<{1, 3}>>, <<{2}, {0, 3}, {1}>>, <<{0, 1}, {}, {2, 3}>>, <<{1}, {1}, {1}, {1}>>}

\* The properties are about streams on which every byte belongs to a frame the
\* sender takes for delivered: what comes after the first other byte is not explored.
OwnedStream == ~disowned

\* Bodies of the one length for which the checksum of zeros is zero, as it is for
\* CRC-32 truncated to 15 bits at a length of 5017 bytes.
TwoBytes == {<<{0}, {1}>>, <<{2}, {3}>>}

\* The checksum tells these bodies apart.
ASSUME Apart == Bodies = ShortAndLong => ChecksumsApart

ASSUME CrcOfZeros ==
  /\ ScaledCrc(<<Zero, Zero>>) = {}
  /\ ScaledCrc(<<Zero>>) # {} /\ ScaledCrc(<<Zero, Zero, Zero>>) # {}

=============================================================================
