------------------------------- MODULE Bytes -------------------------------
(***************************************************************************)
(* The bytes of a frame.  A byte is the set of its one bits, so that ^ is  *)
(* symmetric difference and the zero byte is the empty set.  A field of    *)
(* the header or a length prefix, several bytes wide in the code, is one   *)
(* byte here: nothing below looks inside a field.                          *)
(***************************************************************************)
EXTENDS Integers, Sequences

CONSTANT ByteBits    \* bits of a byte

ASSUME BytesAssumption == ByteBits \in Nat \ {0}

Byte == SUBSET (0..(ByteBits - 1))

Zero == {}

XorByte(x, y) == (x \ y) \cup (y \ x)

\* binary.LittleEndian.PutUint16/32 and Uint16/32, on one byte.
Put(n) == {i \in 0..(ByteBits - 1) : (n \div 2^i) % 2 = 1}
Get(x) == CHOOSE n \in 0..(2^ByteBits - 1) : Put(n) = x

=============================================================================
