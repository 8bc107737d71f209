------------------------------ MODULE XorBytes ------------------------------
(***************************************************************************)
(* encode.go: xorBytes, the XOR of two buffers in words of WordSize bytes, *)
(* Unroll words at a time, then the words that are left, then the bytes    *)
(* that are left.  A loop is the set of the indices it writes; buffers are *)
(* sequences, so that byte i of the code is element i + 1.                 *)
(***************************************************************************)
EXTENDS Bytes

CONSTANTS
  WordSize,   \* bytes in a uint64: 8
  Unroll      \* words in an iteration of the first loop: 4

ASSUME XorAssumption == WordSize \in Nat \ {0} /\ Unroll \in Nat \ {0}

\* for ; i+4 <= words; i += 4
UnrolledWords(words) ==
  UNION {i..(i + Unroll - 1) : i \in {m \in 0..words : m % Unroll = 0 /\ m + Unroll <= words}}

\* Variant: the second loop is missing.
CleanupWordsNone(words) == {}

\* for ; i < words; i++, from where the first loop stopped
CleanupWords(words) == (Unroll * (words \div Unroll))..(words - 1)

\* for i := 0; i < tail; i++, from wordEnd on
TailBytes(n) == (WordSize * (n \div WordSize))..(n - 1)

BytesOf(word) == (WordSize * word)..(WordSize * word + WordSize - 1)

WrittenWords(words) == UnrolledWords(words) \cup CleanupWords(words)

Written(n) == (UNION {BytesOf(w) : w \in WrittenWords(n \div WordSize)}) \cup TailBytes(n)

\* What dst holds afterwards.  The one caller passes slices of one length, so the
\* panic on a dst or b shorter than a is out of reach.
Xored(dst, a, b) ==
  [k \in 1..Len(dst) |-> IF (k - 1) \in Written(Len(a)) THEN XorByte(a[k], b[k]) ELSE dst[k]]

=============================================================================
