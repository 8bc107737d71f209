----------------------------- MODULE MCRingBuf -----------------------------
(* Finite instances of RingBuf for TLC.                                    *)
EXTENDS RingBuf, TLC

Symmetry == Permutations(Producers)

=============================================================================
