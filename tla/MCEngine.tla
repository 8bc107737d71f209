------------------------------ MODULE MCEngine ------------------------------
(***************************************************************************)
(* Values for model checking Engine that a configuration cannot write.     *)
(***************************************************************************)
EXTENDS EngineProgress

\* Lengths a Marshal may return: negative, zero, shorter than, equal to and longer
\* than MaxItemSize, and longer than the room left in the buffer.
MarshalLengths == {-1, 0, 1, 2, 3, 6}

=============================================================================
