--------------------------- MODULE MCLinearBuffer ---------------------------
(* Symmetry for checking DynamicLinearBuffer: neither the buffers nor the   *)
(* blocks of the allocator differ from each other.                          *)
EXTENDS DynamicLinearBuffer, TLC

Symmetry == Permutations(Buffers) \cup Permutations(Blocks)
=============================================================================
