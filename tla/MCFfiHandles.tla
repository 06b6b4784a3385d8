----------------------------- MODULE MCFfiHandles -----------------------------
(* FfiHandles with its objects interchangeable. *)
EXTENDS FfiHandles, TLC

Symmetry == Permutations(Descs) \cup Permutations(Handles) \cup Permutations(Closures)
=============================================================================
