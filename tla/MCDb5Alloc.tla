----------------------------- MODULE MCDb5Alloc -----------------------------
(* The databases Db5Alloc is checked for.                                  *)
EXTENDS Db5Alloc, TLC

CONSTANTS a, b, v1, v2

Symmetry == Permutations(Names) \cup Permutations(Versions)
=============================================================================
