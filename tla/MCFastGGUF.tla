----------------------------- MODULE MCFastGGUF -----------------------------
(* FastGGUF for TLC: a runtime whose original is being removed, one that   *)
(* follows it and one left over from a crash; a file and its replacement.  *)
EXTENDS FastGGUF, TLC

Symmetry == Permutations(Runtime) \cup Permutations(Version)
=============================================================================
