-------------------------- MODULE MCRuntimeManager --------------------------
(* RuntimeManager for TLC.  Three starts are enough for one to be stopped, one *)
(* to race with that stop and one to follow a crash.                       *)
EXTENDS RuntimeManager, TLC

Symmetry == Permutations(Proc)
=============================================================================
