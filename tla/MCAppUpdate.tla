---------------------------- MODULE MCAppUpdate ----------------------------
(* AppUpdate for TLC: automatic updates and an upload that share a lock.   *)
EXTENDS AppUpdate, TLC

CONSTANTS u1, u2, u3

AllUpdates == {u1, u2, u3}
Uploaded == {u2}

\* What the program is built to survive without help from outside.
Survivable == {"prepare", "launch", "deadline"}
=============================================================================
