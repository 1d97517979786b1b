---------------------------- MODULE Installation ----------------------------
(***************************************************************************)
(* What a self update promises of the program, whatever directories it     *)
(* moves on the way: a launch always finds one version with its user data, *)
(* a new version comes in one step while nothing runs and brings the data  *)
(* of the old one along, and until it confirmed itself it can be taken     *)
(* back, to exactly what was there before.                                 *)
(***************************************************************************)
EXTENDS Naturals

CONSTANTS Update, Base, None

VARIABLES
  installed,  \* the version and the data that a launch would find
  running,    \* the program runs
  fallback    \* what a version on trial replaced, or None

vars == <<installed, running, fallback>>

Init ==
  /\ installed = [ver |-> Base, data |-> 0]
  /\ running = TRUE
  /\ fallback = None

Run == ~running /\ running' = TRUE /\ UNCHANGED <<installed, fallback>>

\* It quits, crashes or is killed.
End == running /\ running' = FALSE /\ UNCHANGED <<installed, fallback>>

\* Only the program changes its user data.
Save ==
  /\ running
  /\ installed' = [installed EXCEPT !.data = @ + 1]
  /\ UNCHANGED <<running, fallback>>

\* One version at a time is on trial.
Exchange(u) ==
  /\ ~running /\ fallback = None /\ installed.ver # u
  /\ installed' = [installed EXCEPT !.ver = u]
  /\ fallback' = installed
  /\ UNCHANGED running

\* A version confirms itself by running.
Confirm ==
  /\ running /\ fallback # None
  /\ fallback' = None
  /\ UNCHANGED <<installed, running>>

GoBack ==
  /\ ~running /\ fallback # None
  /\ installed' = fallback
  /\ fallback' = None
  /\ UNCHANGED running

Next == Run \/ End \/ Save \/ Confirm \/ GoBack \/ \E u \in Update : Exchange(u)

Spec == Init /\ [][Next]_vars
=============================================================================
