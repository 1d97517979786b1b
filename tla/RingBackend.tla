----------------------------- MODULE RingBackend -----------------------------
(***************************************************************************)
(* What the cluster of a node relies on when it borrows the node's runtime *)
(* (the interface Backend of package cluster), whoever implements it: one  *)
(* reservation at a time, single-machine runtimes only without one, ring   *)
(* runtimes only with one, never two at once, and ready means running.     *)
(***************************************************************************)
CONSTANTS Session, None

VARIABLES
  owner,     \* the session that holds the reservation, or None
  runtime,   \* "none", "single" or "ring"
  ready      \* the runtime answers requests

vars == <<owner, runtime, ready>>

Init == owner = None /\ runtime = "none" /\ ready = FALSE

ReserveRing(s) ==
  /\ owner = None
  /\ owner' = s
  /\ UNCHANGED <<runtime, ready>>

\* A single-machine runtime is never started under a reservation, a ring runtime
\* never without one; the last runtime has ended before.
Start(kind) ==
  /\ runtime = "none"
  /\ (kind = "ring") <=> (owner # None)
  /\ runtime' = kind
  /\ ready' = FALSE
  /\ UNCHANGED owner

BecomeReady ==
  /\ runtime # "none"
  /\ ready' = TRUE
  /\ UNCHANGED <<owner, runtime>>

Ended == runtime' = "none" /\ ready' = FALSE

\* It is stopped, or ends by itself.
End == runtime # "none" /\ Ended /\ UNCHANGED owner

\* The reservation ends, with the runtime or without, or the program does.
ReleaseRing == owner' = None /\ (Ended \/ UNCHANGED <<runtime, ready>>)

Next ==
  \/ \E s \in Session : ReserveRing(s)
  \/ \E kind \in {"single", "ring"} : Start(kind)
  \/ BecomeReady \/ End \/ ReleaseRing

Spec == Init /\ [][Next]_vars
=============================================================================
