---------------------------- MODULE ModelService ----------------------------
(***************************************************************************)
(* What the runtime manager promises, without processes, goroutines or     *)
(* locks: one service that loads, serves and ends, and the model the next  *)
(* launch will load.                                                       *)
(***************************************************************************)
CONSTANTS Model, None

VARIABLES
  service,   \* "down", "idle", "loading", "ready" or "ending"
  saved      \* the model the next launch loads, or None

vars == <<service, saved>>

Init == service = "idle" /\ saved = None

\* A load on this machine is remembered, a load shared with a cluster is not.
Load(m) ==
  /\ service = "idle"
  /\ service' = "loading"
  /\ saved' \in {m, None}

\* The load could not be remembered: it ends at once.
LoadCancelled ==
  /\ service = "idle"
  /\ service' = "ending"
  /\ UNCHANGED saved

BecomeReady ==
  /\ service = "loading"
  /\ service' = "ready"
  /\ UNCHANGED saved

\* Stop forgets the model, Shutdown keeps it; a service once ending stays so.
Unload ==
  /\ service # "down"
  /\ service' = IF service = "idle" THEN "idle" ELSE "ending"
  /\ saved' \in {saved, None}

Ended ==
  /\ service \in {"loading", "ready", "ending"}
  /\ service' = "idle"
  /\ UNCHANGED saved

\* A failed restore forgets the model, unless even that cannot be written.
GiveUp ==
  /\ service \in {"idle", "ending"}
  /\ service' = "idle"
  /\ saved' \in {saved, None}

Down == service # "down" /\ service' = "down" /\ UNCHANGED saved
Up   == service = "down" /\ service' = "idle" /\ UNCHANGED saved

Next ==
  \/ \E m \in Model : Load(m)
  \/ LoadCancelled \/ BecomeReady \/ Unload \/ Ended \/ GiveUp \/ Down \/ Up

Spec == Init /\ [][Next]_vars
=============================================================================
