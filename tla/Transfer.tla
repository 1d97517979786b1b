------------------------------ MODULE Transfer ------------------------------
(***************************************************************************)
(* What a job may expect of the call that fetches its file, whether it is  *)
(* one request or many ranges: nil is returned for the whole file only,    *)
(* and the part file belongs to the call while it runs and to the caller   *)
(* afterwards.                                                             *)
(***************************************************************************)
VARIABLES
  call,   \* "before", "running", "nil", or "over": it failed, or nil was used
  whole   \* the part file holds every byte

vars == <<call, whole>>

Init == call = "before" /\ whole = FALSE

Begin == call = "before" /\ call' = "running" /\ UNCHANGED whole

\* The last byte comes before the call looks whether anything went wrong.
Fill == call = "running" /\ whole' = TRUE /\ UNCHANGED call

Succeed == call = "running" /\ call' = "nil" /\ whole' = TRUE

\* Whole or not, the file of a call that failed is of no use.
Fail == call \in {"before", "running"} /\ call' = "over" /\ UNCHANGED whole

\* The caller moves the part file to its place, or throws it away.
Dispose ==
  /\ call \in {"nil", "over"}
  /\ call' \in {call, "over"}
  /\ whole' \in {whole, FALSE}

Next == Begin \/ Fill \/ Succeed \/ Fail \/ Dispose

Spec == Init /\ [][Next]_vars
=============================================================================
