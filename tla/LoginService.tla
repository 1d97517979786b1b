---------------------------- MODULE LoginService ----------------------------
(***************************************************************************)
(* What the login of the management interface promises: a token that ended *)
(* never opens a session again, whatever is restarted, and a change of the *)
(* security settings ends every token in the very step that takes effect.  *)
(***************************************************************************)
CONSTANTS Token, Policy

VARIABLES
  valid,   \* the tokens that open a session
  ended,   \* the tokens that did and never will again
  policy   \* the security settings the next launch starts with

Init ==
  /\ valid = {}
  /\ ended = {}
  /\ policy \in Policy

Issue(t) ==
  /\ t \notin valid \cup ended
  /\ valid' = valid \cup {t}
  /\ UNCHANGED <<ended, policy>>

\* A logout, the end of the program, or a change that could not be undone; a token
\* that was made but never handed out has ended as well.
End(S) ==
  /\ valid' = valid \ S
  /\ ended' = ended \cup S
  /\ UNCHANGED policy

Change ==
  /\ policy' \in Policy
  /\ valid' = {}
  /\ ended' = ended \cup valid

Next ==
  \/ \E t \in Token : Issue(t)
  \/ \E S \in SUBSET Token : End(S)
  \/ Change

Spec == Init /\ [][Next]_<<valid, ended, policy>>
=============================================================================
