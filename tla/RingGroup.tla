----------------------------- MODULE RingGroup -----------------------------
(***************************************************************************)
(* What the cluster protocol promises about one TCP Ring session, without  *)
(* messages, locks or leases: the workers' runtimes are started before the *)
(* coordinator's, each at most once, and a member that left stays away.    *)
(***************************************************************************)
CONSTANTS Node, Session, Coordinator, Workers

VARIABLES
  began,   \* per session: the nodes that ever started its runtime
  gone     \* per session: the nodes that joined it and left

vars == <<began, gone>>

Init == began = [s \in Session |-> {}] /\ gone = [s \in Session |-> {}]

WorkerStarts(s, w) ==
  /\ w \in Workers[s] \ (began[s] \cup gone[s])
  /\ began' = [began EXCEPT ![s] = @ \cup {w}]
  /\ UNCHANGED gone

CoordinatorStarts(s) ==
  /\ Workers[s] \subseteq began[s]
  /\ Coordinator[s] \notin began[s] \cup gone[s]
  /\ began' = [began EXCEPT ![s] = @ \cup {Coordinator[s]}]
  /\ UNCHANGED gone

Leave(s, n) ==
  /\ n \in (Workers[s] \cup {Coordinator[s]}) \ gone[s]
  /\ gone' = [gone EXCEPT ![s] = @ \cup {n}]
  /\ UNCHANGED began

Next ==
  \E s \in Session :
    \/ CoordinatorStarts(s)
    \/ \E n \in Node : WorkerStarts(s, n) \/ Leave(s, n)

Spec == Init /\ [][Next]_vars
=============================================================================
