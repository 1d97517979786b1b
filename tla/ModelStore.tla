----------------------------- MODULE ModelStore -----------------------------
(***************************************************************************)
(* What the download manager promises of the models directory, without     *)
(* part files, slots, claims and goroutines: which models a destination    *)
(* has in store, at its place or moved aside where they can be found, and  *)
(* which downloads may still bring theirs.                                 *)
(***************************************************************************)
CONSTANTS Job, File, Target, Overwrite, Present, Shared

VARIABLES
  stock,    \* the models in store for each destination
  pending   \* the jobs whose model may still come

vars == <<stock, pending>>

Init ==
  /\ stock = [f \in File |-> IF f \in Present THEN {"old"} ELSE {}]
  /\ pending = Job

\* What another program copied into the directory is not protected.
Unprotected(s) == {s, s \ {"foreign"}}

\* A whole model comes into store, once, and drives no other one out.
Arrive(j) ==
  /\ j \in pending
  /\ pending' = pending \ {j}
  /\ \E s \in Unprotected(stock[Target[j]]) :
       stock' = [stock EXCEPT ![Target[j]] = s \cup {j}]

\* Only when its own model is in store does a job remove the one it replaces.
Replace(j) ==
  /\ j \in Overwrite /\ j \in stock[Target[j]]
  /\ \E m \in stock[Target[j]] \ {j} :
       stock' = [stock EXCEPT ![Target[j]] = @ \ {m}]
  /\ UNCHANGED pending

\* A job that fails puts back what it moved aside, over whatever came meanwhile.
PutBack(j) ==
  /\ j \in pending \cap Overwrite
  /\ pending' = pending \ {j}
  /\ \E s \in Unprotected(stock[Target[j]]) \ {{}} :
       stock' = [stock EXCEPT ![Target[j]] = s]

\* Downloads fail or are cancelled, and never come to anything again.
GiveUp ==
  /\ pending' \in SUBSET pending
  /\ UNCHANGED stock

Appear(f) ==
  /\ f \in Shared
  /\ stock' = [stock EXCEPT ![f] = @ \cup {"foreign"}]
  /\ UNCHANGED pending

Next ==
  \/ \E j \in Job : Arrive(j) \/ Replace(j) \/ PutBack(j)
  \/ GiveUp
  \/ \E f \in File : Appear(f)

Spec == Init /\ [][Next]_vars
=============================================================================
