--------------------------- MODULE MCClusterRing ---------------------------
(* Groups for the runs of ClusterRing.                                     *)
EXTENDS ClusterRing, TLC

CONSTANTS n1, n2, n3, s1, s2

\* One session over three nodes.
ThreeCoordinator == s1 :> n1
ThreeWorkers == s1 :> {n2, n3}

\* Two sessions of the same coordinator.
AgainCoordinator == s1 :> n1 @@ s2 :> n1
AgainWorkers == s1 :> {n2} @@ s2 :> {n2}

\* One session over two nodes.
PairCoordinator == s1 :> n1
PairWorkers == s1 :> {n2}
=============================================================================
