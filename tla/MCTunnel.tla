------------------------------ MODULE MCTunnel ------------------------------
(* Tunnel for TLC: two requests next to a change of the credentials.       *)
EXTENDS Tunnel, TLC
=============================================================================
