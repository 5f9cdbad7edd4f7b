----------------------------- MODULE MCEndpoint -----------------------------
(* Instances of Endpoint for TLC. *)
EXTENDS Endpoint, TLC

Peers == Permutations(Conn)
=============================================================================
