----------------------------- MODULE MCSessionPool -----------------------------
(***************************************************************************)
(* Two requests for two tenants over a pool of two connections.            *)
(***************************************************************************)
EXTENDS SessionPool, TLC

Symmetry == Permutations(Sessions) \cup Permutations(Connections)
=============================================================================
