-------------------------- MODULE MCFederationLink -------------------------
(* FederationLink on a small instance. *)
EXTENDS FederationLink, TLC

Symmetry == Permutations(Socks)
============================================================================
