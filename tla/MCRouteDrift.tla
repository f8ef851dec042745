---------------------------- MODULE MCRouteDrift ---------------------------
(* RouteDrift on a small instance: bootstrap and resync build what is pushed. *)
EXTENDS RouteDrift

SameForm == [d \in Data |-> d]
============================================================================
