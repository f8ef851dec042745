---------------------------- MODULE MCRouteSync ----------------------------
(* RouteSync on a small instance: create and the bootstrap build d2 as d1 (they
   leave out what d2 has and d1 has not), resync builds d1 as d2. *)
EXTENDS RouteSync, TLC

CONSTANTS d1, d2, bad

MCCreateForm == [d \in Data |-> IF d = d2 THEN d1 ELSE d]
MCBootForm   == [d \in Data |-> IF d = d2 THEN d1 ELSE d]
MCResyncForm == [d \in Data |-> IF d = d1 THEN d2 ELSE d]

Symmetry == Permutations(Procs)
============================================================================
