------------------------- MODULE MCFederationConfig ------------------------
(* FederationConfig on a small instance: r1 and r2 have the same domain. *)
EXTENDS FederationConfig, TLC

CONSTANTS r1, r2, r3

MCDomain == [r \in Routes |-> IF r = r3 THEN "b" ELSE "a"]
============================================================================
