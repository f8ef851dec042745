--------------------------- MODULE MCTunnelProcess --------------------------
(* TunnelProcess with three requests and one death of the application. *)
EXTENDS TunnelProcess, TLC
=============================================================================
