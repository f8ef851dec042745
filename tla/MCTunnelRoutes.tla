--------------------------- MODULE MCTunnelRoutes ---------------------------
(* TunnelRoutes on a small instance: a provider that keeps a list, one     *)
(* that hands out ports and one whose agent forgets.                        *)
EXTENDS TunnelRoutes, TLC

CONSTANTS p1, p2, p3

MCTypeOf == (p1 :> "cloudflare" @@ p2 :> "tailscale" @@ p3 :> "ngrok")
Symmetry == Permutations(Routes)
=============================================================================
