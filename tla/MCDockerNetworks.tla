--------------------------- MODULE MCDockerNetworks ---------------------------
(****************************************************************************)
(* DockerNetworks with homelab-edge and one other network, an application's *)
(* or Docker's default bridge, which ProxyOS then was started in.           *)
(****************************************************************************)
EXTENDS DockerNetworks

CONSTANTS edge, app

MCNets  == {edge, app}
MCSyncs == 1 .. 2
=============================================================================
