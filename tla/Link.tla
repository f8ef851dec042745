-------------------------------- MODULE Link --------------------------------
(****************************************************************************)
(* What the link of a node promises those who send configurations over it:  *)
(* one session after the other, each of which the central instance can      *)
(* reach ("up") until at some moment it cannot any more ("deaf"), and then  *)
(* not before the next.  FederationLink implements this for every node,     *)
(* FederationConfig sends over it.                                          *)
(****************************************************************************)
VARIABLE link      \* "down", "up" or "deaf"

Init == link = "down"

\* A session begins; the central instance may have lost sight of it already.
Begin == link = "down" /\ link' \in {"up", "deaf"}

\* What the central instance sends goes elsewhere, or nowhere, from now on.
Deafen == link = "up" /\ link' = "deaf"

End == link # "down" /\ link' = "down"

Next == Begin \/ Deafen \/ End

Spec == Init /\ [][Next]_link
=============================================================================
