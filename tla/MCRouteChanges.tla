---------------------------- MODULE MCRouteChanges ----------------------------
EXTENDS RouteChanges

CONSTANTS u1, u2

SwapTo(form) == [action |-> "update_upstream", form |-> form, ups |-> u2]
TurnOff      == [action |-> "disable", form |-> "none", ups |-> None]

\* A swap as the page sends it, which the worker understands, and one as the tests
\* write it, which executeDue understands.
MCAsked    == <<SwapTo("text"), SwapTo("list")>>
MCAskedOff == <<TurnOff>>
===============================================================================
