------------------------------ MODULE Schedule ------------------------------
(****************************************************************************)
(* What the scheduled changes of a route promise, whoever carries them out: *)
(* a change waits, is taken up by somebody, and is settled once; a change   *)
(* that is settled (done, failed, cancelled or deleted) is never taken up   *)
(* again; only a stop of the program puts one that was taken up back among  *)
(* those that wait.  RouteChanges implements this.                          *)
(****************************************************************************)
CONSTANT Changes

VARIABLE phase

Phases == {"absent", "waiting", "taken", "settled"}

Init == phase = [c \in Changes |-> "absent"]

Moved(S, to) == phase' = [c \in Changes |-> IF c \in S THEN to ELSE phase[c]]
In(p)        == {c \in Changes : phase[c] = p}

\* Somebody schedules a change.
Create(c) == phase[c] = "absent" /\ Moved({c}, "waiting")

\* It is withdrawn before anybody took it up, alone or with the route.
Withdraw(S) == S # {} /\ S \subseteq In("waiting") /\ Moved(S, "settled")

\* It is taken up, with others that wait.
TakeUp(S) == S # {} /\ S \subseteq In("waiting") /\ Moved(S, "taken")

\* It is done, or has failed.
Settle(c) == phase[c] = "taken" /\ Moved({c}, "settled")

\* The program stops: what was taken up and not settled waits again.
Interrupt ==
    \E S \in SUBSET In("taken") :
        phase' = [c \in Changes |-> IF c \in S THEN "waiting"
                                    ELSE IF phase[c] = "taken" THEN "settled"
                                    ELSE phase[c]]

Next ==
    \/ \E c \in Changes : Create(c) \/ Settle(c)
    \/ \E S \in SUBSET Changes : Withdraw(S) \/ TakeUp(S)
    \/ Interrupt

Spec == Init /\ [][Next]_phase
=============================================================================
