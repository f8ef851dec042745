------------------------------ MODULE RouteDrift -----------------------------
(****************************************************************************)
(* The drift detector (packages/api/src/automation/drift-detector.ts) and   *)
(* the drift router (packages/api/src/routers/drift.ts) on top of RouteSync.*)
(*                                                                          *)
(* Every 30 s a poll reads the ids Caddy has, then compares them with the   *)
(* table; it opens and resolves rows of `drift_events`.  What it read from  *)
(* Caddy can be stale by the time it looks at the table.                    *)
(****************************************************************************)
EXTENDS RouteSync

VARIABLES
    missing,       \* routes with an unresolved missing_in_caddy event
    orphan,        \* there is an unresolved missing_in_db event (its routeId is null)
    poll,          \* the poll: whether it has Caddy's answer, and the ids in it
    repairing      \* the event a handler resolves when its push returns, by route

driftVars == <<missing, orphan, poll, repairing>>
allVars   == <<vars, driftVars>>

PollIdle == [pc |-> "idle", ids |-> {}]

DriftInit ==
    /\ Init
    /\ missing = {} /\ orphan = FALSE
    /\ poll = PollIdle
    /\ repairing = [p \in Procs |-> None]

Served == {r \in Routes : caddy[r] # None}

PollRead ==
    /\ poll.pc = "idle"
    /\ poll' = [pc |-> "answered", ids |-> Served]
    /\ UNCHANGED <<vars, missing, orphan, repairing>>

\* Seeded fault: a reconcile resolves whatever is open on its route when it ends.
ForgetNothing(resolved) == UNCHANGED repairing

\* A handler that was about to resolve an event finds it resolved: only the
\* row with this id is updated, a later event on the same route is another row.
Forget(resolved) ==
    repairing' = [p \in Procs |-> IF repairing[p] \in resolved THEN None ELSE repairing[p]]

\* Seeded faults: the comparison is the wrong way round; events are never
\* resolved by a poll; ids are compared with all rows, enabled or not.
PollRecordInverted ==
    /\ poll.pc = "answered"
    /\ missing' = (missing \cup (enabled \cap poll.ids)) \ poll.ids
    /\ orphan' = (orphan \/ poll.ids \ enabled # {})
    /\ Forget(missing \ missing')
    /\ poll' = PollIdle
    /\ UNCHANGED vars

PollRecordOnly ==
    /\ poll.pc = "answered"
    /\ missing' = missing \cup (enabled \ poll.ids)
    /\ orphan' = (orphan \/ poll.ids \ enabled # {})
    /\ poll' = PollIdle
    /\ UNCHANGED <<vars, repairing>>

PollRecordAllRows ==
    /\ poll.pc = "answered"
    /\ missing' = (missing \cup enabled) \ poll.ids
    /\ orphan' = (orphan \/ poll.ids \ rows # {})
    /\ Forget(missing \ missing')
    /\ poll' = PollIdle
    /\ UNCHANGED vars

\* Enabled rows whose id Caddy did not list get an event unless they have one;
\* an id that is not that of an enabled row gets the one event without routeId;
\* events of routes that are back are resolved, the one without routeId never.
PollRecord ==
    /\ poll.pc = "answered"
    /\ missing' = (missing \cup enabled) \ poll.ids
    /\ orphan' = (orphan \/ poll.ids \ enabled # {})
    /\ Forget(missing \ missing')
    /\ poll' = PollIdle
    /\ UNCHANGED vars

\* drift.reconcile with mark_resolved.
MarkResolved(r) ==
    /\ r \in missing
    /\ missing' = missing \ {r}
    /\ Forget({r})
    /\ UNCHANGED <<vars, orphan, poll>>

\* Either action resolves the event without routeId and does nothing else.
MarkOrphanResolved ==
    /\ orphan
    /\ orphan' = FALSE
    /\ UNCHANGED <<vars, missing, poll, repairing>>

\* drift.reconcile with db_to_caddy, up to the push.
Reconcile(p, r) ==
    /\ r \in missing
    /\ ForceResync(p, r)
    /\ repairing' = [repairing EXCEPT ![p] = r]
    /\ UNCHANGED <<missing, orphan, poll>>

\* The same for a route whose row is gone: the event is resolved at once.
ReconcileDeleted(r) == r \notin rows /\ MarkResolved(r)

\* The push of a reconcile returns: the event is resolved whatever the answer.
ReconcileReturns(p) ==
    /\ PushReturns(p)
    /\ missing' = missing \ {repairing[p]}
    /\ Forget({repairing[p]} \ {None})
    /\ UNCHANGED <<orphan, poll>>

\* A restart of the application ends the poll; the next one starts at once.
DriftRestart ==
    /\ AppRestart
    /\ poll' = PollIdle
    /\ repairing' = [p \in Procs |-> None]
    /\ UNCHANGED <<missing, orphan>>

SyncStep ==
    \/ \E p \in Procs : \/ HandlerBegins(p) \/ CallRuns(p) \/ Verify(p)
                        \/ CreateReturns(p) \/ RemoveReturns(p)
    \/ ReplaceAll
    \/ CaddyRestart

DriftNext ==
    \/ SyncStep /\ UNCHANGED driftVars
    \/ \E p \in Procs : ReconcileReturns(p)
    \/ DriftRestart
    \/ PollRead \/ PollRecord
    \/ MarkOrphanResolved
    \/ \E r \in Routes : MarkResolved(r) \/ ReconcileDeleted(r)
    \/ \E p \in Procs, r \in Routes : Reconcile(p, r)

\* setInterval fires again and again and Caddy answers a poll now and then; the
\* application is not restarted in the middle of every single poll.
PollFairness == WF_allVars(PollRead) /\ SF_allVars(PollRecord)

DriftSpec == DriftInit /\ [][DriftNext]_allVars /\ PollFairness

------------------------------------------------------------------------------
(* Correctness.                                                             *)

\* Events are on routes that had a row once; only a handler that is pushing a
\* route can hold its event, and the event it holds is unresolved.
DriftTypeOK ==
    /\ missing \subseteq born /\ orphan \in BOOLEAN
    /\ poll \in [pc : {"idle", "answered"}, ids : SUBSET Routes]
    /\ repairing \in [Procs -> Routes \cup {None}]
    /\ \A p \in Procs : repairing[p] # None =>
          /\ repairing[p] \in missing
          /\ InFlight(p) /\ proc[p].op = "resync" /\ proc[p].r = repairing[p]

\* An enabled route that Caddy goes on not serving always has an event again,
\* whoever marks it resolved and however often.
MissingIsReported ==
    \A r \in Routes :
        <>[](r \in enabled /\ caddy[r] = None) => []<>(r \in missing)

\* The event of a route that Caddy serves again is resolved for good, also when
\* a poll with an older answer has just opened it.
RestoredIsResolved ==
    \A r \in Routes : <>[](r \in Served) => <>[](r \notin missing)

\* What Caddy goes on serving without an enabled row is reported.
OrphanIsReported ==
    (\E r \in Routes : <>[](r \in Served \ enabled)) => []<>orphan

(* What the documentation says and the code does not do.                    *)

\* docs/reference/features.md: "Detect when Caddy config diverges from DB".
\* A route that Caddy goes on serving with another configuration than its row
\* describes, with no handler, read-back or bootstrap under way, is reported, by
\* an event or by its status.
DivergenceIsReported ==
    \A r \in Routes :
        <>[](/\ r \in enabled /\ r \in Served /\ (IF extra[r] = <<>> THEN caddy[r] ELSE Head(extra[r])) # data[r]
             /\ rep.pc = "idle" /\ \A p \in Procs : proc[p].r # r)
            => <>(r \in missing \/ sync[r] = "drift")
==============================================================================
