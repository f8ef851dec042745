---------------------------- MODULE RouteChanges ----------------------------
(****************************************************************************)
(* What changes the row of a route behind the route handlers' back: changes *)
(* scheduled for later, maintenance mode, and the roll back to a version.   *)
(*                                                                          *)
(* A due change is carried out by two programs that do not know each other: *)
(* the worker, which ticks every thirty seconds whether or not its last run *)
(* has ended, and scheduledChanges.executeDue, which every open "Scheduled  *)
(* changes" page calls once a minute.  Each run reads the list of due       *)
(* changes once, then takes them one by one: it writes the row, calls Caddy,*)
(* and records the outcome.  They read the same payload differently.        *)
(*                                                                          *)
(* Statements of better-sqlite3 are synchronous: what happens between two   *)
(* calls of Caddy is one step, or a chain of steps at "next" that no other  *)
(* handler comes between (Yielded).  One route is modelled; changes of      *)
(* different routes only share the list.                                    *)
(****************************************************************************)
EXTENDS Naturals

CONSTANTS
    Changes,       \* the scheduled changes, numbered as they are created
    Runs,          \* runs of the worker and of executeDue at one time, numbered
    Operator,      \* the handler of a request about the route itself
    Upstreams,     \* lists of upstreams a route can have
    First,         \* the one this route begins with
    Asked,         \* what each of the changes asks for
    Broken,        \* upstreams from which no Caddy route can be built
    MaxEvents,     \* bound on crashes and requests about the route, restore not counted
    None

ASSUME NumberAssumption   == Changes \subseteq Nat /\ Runs \subseteq Nat
ASSUME OperatorAssumption == Operator \notin Runs
ASSUME NoneAssumption     == None \notin Upstreams \cup Changes /\ Broken # None
ASSUME FirstAssumption    == First \in Upstreams
ASSUME BoundAssumption    == MaxEvents \in Nat

Payloads ==
    [action : {"enable", "disable", "update_upstream", "rollback"},
     form : {"none", "text", "list", "config", "version"},
     ups : Upstreams \cup {None}]

ASSUME AskedAssumption ==
    /\ Asked \in [Changes -> Payloads]
    /\ \A c \in Changes : Asked[c].form = "none" <=> Asked[c].ups = None

VARIABLES
    row,           \* the row of the route, None once it is deleted
    caddy,         \* the upstreams Caddy serves for it, None when it has no such id
    change,        \* the `status` of each change; "due" is pending with its time reached
    proc,          \* runs, and the request about the route
    original,      \* history: the upstreams when maintenance began, None when it
                   \* was set again since
    events

vars == <<row, caddy, change, proc, original, events>>

Procs    == Runs \cup {Operator}
Stored   == Upstreams \cup {Broken}
RouteRow == [enabled : BOOLEAN, ups : Stored, maintenance : BOOLEAN,
             saved : Stored \cup {None}]
Statuses == {"absent", "pending", "due", "done", "failed", "cancelled", "deleted"}

ProcStates ==
    [pc : {"idle", "next", "push", "reply", "remove", "delete", "deleted", "boot"},
     kind : {"worker", "executeDue", None}, todo : SUBSET Changes, cur : Changes \cup {None},
     snap : Stored \cup {None}, out : {"ok", "failed", None}]

Idle == [pc |-> "idle", kind |-> None, todo |-> {}, cur |-> None, snap |-> None,
         out |-> None]

Init ==
    /\ row = [enabled |-> TRUE, ups |-> First, maintenance |-> FALSE, saved |-> None]
    /\ caddy = First
    /\ change = [c \in Changes |-> "absent"]
    /\ proc = [p \in Procs |-> Idle]
    /\ original = None
    /\ events = 0

Pending(c) == change[c] \in {"pending", "due"}
Held(c)    == \E p \in Runs : c \in proc[p].todo
Yielded    == \A p \in Runs : proc[p].pc # "next"

Event == /\ Yielded
         /\ events < MaxEvents
         /\ events' = events + 1

------------------------------------------------------------------------------
(* The table of scheduled changes.                                          *)

\* A time in the past is one that FallsDue reaches at once.
Create(c) ==
    /\ Yielded
    /\ change[c] = "absent"
    /\ \A d \in Changes : change[d] = "absent" => c <= d
    /\ row # None
    /\ change' = [change EXCEPT ![c] = "pending"]
    /\ UNCHANGED <<row, caddy, proc, original, events>>

\* The clock reaches `scheduledAt`.
FallsDue(c) ==
    /\ Yielded
    /\ change[c] = "pending"
    /\ change' = [change EXCEPT ![c] = "due"]
    /\ UNCHANGED <<row, caddy, proc, original, events>>

Cancel(c) ==
    /\ Yielded
    /\ Pending(c)
    /\ change' = [change EXCEPT ![c] = "cancelled"]
    /\ UNCHANGED <<row, caddy, proc, original, events>>

Delete(c) ==
    /\ Yielded
    /\ change[c] \notin {"absent", "deleted"}
    /\ change' = [change EXCEPT ![c] = "deleted"]
    /\ UNCHANGED <<row, caddy, proc, original, events>>

\* UPDATE ... WHERE id = c, which a deleted row does not notice.
Recorded(c, status) ==
    change' = [change EXCEPT ![c] = IF @ = "deleted" THEN @ ELSE status]

------------------------------------------------------------------------------
(* A run.                                                                   *)

(* Seeded faults: the query takes failed changes again; an outcome is recorded only
   when it is a success; maintenance saves what it has just written. *)
DueOrFailed == {c \in Changes : change[c] \in {"due", "failed"}}

\* The list of due changes; the query does not say in which order.
Due == {c \in Changes : change[c] = "due"}

Begin(p, kind) ==
    /\ Yielded
    /\ proc[p].pc = "idle"
    /\ \A q \in Runs : proc[q].pc = "idle" => p <= q
    /\ Due # {}
    /\ proc' = [proc EXCEPT ![p] = [Idle EXCEPT !.pc = "next", !.kind = kind, !.todo = Due]]
    /\ UNCHANGED <<row, caddy, change, original, events>>

\* What each executor makes of payload.upstreams: the worker writes it as it is,
\* executeDue writes its JSON.  A list the worker cannot bind as a column.
Swapped(kind, x, w) ==
    IF kind = "worker"
      THEN IF x.form = "text" THEN x.ups ELSE w.ups
      ELSE IF x.form = "list" THEN x.ups ELSE Broken

\* Where each executor looks for the configuration to roll back to.
SnapshotForm(kind) == IF kind = "worker" THEN "config" ELSE "version"

\* The executor throws before it has written the row.
Refused(kind, x) ==
    \/ kind = "worker" /\ x.action = "update_upstream" /\ x.form = "list"
    \/ kind = "executeDue" /\ x.action = "rollback" /\ x.form # "version"

\* The row w after the executor has carried out x.
Applied(kind, x, w) ==
    CASE x.action = "enable"          -> [w EXCEPT !.enabled = TRUE]
      [] x.action = "disable"         -> [w EXCEPT !.enabled = FALSE]
      [] x.action = "update_upstream" -> [w EXCEPT !.ups = Swapped(kind, x, w)]
      [] x.action = "rollback"        ->
             IF x.form = SnapshotForm(kind)
               THEN [w EXCEPT !.ups = x.ups, !.enabled = TRUE]
               ELSE w

\* c is off the list; the run goes on with the rest of it, or ends.
Advance(p, c) ==
    LET rest == proc[p].todo \ {c}
    IN  proc' = [proc EXCEPT ![p] =
                    IF rest = {} THEN Idle
                    ELSE [@ EXCEPT !.pc = "next", !.todo = rest, !.cur = None,
                                   !.snap = None, !.out = None]]

\* The route is gone, or the payload is not what this executor expects.
Fails(p, c) ==
    /\ proc[p].pc = "next"
    /\ c \in proc[p].todo
    /\ row = None \/ Refused(proc[p].kind, Asked[c])
    /\ Recorded(c, "failed")
    /\ Advance(p, c)
    /\ UNCHANGED <<row, caddy, original, events>>

\* The row is written.  With broken upstreams buildCaddyRoute throws: to the
\* worker that is a Caddy failure like another, for executeDue the change failed.
Carries(p, c) ==
    LET kind == proc[p].kind
        new  == Applied(kind, Asked[c], row)
    IN  /\ proc[p].pc = "next"
        /\ c \in proc[p].todo
        /\ row # None /\ ~Refused(kind, Asked[c])
        /\ row' = new
        /\ IF new.ups = Broken
             THEN /\ Recorded(c, IF kind = "worker" THEN "done" ELSE "failed")
                  /\ Advance(p, c)
             ELSE /\ proc' = [proc EXCEPT ![p].pc = "push", ![p].cur = c,
                                          ![p].snap = new.ups]
                  /\ UNCHANGED change
        /\ UNCHANGED <<caddy, original, events>>

RecordsSuccess(p) ==
    /\ Yielded
    /\ p \in Runs /\ proc[p].pc = "reply"
    /\ IF proc[p].kind = "worker" \/ proc[p].out = "ok"
         THEN Recorded(proc[p].cur, "done") ELSE UNCHANGED change
    /\ Advance(p, proc[p].cur)
    /\ UNCHANGED <<row, caddy, original, events>>

\* The answer of Caddy: the worker does not look at it.
Records(p) ==
    /\ Yielded
    /\ p \in Runs /\ proc[p].pc = "reply"
    /\ Recorded(proc[p].cur, IF proc[p].kind = "worker" \/ proc[p].out = "ok"
                               THEN "done" ELSE "failed")
    /\ Advance(p, proc[p].cur)
    /\ UNCHANGED <<row, caddy, original, events>>

------------------------------------------------------------------------------
(* Calls of Caddy: answered, failed, or done and the answer lost.          *)

\* The handler that called goes on: a run with what it makes of the answer (the
\* worker makes nothing of it), a request of the operator with nothing.
Answered(p, out) ==
    proc' = IF p = Operator THEN [proc EXCEPT ![p] = Idle]
            ELSE [proc EXCEPT ![p].pc = "reply", ![p].snap = None,
                              ![p].out = IF proc[p].kind = "worker" THEN None ELSE out]

\* updateRoute replaces the route with this id, and finds none when Caddy does
\* not serve the route; whether a route is enabled is no part of it.
PushArrives(p, out) ==
    /\ Yielded
    /\ proc[p].pc = "push"
    /\ caddy' = IF caddy = None \/ out = "failed" THEN caddy ELSE proc[p].snap
    /\ Answered(p, IF caddy = None \/ out # "ok" THEN "failed" ELSE "ok")
    /\ UNCHANGED <<row, change, original, events>>

\* removeRoute for a disabled route; one that is not there is as good as removed.
RemoveArrives(out) ==
    /\ Yielded
    /\ proc[Operator].pc = "remove"
    /\ caddy' = IF out = "failed" THEN caddy ELSE None
    /\ proc' = [proc EXCEPT ![Operator] = Idle]
    /\ UNCHANGED <<row, change, original, events>>

\* removeRoute for a route to be deleted.
DeleteArrives(out) ==
    /\ Yielded
    /\ proc[Operator].pc = "delete"
    /\ caddy' = IF out = "failed" THEN caddy ELSE None
    /\ proc' = [proc EXCEPT ![Operator] = IF out = "ok" THEN [Idle EXCEPT !.pc = "deleted"]
                                          ELSE Idle]
    /\ UNCHANGED <<row, change, original, events>>

------------------------------------------------------------------------------
(* Requests about the route.                                                *)

\* The handler has written w, and calls Caddy unless no route can be built.
Request(pc, w) ==
    /\ Yielded
    /\ row # None /\ proc[Operator].pc = "idle"
    /\ row' = w
    /\ proc' = IF pc = "push" /\ w.ups = Broken THEN proc
               ELSE [proc EXCEPT ![Operator].pc = pc,
                                 ![Operator].snap = IF pc = "push" THEN w.ups ELSE None]
    /\ UNCHANGED <<caddy, change>>

\* routes.toggle.
Enable == Event /\ Request("push", [row EXCEPT !.enabled = TRUE]) /\ UNCHANGED original

Disable == Event /\ Request("remove", [row EXCEPT !.enabled = FALSE]) /\ UNCHANGED original

\* routes.update, with upstreams other than those of the row.
Update(u) ==
    /\ Event
    /\ Request("push", [row EXCEPT !.ups = u])
    /\ u # row.ups
    /\ UNCHANGED original

SetMaintenanceLate(u) ==
    /\ Event
    /\ Request("push", [row EXCEPT !.maintenance = TRUE, !.saved = u, !.ups = u])
    /\ original' = IF row.maintenance THEN None ELSE row.ups

\* doSetMaintenance, which does not ask whether the route is in maintenance.
SetMaintenance(u) ==
    /\ Event
    /\ Request("push", [row EXCEPT !.maintenance = TRUE, !.saved = row.ups, !.ups = u])
    /\ original' = IF row.maintenance THEN None ELSE row.ups

Restore ==
    /\ row # None /\ row.saved # None
    /\ Request("push", [row EXCEPT !.maintenance = FALSE, !.saved = None, !.ups = row.saved])
    /\ original' = None
    /\ UNCHANGED events

\* routes.delete calls Caddy first.
Remove == Event /\ Request("delete", row) /\ UNCHANGED original

\* routeVersions.rollback, to other upstreams: it writes the row and does not call
\* Caddy.
RollBack(u) ==
    /\ Event
    /\ row # None
    /\ u # row.ups
    /\ row' = [row EXCEPT !.ups = u]
    /\ UNCHANGED <<caddy, change, proc, original>>

\* After the answer the row is deleted, and with it (ON DELETE CASCADE) the
\* changes of the route.
DropRow ==
    /\ Yielded
    /\ proc[Operator].pc = "deleted"
    /\ row' = None
    /\ original' = None
    /\ change' = [c \in Changes |->
                     IF change[c] = "absent" THEN "absent" ELSE "deleted"]
    /\ proc' = [proc EXCEPT ![Operator] = Idle]
    /\ UNCHANGED <<caddy, events>>

------------------------------------------------------------------------------
(* The program stops, at any point, and is started again.                   *)

Crash ==
    /\ events < MaxEvents
    /\ events' = events + 1
    /\ proc' = [p \in Procs |-> IF p = Operator THEN [Idle EXCEPT !.pc = "boot"] ELSE Idle]
    /\ UNCHANGED <<row, caddy, change, original>>

\* The bootstrap builds every enabled route: one it cannot build stops it.
Bootstrap ==
    /\ Yielded
    /\ proc[Operator].pc = "boot"
    /\ caddy' = IF row = None \/ ~row.enabled THEN None
                ELSE IF row.ups = Broken THEN caddy
                ELSE row.ups
    /\ proc' = [proc EXCEPT ![Operator] = Idle]
    /\ UNCHANGED <<row, change, original, events>>

Next ==
    \/ \E c \in Changes :
           Create(c) \/ FallsDue(c) \/ Cancel(c) \/ Delete(c)
    \/ \E p \in Runs :
           \/ \E kind \in {"worker", "executeDue"} : Begin(p, kind)
           \/ \E c \in Changes : Fails(p, c) \/ Carries(p, c)
           \/ Records(p)
    \/ \E p \in Procs, out \in {"ok", "failed", "lost"} :
           PushArrives(p, out)
    \/ \E out \in {"ok", "failed", "lost"} : RemoveArrives(out) \/ DeleteArrives(out)
    \/ Enable \/ Disable \/ Restore \/ Remove \/ DropRow
    \/ \E u \in Upstreams : Update(u) \/ SetMaintenance(u) \/ RollBack(u)
    \/ Crash \/ Bootstrap

Spec == Init /\ [][Next]_vars

\* A run takes the next change, or Caddy, or the failing connection to it, answers
\* it, or it goes on after the answer.
GoesOn(p) ==
    \/ \E c \in Changes : Fails(p, c) \/ Carries(p, c)
    \/ \E out \in {"ok", "failed", "lost"} : PushArrives(p, out)
    \/ Records(p)

\* The worker's timer goes on ticking, and a run goes on.
Fairness ==
    /\ WF_vars(\E p \in Runs : Begin(p, "worker"))
    /\ \A p \in Runs : WF_vars(GoesOn(p))

FairSpec == Spec /\ Fairness

------------------------------------------------------------------------------

TypeOK ==
    /\ row \in RouteRow \cup {None}
    /\ caddy \in Stored \cup {None}
    /\ change \in [Changes -> Statuses]
    /\ proc \in [Procs -> ProcStates]
    /\ original \in Stored \cup {None}
    /\ events \in 0 .. MaxEvents

\* Where a change stands for the one who scheduled it.
Phase == [c \in Changes |->
            CASE Held(c)                         -> "taken"
              [] Pending(c) /\ ~Held(c)          -> "waiting"
              [] change[c] = "absent" /\ ~Held(c) -> "absent"
              [] OTHER                           -> "settled"]

Sched == INSTANCE Schedule WITH phase <- Phase

\* However the worker's runs and those of executeDue overlap, and whatever is
\* cancelled, deleted or interrupted meanwhile, a scheduled change goes the way
\* Schedule describes: once nobody holds it and it is done, failed, cancelled or
\* deleted, no run takes it up again (executePendingChanges, executeDue).
ImplementsSchedule == Sched!Spec

\* A change that is due does not stay pending for ever: not when Caddy cannot be
\* reached, when its route is gone or its payload is of the wrong form, when it
\* is behind others in the list, or when the program stops while it is carried
\* out (the error paths of executePendingChanges and executeDue).
DueIsSettled ==
    \A c \in Changes : change[c] = "due" ~> ~Pending(c)

\* Maintenance that was set once gives back, when it ends, the upstreams the
\* route had when it began, whatever scheduled changes, updates and roll backs
\* wrote in between (doSetMaintenance, doRestore).
RestoreGivesBack ==
    [][(row # None /\ row' # None /\ row.maintenance /\ ~row'.maintenance /\ original # None)
         => row'.ups = original]_vars

\* Not so.  A change that swaps the upstreams of a route leaves it with upstreams
\* a Caddy route can be built from: the page schedules it with upstreams as text,
\* of which executeDue writes the JSON once more (scheduledChanges.ts).
UpstreamsStayUsable == row # None => row.ups # Broken

\* Not so.  When a scheduled disable is recorded as done and the route is still
\* disabled, Caddy does not serve it: buildCaddyRoute does not look at `enabled`.
DisableTakesEffect ==
    [][\A c \in Changes :
          (/\ Pending(c) /\ change'[c] = "done"
           /\ Asked[c].action = "disable"
           /\ row' # None /\ ~row'.enabled) => caddy' = None]_vars
=============================================================================
