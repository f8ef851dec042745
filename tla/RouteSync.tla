------------------------------ MODULE RouteSync ------------------------------
(****************************************************************************)
(* The proxy routes of one ProxyOS instance, kept twice: as rows of the     *)
(* SQLite table `routes`, the source of truth, and as routes of the running *)
(* Caddy server, written through Caddy's admin API.                         *)
(*                                                                          *)
(* Request handlers (packages/api/src/routers/routes.ts, publicApi.ts) run  *)
(* concurrently.  Their better-sqlite3 statements are synchronous and the   *)
(* awaits around them resolve as microtasks, so what a handler does up to   *)
(* its first call of the admin API is one step, and what it does after the  *)
(* answer is one step.  A call of the admin API is sent, takes effect in    *)
(* Caddy, and is answered: other handlers run in between.  The client sends  *)
(* a call again when the connection breaks, whether it took effect or not.  *)
(*                                                                          *)
(* What syncRouteToCaddy builds from a row (upstreams, TLS mode, SSO, rules *)
(* ...) is a member of Data; InvalidData is what validateCaddyRoute rejects.*)
(* Three callers build the routes themselves: create, which does not resolve*)
(* static upstream names, the bootstrap, which copies fewer columns (no rate*)
(* limit, allow list, basic auth ...), and caddy.resync, which adds mTLS,   *)
(* bot challenge and tracing.                                               *)
(****************************************************************************)
EXTENDS Integers, Sequences

CONSTANTS
    Routes,        \* route ids, each handed out once (nanoid)
    Procs,         \* handlers, with their pending verification, at one time
    Data,          \* the configurations a row can describe
    InvalidData,   \* those that validateCaddyRoute refuses
    CreateForm,    \* what create builds from a row that syncRouteToCaddy builds as d
    BootForm,      \* what a bootstrap builds from it
    ResyncForm,    \* what caddy.resync builds from it
    Faults,        \* how a call of the admin API may go wrong
    MaxRetries,    \* how often the client sends a call again
    None           \* no configuration, no route, no status

ASSUME InvalidAssumption == InvalidData \subseteq Data
ASSUME FormsAssumption   == {CreateForm, BootForm, ResyncForm} \subseteq [Data -> Data]
ASSUME FaultsAssumption  == Faults \subseteq {"failed", "lost"}
ASSUME RetriesAssumption == MaxRetries \in Nat
ASSUME NoneAssumption    == None \notin Data \cup Routes \cup {"synced", "drift"}

VARIABLES
    rows,          \* routes with a row in the table
    enabled,       \* rows whose `enabled` column is set
    data,          \* what the row of a route describes
    sync,          \* the row's `sync_status`
    born,          \* every id handed out so far
    caddy,         \* the route that its id addresses in Caddy, None when there is none
    extra,         \* further routes of the same id in front of it, which are served first
    proc,          \* the handlers
    rep,           \* the one replaceRoutes: a bootstrap or a resync of everything
    agreed,        \* history: routes on which table and Caddy were last made to agree
    calm,          \* history: handlers that nothing has disturbed since they began
    doubled,       \* history: routes that Caddy was given twice since it last lost all
    repCalm        \* history: routes nothing has touched since rep read the table

dbVars    == <<rows, enabled, data, sync, born>>
caddyVars == <<caddy, extra>>
histVars  == <<agreed, calm, doubled, repCalm>>
vars      == <<dbVars, caddyVars, proc, rep, histVars>>

\* Handlers, by the call they make and by what they do with its answer.  "push"
\* and "remove" have written the table before; "resync" does not write it.
PostOps   == {"create"}
PatchOps  == {"push", "resync"}
DeleteOps == {"remove", "archive", "delete", "bulkDelete"}
Ops       == PostOps \cup PatchOps \cup DeleteOps

Outcomes  == {"ok", "failed", "lost", "notfound"}
Statuses  == {"synced", "drift"}

HandlerRecords ==
    [pc : {"idle", "call", "reply", "verify", "verified"}, op : Ops \cup {None},
     r : Routes \cup {None}, snap : Data \cup {None},
     tries : 0 .. MaxRetries,        \* how often its call has taken effect, unanswered
     out : Outcomes \cup Statuses \cup {None}]

HandlerStates ==
    {h \in HandlerRecords : /\ h.pc = "call" /\ h.op \notin DeleteOps => h.snap # None
                            /\ h.pc = "verified" => h.out \in Statuses}

ReplaceStates ==
    [pc : {"idle", "start", "load", "loaded", "call"}, kind : {"boot", "resync", None},
     snap : [Routes -> Data \cup {None}]]

Nothing == [r \in Routes |-> None]
Idle    == [pc |-> "idle", op |-> None, r |-> None, snap |-> None, tries |-> 0, out |-> None]
RepIdle == [pc |-> "idle", kind |-> None, snap |-> Nothing]
RepBoot == [RepIdle EXCEPT !.pc = "start"]

\* Between sending a call of the admin API and acting on its answer.
InFlight(p) == proc[p].pc \in {"call", "reply"}
Busy(r)     == \E p \in Procs : InFlight(p) /\ proc[p].r = r
Replacing   == rep.pc = "call"

\* What Caddy has to serve for a route, according to the table.
Target(r) == IF r \in enabled THEN data[r] ELSE None

\* Caddy has v for this route, or nothing if v is None, and nothing else.
Holds(r, v) == caddy[r] = v /\ extra[r] = <<>>

Holding(content) == caddy' = content /\ extra' = [r \in Routes |-> <<>>] /\ doubled' = {}

Init ==
    /\ rows = {} /\ enabled = {} /\ born = {}
    /\ data = Nothing
    /\ sync = Nothing
    /\ caddy = Nothing /\ extra = [r \in Routes |-> <<>>]
    /\ proc = [p \in Procs |-> Idle]
    /\ rep = RepBoot
    /\ agreed = Routes /\ calm = {} /\ doubled = {} /\ repCalm = {}

------------------------------------------------------------------------------
(* A handler, up to its first call of the admin API.                        *)

\* The handler holds `snap`, what it read from the row, until it is answered.
Begin(p, op, r, snap) ==
    /\ proc[p].pc = "idle"
    /\ proc' = [proc EXCEPT ![p] = [pc |-> "call", op |-> op, r |-> r,
                                    snap |-> snap, tries |-> 0, out |-> None]]
    /\ calm' = {q \in calm : proc[q].r # r}
                 \cup (IF Busy(r) \/ Replacing THEN {} ELSE {p})
    /\ repCalm' = repCalm \ {r}
    /\ UNCHANGED <<caddyVars, rep, agreed, doubled>>

InsertRow(r, d) ==
    /\ r \notin born
    /\ born' = born \cup {r}
    /\ rows' = rows \cup {r}
    /\ enabled' = enabled \cup {r}
    /\ data' = [data EXCEPT ![r] = d]
    /\ UNCHANGED sync

DropRow(r) ==
    /\ rows' = rows \ {r}
    /\ enabled' = enabled \ {r}
    /\ data' = [data EXCEPT ![r] = None]
    /\ sync' = [sync EXCEPT ![r] = None]
    /\ UNCHANGED born

SetEnabled(r, b) ==
    /\ enabled' = IF b THEN enabled \cup ({r} \cap rows) ELSE enabled \ {r}
    /\ UNCHANGED <<rows, data, sync, born>>

\* routes.create and routes.expose: insert, then POST.
Create(p, r, d) == InsertRow(r, d) /\ Begin(p, "create", r, CreateForm[d])

\* routes.createLocal and the public createRoute: insert, then syncRouteToCaddy.
CreateLocal(p, r, d) == InsertRow(r, d) /\ Begin(p, "push", r, d)

\* routes.update and the public updateRoute: update, re-read, syncRouteToCaddy.
Update(p, r, d) ==
    /\ r \in rows
    /\ data' = [data EXCEPT ![r] = d]
    /\ UNCHANGED <<rows, enabled, sync, born>>
    /\ Begin(p, "push", r, d)

\* The public updateRoute with `enabled` in its patch: whatever the new value,
\* the row is pushed with syncRouteToCaddy.
Switch(p, r, b) ==
    /\ r \in rows
    /\ SetEnabled(r, b)
    /\ Begin(p, "push", r, data[r])

\* routes.toggle on, unarchive, and one id of bulkEnable.
Enable(p, r) ==
    /\ r \in rows
    /\ SetEnabled(r, TRUE)
    /\ Begin(p, "push", r, data[r])

\* routes.toggle off, and one id of bulkDisable or bulkArchive (which do not
\* look whether there still is a row).
Disable(p, r) ==
    /\ r \in born
    /\ SetEnabled(r, FALSE)
    /\ Begin(p, "remove", r, None)

\* routes.archive and routes.delete: Caddy first, then the table.
Archive(p, r) == r \in rows /\ UNCHANGED dbVars /\ Begin(p, "archive", r, None)
Delete(p, r)  == r \in rows /\ UNCHANGED dbVars /\ Begin(p, "delete", r, None)

\* One id of bulkDelete: Caddy first, then the table, whatever Caddy said.
BulkDelete(p, r) == r \in born /\ UNCHANGED dbVars /\ Begin(p, "bulkDelete", r, None)

\* The public deleteRoute: the table first.
ApiDelete(p, r) == r \in rows /\ DropRow(r) /\ Begin(p, "remove", r, None)

\* routes.forceResync and drift.reconcile with db_to_caddy.
ForceResync(p, r) ==
    /\ r \in rows
    /\ UNCHANGED dbVars
    /\ Begin(p, "resync", r, data[r])

------------------------------------------------------------------------------
(* The call of the admin API takes effect, or does not.                     *)

Answer(p, out) == proc' =
    [proc EXCEPT ![p].pc = "reply", ![p].snap = IF out = "ok" THEN @ ELSE None, ![p].tries = 0, ![p].out = out]

\* An applied call is answered "ok", or its answer is lost: then doRequest gives
\* up, or waits and sends the same call again.
Applied(p) ==
    \/ Answer(p, "ok")
    \/ "lost" \in Faults /\ Answer(p, "lost")
    \/ "lost" \in Faults /\ proc[p].tries < MaxRetries /\ proc' = [proc EXCEPT ![p].tries = @ + 1]

\* A call that fails in the end has failed, unless it took effect before.
Refused(p) == Answer(p, IF proc[p].tries = 0 THEN "failed" ELSE "lost")

\* Seeded fault: a push that inserts the route when Caddy does not have it.
CaddyUpsert(p) ==
    /\ proc[p].pc = "call" /\ proc[p].op \in PatchOps
    /\ proc[p].snap \notin InvalidData
    /\ caddy' = [caddy EXCEPT ![proc[p].r] = proc[p].snap]
    /\ Applied(p)
    /\ UNCHANGED <<dbVars, extra, rep, histVars>>

\* POST appends to the list of routes, without a look at the ids in it.
CaddyPost(p) ==
    /\ proc[p].pc = "call" /\ proc[p].op \in PostOps
    /\ proc[p].snap \notin InvalidData
    /\ LET r == proc[p].r
       IN  /\ caddy' = [caddy EXCEPT ![r] = proc[p].snap]
           /\ IF caddy[r] = None
              THEN UNCHANGED <<extra, doubled>>
              ELSE /\ extra' = [extra EXCEPT ![r] = Append(@, caddy[r])]
                   /\ doubled' = doubled \cup {r}
    /\ Applied(p)
    /\ UNCHANGED <<dbVars, rep, agreed, calm, repCalm>>

\* PATCH /id/<id> replaces what has this id, and is a 404 when nothing has it.
CaddyPatch(p) ==
    /\ proc[p].pc = "call" /\ proc[p].op \in PatchOps
    /\ proc[p].snap \notin InvalidData
    /\ IF caddy[proc[p].r] = None
       THEN Answer(p, "notfound") /\ UNCHANGED caddy
       ELSE caddy' = [caddy EXCEPT ![proc[p].r] = proc[p].snap] /\ Applied(p)
    /\ UNCHANGED <<dbVars, extra, rep, histVars>>

\* DELETE /id/<id> removes one route of this id.
CaddyDelete(p) ==
    /\ proc[p].pc = "call" /\ proc[p].op \in DeleteOps
    /\ LET r == proc[p].r
       IN  CASE caddy[r] = None  -> Answer(p, "notfound") /\ UNCHANGED caddyVars
             [] extra[r] # <<>>  -> /\ caddy' = [caddy EXCEPT ![r] = extra[r][Len(extra[r])]]
                                    /\ extra' = [extra EXCEPT ![r] = SubSeq(@, 1, Len(@) - 1)]
                                    /\ Applied(p)
             [] OTHER            -> caddy' = [caddy EXCEPT ![r] = None] /\ UNCHANGED extra /\ Applied(p)
    /\ UNCHANGED <<dbVars, rep, histVars>>

\* Validation refuses the route, or Caddy a second one of the same id (as some of
\* its versions do), or the call fails with nothing applied.
CallFails(p) ==
    /\ proc[p].pc = "call"
    /\ \/ proc[p].op \notin DeleteOps /\ proc[p].snap \in InvalidData
       \/ proc[p].op \in PostOps /\ caddy[proc[p].r] # None
       \/ "failed" \in Faults
    /\ Refused(p)
    /\ UNCHANGED <<dbVars, caddyVars, rep, histVars>>

------------------------------------------------------------------------------
(* The rest of the handler, with the answer.                                *)

\* This handler, had it run alone and once, leaves table and Caddy in agreement on r.
Settles(p) ==
    LET op == proc[p].op
        out == proc[p].out
    IN  CASE op \in PostOps ->
                out = "failed" \/ (out = "ok" /\ proc[p].snap = data[proc[p].r])
          [] op \in {"archive", "delete"}    -> out \in {"ok", "notfound"}
          [] op \in {"remove", "bulkDelete"} -> out # "failed"
          [] op \in PatchOps ->
                IF proc[p].r \in enabled THEN out \in {"ok", "lost"}
                                         ELSE out = "notfound"

\* This handler changed neither copy.
Neutral(p) == proc[p].out = "failed" /\ proc[p].op \in {"archive", "delete", "resync"}

Settle(p) ==
    /\ agreed' = IF p \in calm /\ Settles(p) /\ proc[p].r \notin doubled THEN agreed \cup {proc[p].r}
                 ELSE IF p \in calm /\ Neutral(p) THEN agreed
                 ELSE agreed \ {proc[p].r}
    /\ UNCHANGED <<caddyVars, rep, doubled, repCalm>>

Return(p) == proc' = [proc EXCEPT ![p] = Idle] /\ calm' = calm \ {p}

\* After a push that was acknowledged the route is read back 500 ms later.
ScheduleVerify(p) ==
    /\ proc' = [proc EXCEPT ![p].pc = "verify", ![p].op = None, ![p].out = None]
    /\ UNCHANGED calm

\* Seeded fault: create without the compensating delete.
CreateReturnsUncompensated(p) ==
    /\ proc[p].pc = "reply" /\ proc[p].op \in PostOps
    /\ IF proc[p].out = "ok" THEN ScheduleVerify(p) ELSE Return(p)
    /\ UNCHANGED dbVars
    /\ Settle(p)

\* create deletes its row again when the push was not acknowledged.
CreateReturns(p) ==
    /\ proc[p].pc = "reply" /\ proc[p].op \in PostOps
    /\ IF proc[p].out = "ok" THEN UNCHANGED dbVars /\ ScheduleVerify(p)
                             ELSE DropRow(proc[p].r) /\ Return(p)
    /\ Settle(p)

\* Seeded fault: the read-back is scheduled before the push, whatever its answer.
PushReturnsVerified(p) ==
    /\ proc[p].pc = "reply" /\ proc[p].op \in PatchOps
    /\ ScheduleVerify(p)
    /\ UNCHANGED dbVars
    /\ Settle(p)

\* Every caller of syncRouteToCaddy leaves the table as it is when it throws.
PushReturns(p) ==
    /\ proc[p].pc = "reply" /\ proc[p].op \in PatchOps
    /\ IF proc[p].out = "ok" THEN ScheduleVerify(p) ELSE Return(p)
    /\ UNCHANGED dbVars
    /\ Settle(p)

RemoveReturns(p) ==
    /\ proc[p].pc = "reply" /\ proc[p].op \in DeleteOps
    /\ LET r       == proc[p].r
           removed == proc[p].out \in {"ok", "notfound"}
       IN  CASE proc[p].op = "archive" /\ removed -> SetEnabled(r, FALSE)
             [] proc[p].op = "delete" /\ removed  -> DropRow(r)
             [] proc[p].op = "bulkDelete"         -> DropRow(r)
             [] OTHER                             -> UNCHANGED dbVars
    /\ Return(p)
    /\ Settle(p)

\* classifyDrift(result.diff ?? []): a route that is missing in Caddy and a
\* failed read carry no diff, and a result without a diff counts as synced.
ClassifyDrift(found) == IF found = "differs" THEN "drift" ELSE "synced"

\* verifyAndPersist: verifyRoute compares what Caddy has with what was pushed.
VerifyRead(p) ==
    /\ proc[p].pc = "verify"
    /\ LET now == caddy[proc[p].r]
           seen == IF now = None THEN "missing"
                   ELSE IF now = proc[p].snap THEN "same" ELSE "differs"
       IN  \E found \in {seen} \cup (IF Faults # {} THEN {"error"} ELSE {}) :
              proc' = [proc EXCEPT ![p].pc = "verified", ![p].snap = None, ![p].out = ClassifyDrift(found)]
    /\ UNCHANGED <<dbVars, caddyVars, rep, histVars>>

VerifyWrite(p) ==
    /\ proc[p].pc = "verified"
    /\ sync' = IF proc[p].r \in rows
               THEN [sync EXCEPT ![proc[p].r] = proc[p].out]
               ELSE sync
    /\ Return(p)
    /\ UNCHANGED <<rows, enabled, data, born, caddyVars, rep, agreed, doubled, repCalm>>

------------------------------------------------------------------------------
(* replaceRoutes: the bootstrap at application start, caddy.resync.         *)

\* bootstrapCaddy leaves out what does not validate, resync pushes everything.
BootPush ==
    [r \in Routes |->
        IF r \in enabled /\ BootForm[data[r]] \notin InvalidData THEN BootForm[data[r]] ELSE None]

ResyncPush == [r \in Routes |-> IF r \in enabled THEN ResyncForm[data[r]] ELSE None]

\* hasServer takes any answer but a body for a "no", and then the base configuration
\* is to be loaded; with a "yes" the next step is to read the table.
ServerMissing(kind) ==
    /\ rep.pc = IF kind = "boot" THEN "start" ELSE "idle"
    /\ "failed" \in Faults
    /\ rep' = [RepIdle EXCEPT !.pc = "load", !.kind = kind]
    /\ UNCHANGED <<dbVars, caddyVars, proc, histVars>>

\* waitForCaddyReady or hasServer gives up, or the load fails: nothing is pushed.
GivesUp ==
    /\ \/ rep.pc = "start"
       \/ rep.pc = "load" /\ "failed" \in Faults
    /\ rep' = RepIdle
    /\ UNCHANGED <<dbVars, caddyVars, proc, histVars>>

\* An applied call of rep is answered and goes on with `next`; or its answer is
\* lost, and it gives up or is sent again.  Repeats are not counted: each does
\* what the first did.
RepApplied(next) ==
    \/ rep' = next
    \/ "lost" \in Faults /\ rep' \in {RepIdle, rep}

\* loadConfig: Caddy has the base configuration, which has no routes.
LoadBase ==
    /\ rep.pc = "load"
    /\ Holding(Nothing)
    /\ agreed' = {r \in agreed : Target(r) = None}
    /\ calm' = {} /\ repCalm' = {}
    /\ RepApplied([rep EXCEPT !.pc = "loaded"])
    /\ UNCHANGED <<dbVars, proc>>

ReadAll(kind, push) ==
    /\ \/ rep.pc = IF kind = "boot" THEN "start" ELSE "idle"
       \/ rep.pc = "loaded" /\ rep.kind = kind
    /\ rep' = [RepIdle EXCEPT !.pc = "call", !.snap = push]
    /\ repCalm' = {r \in Routes : ~Busy(r) /\ push[r] = Target(r)}
    /\ agreed' = {r \in agreed : Busy(r) \/ push[r] = Target(r)}
    /\ calm' = {}
    /\ UNCHANGED <<dbVars, caddyVars, proc, doubled>>

BootRead  == ReadAll("boot", BootPush)
ResyncAll == ReadAll("resync", ResyncPush)

\* The list of routes is replaced by the one that was built.  What the caller does
\* with the answer changes nothing here.
CaddyReplace ==
    /\ rep.pc = "call"
    /\ Holding(rep.snap)
    /\ RepApplied(RepIdle)
    /\ agreed' = agreed \cup repCalm
    /\ repCalm' = IF rep' = rep THEN repCalm ELSE {}
    /\ UNCHANGED <<dbVars, proc, calm>>

\* Caddy refuses an invalid configuration as a whole, or the call fails.
ReplaceFails ==
    /\ rep.pc = "call"
    /\ \/ \E r \in Routes : rep.snap[r] \in InvalidData
       \/ "failed" \in Faults
    /\ rep' = RepIdle
    /\ repCalm' = {}
    /\ UNCHANGED <<dbVars, caddyVars, proc, agreed, calm, doubled>>

------------------------------------------------------------------------------
(* Restarts: the two processes of the container fail independently.         *)

\* Caddy runs without --resume: it comes back with the base configuration.
CaddyRestart ==
    /\ Holding(Nothing)
    /\ agreed' = {r \in agreed : Target(r) = None}
    /\ calm' = {} /\ repCalm' = {}
    /\ UNCHANGED <<dbVars, proc, rep>>

\* Handlers and pending verifications are gone, the table stays; the new
\* process starts a bootstrap and serves requests without waiting for it.
AppRestart ==
    /\ proc' = [p \in Procs |-> Idle]
    /\ rep' = RepBoot
    /\ agreed' = {r \in agreed : ~Busy(r)}
    /\ calm' = {} /\ repCalm' = {}
    /\ UNCHANGED <<dbVars, caddyVars, doubled>>

------------------------------------------------------------------------------
HandlerBegins(p) ==
    \/ \E r \in Routes, d \in Data : Create(p, r, d) \/ CreateLocal(p, r, d) \/ Update(p, r, d)
    \/ \E r \in Routes : \/ Enable(p, r) \/ Disable(p, r) \/ Archive(p, r)
                         \/ Delete(p, r) \/ BulkDelete(p, r) \/ ApiDelete(p, r)
                         \/ ForceResync(p, r)
    \/ \E r \in Routes, b \in BOOLEAN : Switch(p, r, b)

CallRuns(p) == CaddyPost(p) \/ CaddyPatch(p) \/ CaddyDelete(p) \/ CallFails(p)

HandlerReturns(p) == CreateReturns(p) \/ PushReturns(p) \/ RemoveReturns(p)

Verify(p) == VerifyRead(p) \/ VerifyWrite(p)

ReplaceAll == \/ ServerMissing("boot") \/ ServerMissing("resync") \/ GivesUp \/ LoadBase
              \/ BootRead \/ ResyncAll \/ CaddyReplace \/ ReplaceFails

Next ==
    \/ \E p \in Procs : HandlerBegins(p) \/ CallRuns(p) \/ HandlerReturns(p) \/ Verify(p)
    \/ ReplaceAll
    \/ CaddyRestart
    \/ AppRestart

Spec == Init /\ [][Next]_vars

------------------------------------------------------------------------------
(* Correctness.                                                             *)

\* The variables have their types; only a row can be enabled, hold data or carry
\* a status; a handler works on an id that was handed out and pushes what it read,
\* and an id that Caddy has more than once addresses one of its routes.
TypeOK ==
    /\ rows \subseteq born /\ enabled \subseteq rows /\ born \subseteq Routes
    /\ data \in [Routes -> Data \cup {None}]
    /\ \A r \in Routes : r \in rows <=> data[r] # None
    /\ sync \in [Routes -> Statuses \cup {None}]
    /\ \A r \in Routes \ rows : sync[r] = None
    /\ caddy \in [Routes -> Data \cup {None}] /\ extra \in [Routes -> Seq(Data)]
    /\ \A r \in Routes : extra[r] # <<>> => caddy[r] # None
    /\ proc \in [Procs -> HandlerStates]
    /\ \A p \in Procs : proc[p].pc # "idle" => proc[p].r \in born
    /\ rep \in ReplaceStates
    /\ agreed \subseteq Routes /\ calm \subseteq Procs
    /\ doubled \subseteq Routes /\ repCalm \subseteq Routes

\* Table and Caddy agree on a route with no handler in flight, unless one of
\* six things happened since they last agreed: two handlers (or a handler and a
\* replaceRoutes) overlapped on it; a process restarted, or Caddy was given the
\* base configuration; a call that had to be applied was not; a call that was
\* compensated had been applied after all, in its first or in a later try; Caddy
\* was given the route a second time, by the repeated POST of its create, so that
\* a delete that is acknowledged leaves one; or a create or replaceRoutes built the
\* route in another form than a push does.
\* In particular: a failed create leaves nothing behind, a failed delete or
\* archive leaves the route working, a disable or delete that was acknowledged
\* really stopped a route that was put once, repeated pushes and deletes do no
\* harm, a bootstrap nobody interfered with repairs every route it builds as a
\* push does, those that were put twice among them.
Agreement == \A r \in agreed : Busy(r) \/ Holds(r, Target(r))

\* A deleted route that is out of Caddy is never served again: no handler that
\* read the row before it was deleted can put it back, because only the POST of
\* its own create and a replaceRoutes that read the table earlier may add it.
\* Both may do so late: they are sent again while their answers are lost, so
\* that the create of a route that was served, and deleted, may still be waiting.
Reinsertable(r) ==
    \/ \E p \in Procs : proc[p].pc = "call" /\ proc[p].op \in PostOps /\ proc[p].r = r
    \/ rep.pc = "call" /\ rep.snap[r] # None

GoneStaysGone ==
    [][\A r \in born \ rows :
          caddy[r] = None /\ ~Reinsertable(r) => caddy'[r] = None]_vars

\* Drift is no false alarm: the read-back of a push reports "drift" only when
\* the route was touched by somebody else, or Caddy restarted, since the push.
NoFalseDrift ==
    [][\A p \in calm : VerifyWrite(p) => sync'[proc[p].r] # "drift"]_vars

(* What the documentation says and the code does not do.                    *)

\* docs/getting-started/concepts.md: "synced: Caddy config matches the database".
\* A read-back that was not overtaken records "synced" only for what Caddy serves.
SyncedMeansMatches ==
    [][\A p \in Procs :
          /\ VerifyRead(p)
          /\ proc'[p].out = "synced"
          => caddy[proc[p].r] = proc[p].snap]_vars

\* README.md: "On every startup ProxyOS rebuilds the full Caddy config from the
\* database".  What a bootstrap is about to push is, for every enabled row that
\* validates, what the row describes.
BootstrapRestores ==
    [][BootRead => \A r \in enabled :
          data[r] \notin InvalidData => rep'.snap[r] = Target(r)]_vars

\* docs/changelog.md: "All route mutations ... now wrap DB writes and Caddy pushes
\* atomically".  A delete that ran alone and was acknowledged has taken the route
\* out of Caddy.
DeletedIsOut ==
    [][\A p \in calm : RemoveReturns(p) /\ proc[p].op = "delete" /\ proc[p].out = "ok"
          => caddy'[proc[p].r] = None]_vars

\* docs/api/routes-endpoints.md: forceResync "forces a re-push of a route to
\* Caddy, resolving drift".  Run alone on an enabled row, without a fault, it
\* leaves Caddy serving what the row describes.
ForceResyncResolves ==
    [][\A p \in calm :
          /\ PushReturns(p)
          /\ proc[p].op = "resync" /\ proc[p].snap \notin InvalidData
          /\ proc[p].r \in enabled
          => caddy[proc[p].r] = Target(proc[p].r)]_vars
==============================================================================
