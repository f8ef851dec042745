--------------------------- MODULE FederationConfig --------------------------
(****************************************************************************)
(* The routes of one site: rows of the central instance's table, sent as    *)
(* whole configurations to the node of the site, which applies them to its  *)
(* own table and, through a bootstrap, to its Caddy                         *)
(* (packages/federation/src: server.ts, config-builder.ts, client.ts,       *)
(* config-applier.ts, config-cache.ts; packages/api/src/routers/routes.ts). *)
(*                                                                          *)
(* The link is the abstract one of Link, which FederationLink implements; a *)
(* session keeps the order of what is sent.  The site is not site_local,    *)
(* the site of the central instance itself.  configVersion is 1 in every    *)
(* row, so that the version of a configuration is 1, or 0 when it has no    *)
(* routes; what the central instance records of acknowledgements is left    *)
(* out.                                                                     *)
(****************************************************************************)
EXTENDS Integers, Sequences

CONSTANTS
    Routes,        \* route ids, each handed out once, by either side
    Domains,
    Domain,        \* the domain a route is created with; no handler changes it
    Data,          \* the rest of what a configuration says of a route
    Slots,         \* configurations being applied at one time
    MaxChanges,    \* how many operations the users of the central instance make
    MaxLocal,      \* how many the users of the node make
    MaxFaults,     \* how many restarts, failed bootstraps and cut links there are
    MaxEvents,     \* how many of these three together
    None           \* no row, no configuration

ASSUME DomainAssumption == Domain \in [Routes -> Domains]
ASSUME NoneAssumption   == None \notin Data \cup [Routes -> Data \cup {None}]
ASSUME BoundsAssumption ==
    MaxChanges \in Nat /\ MaxLocal \in Nat /\ MaxFaults \in Nat /\ MaxEvents \in Nat

VARIABLES
    central,       \* central table: the site's rows
    archived,      \* central table: rows with `archived_at`
    rows,          \* the node's table
    local,         \* the node's rows with origin "local"; the others are "central"
    caddy,         \* what the node's Caddy serves
    cache,         \* the node's configuration file
    apply,         \* the applyConfigs that run, each with its bootstrap
    creating,      \* createLocal handlers that have inserted their row
    life,          \* the node's process: booting, applying its cache, running
    link,          \* "down", "up", or "deaf": up, and not in the registry
    toNode,        \* configurations on their way
    toCentral,     \* local updates on their way
    born,          \* every id handed out so far
    changes, locals, faults,
    epoch,         \* history: how often the central table changed
    seen           \* history: the epoch of the configuration received last

tables    == <<central, archived, rows, local>>
nodeVars  == <<caddy, cache, apply, creating, life>>
linkVars  == <<link, toNode, toCentral>>
budgets   == <<changes, locals, faults>>
vars      == <<tables, nodeVars, linkVars, born, budgets, epoch, seen>>

Tables    == [Routes -> Data \cup {None}]
Configs   == [routes : Tables, epoch : Nat]
Updates   == [op : {"upsert", "delete"}, r : Routes, d : Data \cup {None}]
Idle      == [pc |-> "idle", cfg |-> None, snap |-> None]
Applies   == [pc : {"idle", "boot", "push", "save"},
              cfg : Tables \cup {None}, snap : Tables \cup {None}]

NoRoutes  == [r \in Routes |-> None]
Rows(t)   == {r \in Routes : t[r] # None}
Taken(t, r) == \E q \in Rows(t) : Domain[q] = Domain[r]

\* The id of a new route of r's domain: which one it is makes no difference.
NewId(r)  == r \notin born /\ r = CHOOSE q \in Routes \ born : Domain[q] = Domain[r]

\* The sessions of the node.
Session == INSTANCE Link

\* The bound on the whole of a behaviour.
Event == changes + locals + faults < MaxEvents
Fault == Event /\ faults < MaxFaults /\ faults' = faults + 1

Init ==
    /\ central = NoRoutes /\ archived = {}
    /\ rows = NoRoutes /\ local = {} /\ caddy = NoRoutes /\ cache = None
    /\ apply = [s \in Slots |-> Idle] /\ creating = NoRoutes
    /\ life = "running" /\ link = "down" /\ toNode = <<>> /\ toCentral = <<>>
    /\ born = {} /\ changes = 0 /\ locals = 0 /\ faults = 0
    /\ epoch = 0 /\ seen = 0

------------------------------------------------------------------------------
(* The central instance.                                                    *)

Change(r, d) ==
    /\ Event /\ changes < MaxChanges /\ changes' = changes + 1
    /\ central' = [central EXCEPT ![r] = d]
    /\ epoch' = epoch + 1
    /\ UNCHANGED <<rows, local, nodeVars, link, toCentral, locals, faults, seen>>

\* computeConfigForNode: every row of the site, archived or not.
Computed == [routes |-> central', epoch |-> epoch']

\* notifyConfigChange: a node that is not in the registry is skipped.
NotifyConfigChange == toNode' = IF link = "up" THEN Append(toNode, Computed) ELSE toNode

\* routes.create and routes.expose with a site: the row is inserted, Caddy is
\* left alone, the node is told.  The domain of a row is unique.
CentralCreate(r, d) ==
    /\ NewId(r) /\ ~Taken(central, r)
    /\ born' = born \cup {r}
    /\ Change(r, d)
    /\ NotifyConfigChange
    /\ UNCHANGED archived

\* routes.update: the push to the central instance's own Caddy throws before the
\* notification, which is for site_local anyway.
CentralUpdate(r, d) ==
    /\ r \in Rows(central)
    /\ Change(r, d)
    /\ UNCHANGED <<archived, toNode, born>>

\* routes.delete notifies site_local.
CentralDelete(r) ==
    /\ r \in Rows(central)
    /\ Change(r, None)
    /\ archived' = archived \ {r}
    /\ UNCHANGED <<toNode, born>>

\* handleLocalUpdate.  The node is not told; an insert that violates the unique
\* domain throws.
RecvLocalUpdate ==
    /\ toCentral # <<>>
    /\ toCentral' = Tail(toCentral)
    /\ LET m        == Head(toCentral)
           mirrored == m.op = "upsert" /\ (m.r \in Rows(central) \/ ~Taken(central, m.r))
       IN  /\ central' = IF mirrored THEN [central EXCEPT ![m.r] = m.d] ELSE central
           /\ epoch' = IF mirrored THEN epoch + 1 ELSE epoch
           /\ archived' = IF m.op = "delete" /\ m.r \in Rows(central)
                          THEN archived \cup {m.r} ELSE archived
    /\ UNCHANGED <<rows, local, nodeVars, link, toNode, born, budgets, seen>>

------------------------------------------------------------------------------
(* The link.                                                                *)

\* Seeded fault: a node that has applied something is not sent a configuration.
ConnectOnce(delivered) ==
    /\ life = "running" /\ Session!Begin
    /\ toCentral' = <<>>
    /\ toNode' = IF delivered /\ seen = 0
                 THEN <<[routes |-> central, epoch |-> epoch]>> ELSE <<>>
    /\ UNCHANGED <<tables, nodeVars, born, budgets, epoch, seen>>

\* handleHello sends the welcome and the configuration of the moment.  When both
\* frames are read at once the second is emitted before runMessageLoop listens.
Connect(delivered) ==
    /\ life = "running" /\ Session!Begin
    /\ toCentral' = <<>>
    /\ toNode' = IF delivered THEN <<[routes |-> central, epoch |-> epoch]>> ELSE <<>>
    /\ UNCHANGED <<tables, nodeVars, born, budgets, epoch, seen>>

\* The late close of an older socket removes the node from the registry.
Deafen ==
    /\ Session!Deafen
    /\ UNCHANGED <<tables, nodeVars, toNode, toCentral, born, budgets, epoch, seen>>

LinkDown ==
    /\ Session!End
    /\ toNode' = <<>> /\ toCentral' = <<>>
    /\ UNCHANGED <<tables, nodeVars, born, changes, locals, epoch, seen>>

\* The read deadline of a session in which nothing comes.
ReadDeadline == toNode = <<>> /\ toCentral = <<>> /\ LinkDown /\ UNCHANGED faults

\* A cut loses what is on its way.
LinkCut == (toNode # <<>> \/ toCentral # <<>>) /\ LinkDown /\ Fault

------------------------------------------------------------------------------
(* applyConfig on the node.                                                 *)

\* Seeded fault: the domains of the table are not unique.
BlockedNever(cfg) == {}

\* Routes of the configuration the node would have to insert although another
\* row has their domain.
Blocked(cfg) == {r \in Rows(cfg) \ Rows(rows) : Taken(rows, r)}

\* Seeded fault: rows the configuration does not name are removed whatever
\* their origin.
ApplyRowsAll(cfg) ==
    rows' = IF cfg = NoRoutes THEN rows ELSE cfg

\* Seeded fault: a configuration with the version applied last is taken for the
\* one that was applied; all of them have version 1.
ApplyRowsVersioned(cfg) ==
    rows' = [r \in Routes |->
                IF Rows(rows) \subseteq local /\ r \in Rows(cfg) THEN cfg[r] ELSE rows[r]]

\* The statements on the table, without a wait in between: upsert every route,
\* then, unless the version is 0, delete the central rows it does not name.
ApplyRows(cfg) ==
    rows' = [r \in Routes |->
                IF r \in Rows(cfg) THEN cfg[r]
                ELSE IF cfg # NoRoutes /\ r \notin local THEN None
                ELSE rows[r]]

\* The unique domain makes an insert throw: what comes before it in the order of
\* the central table is done, the rest is not, and no bootstrap is made.
ApplyRowsStop(cfg) ==
    \E done \in SUBSET (Rows(cfg) \ Blocked(cfg)) :
        rows' = [r \in Routes |-> IF r \in done THEN cfg[r] ELSE rows[r]]

StartApply(s, cfg) ==
    IF Blocked(cfg) = {}
    THEN ApplyRows(cfg) /\ apply' = [apply EXCEPT ![s] = [Idle EXCEPT !.pc = "boot", !.cfg = cfg]]
    ELSE ApplyRowsStop(cfg) /\ apply' = [apply EXCEPT ![s] = Idle]

\* The applyConfigs are alike: the one that starts takes the first free slot.
Free == CHOOSE s \in Slots : apply[s].pc = "idle"

\* Seeded fault: configurations are taken in any order.
ReceiveAny ==
    /\ life = "running" /\ \E s \in Slots : apply[s].pc = "idle"
    /\ \E i \in 1..Len(toNode) :
          /\ toNode' = SubSeq(toNode, 1, i - 1) \o SubSeq(toNode, i + 1, Len(toNode))
          /\ seen' = toNode[i].epoch
          /\ StartApply(Free, toNode[i].routes)
    /\ UNCHANGED <<central, archived, local, caddy, cache, creating, life, link,
                   toCentral, born, budgets, epoch>>

\* handleMessage starts an applyConfig for each message, whether or not the one
\* before has returned.
Receive ==
    /\ life = "running" /\ toNode # <<>> /\ \E s \in Slots : apply[s].pc = "idle"
    /\ toNode' = Tail(toNode)
    /\ seen' = Head(toNode).epoch
    /\ StartApply(Free, Head(toNode).routes)
    /\ UNCHANGED <<central, archived, local, caddy, cache, creating, life, link,
                   toCentral, born, budgets, epoch>>

ApplyStep(s) ==
    UNCHANGED <<central, archived, local, creating, linkVars, born, changes, locals, epoch, seen>>

\* bootstrapProxyOs reads the table ...
BootRead(s) ==
    /\ apply[s].pc = "boot"
    /\ apply' = [apply EXCEPT ![s].pc = "push", ![s].snap = rows]
    /\ UNCHANGED <<rows, caddy, cache, life, faults>>
    /\ ApplyStep(s)

\* Seeded fault: the routes that are not in the table any more stay in Caddy.
ReplaceAdds(s) ==
    /\ apply[s].pc = "push"
    /\ caddy' = [r \in Routes |-> IF apply[s].snap[r] = None THEN caddy[r] ELSE apply[s].snap[r]]
    /\ apply' = [apply EXCEPT ![s].pc = "save", ![s].snap = None]
    /\ UNCHANGED <<rows, cache, life, faults>>
    /\ ApplyStep(s)

\* ... and replaces the routes of Caddy.
Replace(s) ==
    /\ apply[s].pc = "push"
    /\ caddy' = apply[s].snap
    /\ apply' = [apply EXCEPT ![s].pc = "save", ![s].snap = None]
    /\ UNCHANGED <<rows, cache, life, faults>>
    /\ ApplyStep(s)

\* Caddy is not reachable, or refuses: applyConfig goes on.
BootFails(s) ==
    /\ apply[s].pc \in {"boot", "push"}
    /\ Fault
    /\ apply' = [apply EXCEPT ![s].pc = "save", ![s].snap = None]
    /\ UNCHANGED <<rows, caddy, cache, life>>
    /\ ApplyStep(s)

\* saveConfigCache; after a start the process runs once the cache is applied.
Save(s) ==
    /\ apply[s].pc = "save" /\ apply[s].cfg # None
    /\ cache' = apply[s].cfg
    /\ apply' = [apply EXCEPT ![s] = Idle]
    /\ life' = "running"
    /\ UNCHANGED <<rows, caddy, faults>>
    /\ ApplyStep(s)

\* The bootstrap of the start is over: applyFromCache.
ApplyFromCache(s) ==
    /\ apply[s].pc = "save" /\ apply[s].cfg = None
    /\ IF cache = None
       THEN apply' = [apply EXCEPT ![s] = Idle] /\ UNCHANGED rows
       ELSE StartApply(s, cache)
    /\ life' = IF apply'[s].pc = "idle" THEN "running" ELSE "caching"
    /\ UNCHANGED <<caddy, cache, faults>>
    /\ ApplyStep(s)

\* The node's process is killed and comes back, with its Caddy or alone.  A cache
\* file that was being written does not parse.  ensureSchema makes every row the
\* node's own, and no later configuration gives it back its origin.
NodeRestart ==
    /\ Fault
    /\ caddy' \in {caddy, NoRoutes}
    /\ cache' \in {cache} \cup (IF \E t \in Slots : apply[t].pc = "save" /\ apply[t].cfg # None
                              THEN {None} ELSE {})
    /\ apply' = [[s \in Slots |-> Idle] EXCEPT ![CHOOSE s \in Slots : TRUE].pc = "boot"]
    /\ creating' = NoRoutes
    /\ life' = "booting"
    /\ link' = "down" /\ toNode' = <<>> /\ toCentral' = <<>>
    /\ local' = Rows(rows)
    /\ UNCHANGED <<central, archived, rows, born, changes, locals, epoch, seen>>

------------------------------------------------------------------------------
(* The users of the node.                                                   *)

LocalOp ==
    /\ Event /\ locals < MaxLocal /\ locals' = locals + 1
    /\ UNCHANGED <<central, archived, cache, apply, life, link, toNode,
                   changes, faults, epoch, seen>>

\* Nothing is sent, and nothing kept for later, while the link is down.
SendLocalUpdate(op, r, d) ==
    toCentral' = IF link = "down" THEN toCentral
                 ELSE Append(toCentral, [op |-> op, r |-> r, d |-> d])

\* routes.createLocal, up to the push.
LocalCreate(r, d) ==
    /\ NewId(r) /\ ~Taken(rows, r)
    /\ born' = born \cup {r}
    /\ rows' = [rows EXCEPT ![r] = d]
    /\ local' = local \cup {r}
    /\ creating' = [creating EXCEPT ![r] = d]
    /\ UNCHANGED <<caddy, toCentral>>
    /\ LocalOp

\* The push replaces the route if a bootstrap has added it; a failed push is
\* only logged; the route is sent as it was inserted.
LocalCreateReturns(r) ==
    /\ creating[r] # None
    /\ caddy' \in {caddy, IF caddy[r] = None THEN caddy
                          ELSE [caddy EXCEPT ![r] = creating[r]]}
    /\ creating' = [creating EXCEPT ![r] = None]
    /\ SendLocalUpdate("upsert", r, creating[r])
    /\ UNCHANGED <<tables, cache, apply, life, link, toNode, born, budgets, epoch, seen>>

\* routes.update on the node, of any row: pushed, not sent.
LocalUpdate(r, d) ==
    /\ r \in Rows(rows)
    /\ rows' = [rows EXCEPT ![r] = d]
    /\ caddy' \in {caddy, IF caddy[r] = None THEN caddy ELSE [caddy EXCEPT ![r] = d]}
    /\ UNCHANGED <<local, creating, toCentral, born>>
    /\ LocalOp

\* routes.delete on the node, of any row.
LocalDelete(r) ==
    /\ r \in Rows(rows)
    /\ rows' = [rows EXCEPT ![r] = None]
    /\ caddy' = [caddy EXCEPT ![r] = None]
    /\ local' = local \ {r}
    /\ IF r \in local THEN SendLocalUpdate("delete", r, None) ELSE UNCHANGED toCentral
    /\ UNCHANGED <<creating, born>>
    /\ LocalOp

------------------------------------------------------------------------------
CentralOp ==
    \/ \E r \in Routes, d \in Data : CentralCreate(r, d) \/ CentralUpdate(r, d)
    \/ \E r \in Routes : CentralDelete(r)
    \/ RecvLocalUpdate

LinkStep == (\E delivered \in BOOLEAN : Connect(delivered)) \/ Deafen \/ ReadDeadline \/ LinkCut

ApplyConfig(s) == BootRead(s) \/ Replace(s) \/ BootFails(s) \/ Save(s) \/ ApplyFromCache(s)

NodeOp ==
    \/ \E r \in Routes, d \in Data : LocalCreate(r, d) \/ LocalUpdate(r, d)
    \/ \E r \in Routes : LocalCreateReturns(r) \/ LocalDelete(r)

Next ==
    \/ CentralOp \/ LinkStep \/ NodeOp
    \/ Receive \/ NodeRestart
    \/ \E s \in Slots : ApplyConfig(s)

Spec == Init /\ [][Next]_vars

\* What is sent on a link that stays up arrives; applyConfigs and handlers
\* return; a session in which nothing comes meets its read deadline; the node
\* dials again, and the frames of a handshake are not always read at once.
Fairness ==
    /\ SF_vars(Connect(TRUE))
    /\ WF_vars(ReadDeadline)
    /\ WF_vars(RecvLocalUpdate)
    /\ WF_vars(\E r \in Routes : LocalCreateReturns(r))
    /\ WF_vars(Receive)
    /\ \A s \in Slots : WF_vars(BootRead(s) \/ Replace(s) \/ Save(s) \/ ApplyFromCache(s))

FairSpec == Spec /\ Fairness

------------------------------------------------------------------------------
(* Correctness.                                                             *)

\* The variables have their types; nothing has a row before it was handed out; a
\* bootstrap pushes what it read.
TypeOK ==
    /\ central \in Tables /\ archived \subseteq Rows(central)
    /\ rows \in Tables /\ local \subseteq Routes
    /\ Rows(central) \cup Rows(rows) \cup Rows(caddy) \cup Rows(creating) \subseteq born
    /\ born \subseteq Routes
    /\ caddy \in Tables /\ creating \in Tables
    /\ cache \in Tables \cup {None}
    /\ apply \in [Slots -> Applies]
    /\ \A s \in Slots : apply[s].pc = "push" <=> apply[s].snap # None
    /\ life \in {"booting", "caching", "running"}
    /\ link \in {"down", "up", "deaf"} /\ (life # "running" => link = "down")
    /\ toNode \in Seq(Configs) /\ toCentral \in Seq(Updates)
    /\ link = "down" => toNode = <<>> /\ toCentral = <<>>
    /\ changes \in 0..MaxChanges /\ locals \in 0..MaxLocal /\ faults \in 0..MaxFaults
    /\ epoch \in Nat /\ seen \in Nat

\* A route created on the node, or one that a start of the node made its own, stays
\* in its table until a user of the node deletes it: no configuration removes it,
\* whether or not the central instance ever heard of it, and no older cache: "No
\* routes are removed automatically during an outage" (docs/how-to/federation.md).
LocalRoutesSurvive == local \subseteq Rows(rows)

\* The node's table never holds two routes of one domain, and the central one
\* neither, whatever order creations on both sides and configurations come in.
DomainsAreUnique ==
    \A r, q \in Routes : Domain[r] = Domain[q] /\ r # q =>
        /\ {r, q} \cap Rows(rows) # {r, q}
        /\ {r, q} \cap Rows(central) # {r, q}

\* While it runs, a node is never taken back to an older configuration: not by a
\* reconnection, nor by what was on its way when a link was lost.
NeverBackwards ==
    [][seen' >= seen]_vars

\* The central table forces the node to no insert that its table refuses.
Unblocked == \A r \in Rows(central) : r \in Rows(rows) \/ ~Taken(rows, r)

\* The node has the routes of the central table, as they are there, and no other
\* that came from it since the node's process started: those that came before are
\* the node's own now, and stay when the central instance deletes them.
Follows ==
    /\ \A r \in Rows(central) : rows[r] = central[r]
    /\ Rows(rows) \subseteq Rows(central) \cup local

\* While no user of the node has made a change and nothing restarted or was cut,
\* a node that received the configuration of the moment follows the central
\* table, whatever notifications and first configurations were lost before,
\* unless a domain is in the way.
LatestIsFollowed ==
    seen = epoch /\ locals = 0 /\ faults = 0 /\ Unblocked /\ Rows(central) # {} => Follows

\* Once the users of both sides are quiet, and restarts and cuts are over, the
\* node's table follows the central table, whatever notifications, first
\* configurations or local updates were lost, if the table is not empty and no
\* domain is in the way.  What stayed when the table was empty goes with the next
\* configuration that is not.
NodeFollows == <>[](Unblocked /\ Rows(central) # {} => Follows)

\* And what Caddy serves is the node's table, however bootstraps overlapped,
\* failed or finished out of order.
ServedFollows == <>[](Unblocked => caddy = rows)

(* What the documentation says and the code does not do.                    *)

\* docs/how-to/federation.md: "Routes created or modified on the central UI are
\* pushed to relevant nodes".  With no user on the node, its table follows the
\* central table once the users of the central instance are quiet.
CentralReachesNode == <>[](Rows(central) # {} => Follows)
==============================================================================
