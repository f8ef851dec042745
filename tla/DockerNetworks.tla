--------------------------- MODULE DockerNetworks ---------------------------
(****************************************************************************)
(* Joining Docker networks (packages/api/src/automation/network-join.ts and *)
(* routers/networks.ts).  A sync loads its settings, asks Docker for the    *)
(* networks, inspects each, joins and leaves, and writes one row for each   *)
(* network it saw.  Syncs are started by a timer and by requests and do not *)
(* wait for each other.  The statements on the database run without a       *)
(* break; the requests to Docker are where syncs interleave.                *)
(****************************************************************************)
EXTENDS Naturals, FiniteSets

CONSTANTS
    Nets,         \* Docker's networks
    Edge,         \* homelab-edge
    Syncs,        \* syncs that may run at once, 1 .. n
    MaxEvents     \* bound on changes by users and containers, on requests that
                  \* fail or whose answer is lost, and on restarts, together

ASSUME NetsAssumption == Edge \in Nets /\ Syncs \subseteq Nat

VARIABLES
    skipped,      \* which are bridge, host, none or swarm networks; never changes
    exists,       \* networks there are
    others,       \* networks with running containers besides ProxyOS's
    attached,     \* networks ProxyOS's container is in
    enabled, leaveEmpty, excluded,     \* system_settings, docker.*
    rows,         \* discovered_networks: network -> status, or NoRow
    service,      \* the service: "off", "starting", "creating", "on", "disabled"
    identified,   \* selfContainerId is known
    syncs,        \* sync -> its state
    events

docker   == <<skipped, exists, others, attached>>
settings == <<enabled, leaveEmpty, excluded>>
vars     == <<docker, settings, rows, service, identified, syncs, events>>

NoRow  == "none"
Unseen == [read |-> FALSE, others |-> FALSE, self |-> FALSE]
Idle   == [step |-> "idle", excluded |-> {}, leaveEmpty |-> FALSE, listed |-> {},
           seen |-> [n \in Nets |-> Unseen], join |-> {}, leave |-> {}]

TypeOK ==
    /\ skipped \subseteq Nets \ {Edge}
    /\ exists \subseteq Nets /\ others \subseteq exists /\ attached \subseteq exists
    /\ enabled \in BOOLEAN /\ leaveEmpty \in BOOLEAN /\ excluded \subseteq Nets
    /\ rows \in [Nets -> {NoRow, "joined", "available", "excluded"}]
    /\ service \in {"off", "starting", "creating", "on", "disabled"} /\ identified \in BOOLEAN
    /\ syncs \in [Syncs -> [step : {"idle", "list", "inspect", "act"}, excluded : SUBSET Nets,
                            leaveEmpty : BOOLEAN, listed : SUBSET Nets,
                            seen : [Nets -> [read : BOOLEAN, others : BOOLEAN, self : BOOLEAN]],
                            join : SUBSET Nets, leave : SUBSET Nets]]
    /\ events \in 0 .. MaxEvents

Init ==
    /\ skipped \in SUBSET (Nets \ {Edge})
    /\ exists = Nets \ {Edge}
    /\ others = exists \ {Edge}
    /\ attached = skipped
    /\ enabled = TRUE /\ leaveEmpty \in BOOLEAN /\ excluded = {}
    /\ rows = [n \in Nets |-> NoRow]
    /\ service = "off" /\ identified = FALSE
    /\ syncs = [s \in Syncs |-> Idle]
    /\ events = 0

\* A change, a failing request or a restart; a request that Docker answers.
Event    == events < MaxEvents /\ events' = events + 1
Answered == UNCHANGED events

(***************************************************************************)
(* A sync.                                                                 *)
(***************************************************************************)
Loaded == [Idle EXCEPT !.step = "list", !.excluded = excluded, !.leaveEmpty = leaveEmpty]

Free(s) == syncs[s].step = "idle" /\ \A t \in Syncs : syncs[t].step = "idle" => s <= t

\* What is started while the setting is off or the container is not
\* identified ends at once.
Begin(s) ==
    /\ Free(s) /\ enabled /\ identified
    /\ syncs' = [syncs EXCEPT ![s] = Loaded]

\* The timer; a rescan does the same.
Tick(s) ==
    /\ service = "on"
    /\ Begin(s)
    /\ UNCHANGED <<docker, settings, rows, service, identified, events>>

List(s) ==
    /\ syncs[s].step = "list"
    /\ \/ /\ syncs' = [syncs EXCEPT ![s] = IF exists = {} THEN Idle
                                           ELSE [@ EXCEPT !.step = "inspect", !.listed = exists]]
          /\ Answered
       \/ syncs' = [syncs EXCEPT ![s] = Idle] /\ Event
    /\ UNCHANGED <<docker, settings, rows, service, identified>>

\* Seeded fault: empty networks are dropped before well-known ones are kept.
RelevantByContainers(r) ==
    {n \in r.listed \ (skipped \cup r.excluded) : r.seen[n].others \/ r.seen[n].self}

\* filterRelevant: a network that ProxyOS has joined is never without containers.
Relevant(r) ==
    {n \in r.listed \ (skipped \cup r.excluded) : n = Edge \/ r.seen[n].others \/ r.seen[n].self}

\* Seeded fault: what is joined is taken from the rows.
JoinedByRows(r) == {n \in r.listed : rows[n] = "joined"}

Joined(r) == {n \in r.listed : r.seen[n].self}

Planned(r) ==
    [r EXCEPT !.step = "act", !.join = Relevant(r) \ Joined(r),
              !.leave = IF r.leaveEmpty THEN Joined(r) \ Relevant(r) ELSE {}]

\* upsertNetworkRecords, with what the sync has seen and wanted, done or not.
Upserted(r) ==
    [n \in Nets |->
        IF n \notin r.listed THEN rows[n]
        ELSE IF n \in r.excluded THEN "excluded"
        ELSE IF n \in Joined(r) \cup Relevant(r) THEN "joined"
        ELSE "available"]

\* The sync goes on to its next request, or writes the rows and ends.
Proceed(s, r) ==
    IF r.step = "act" /\ r.join \cup r.leave = {}
    THEN rows' = Upserted(r) /\ syncs' = [syncs EXCEPT ![s] = Idle]
    ELSE syncs' = [syncs EXCEPT ![s] = r] /\ UNCHANGED rows

\* The inspections run side by side; for one that fails the entry of the
\* list stands, which names no containers.
Inspect(s, n) ==
    /\ syncs[s].step = "inspect" /\ n \in syncs[s].listed /\ ~syncs[s].seen[n].read
    /\ \E answer \in BOOLEAN :
        /\ IF answer \/ n \notin exists THEN Answered ELSE Event
        /\ LET there == answer /\ n \in exists
               r == [syncs[s] EXCEPT !.seen[n] = [read |-> TRUE, others |-> there /\ n \in others,
                                                  self |-> there /\ n \in attached]]
           IN  Proceed(s, IF \A m \in r.listed : r.seen[m].read THEN Planned(r) ELSE r)
    /\ UNCHANGED <<docker, settings, service, identified>>

\* A connect or disconnect takes effect or not; whatever its answer, the
\* sync goes on with the next.
Request(n, done) ==
    /\ \/ exists \cap {n} = {} /\ UNCHANGED attached /\ Answered
       \/ n \in exists /\ attached' = done /\ Answered
       \/ n \in exists /\ attached' \in {done, attached} /\ Event

Join(s, n) ==
    /\ syncs[s].step = "act" /\ n \in syncs[s].join
    /\ Request(n, attached \cup {n})
    /\ Proceed(s, [syncs[s] EXCEPT !.join = @ \ {n}])
    /\ UNCHANGED <<skipped, exists, others, settings, service, identified>>

Leave(s, n) ==
    /\ syncs[s].step = "act" /\ syncs[s].join = {} /\ n \in syncs[s].leave
    /\ Request(n, attached \ {n})
    /\ Proceed(s, [syncs[s] EXCEPT !.leave = @ \ {n}])
    /\ UNCHANGED <<skipped, exists, others, settings, service, identified>>

Step(s) == List(s) \/ \E n \in Nets : Inspect(s, n) \/ Join(s, n) \/ Leave(s, n)

(***************************************************************************)
(* The start of the service: it finds its own container, sees that         *)
(* homelab-edge exists, and runs the first sync before it sets the timer.  *)
(* Without a container or with the setting off it stays off until the      *)
(* process restarts.                                                       *)
(***************************************************************************)
Start ==
    /\ service = "off"
    /\ service' = IF enabled THEN "starting" ELSE "disabled"
    /\ UNCHANGED <<docker, settings, rows, identified, syncs, events>>

Identify ==
    /\ service = "starting"
    /\ \/ identified' = TRUE /\ service' = "creating" /\ Answered
       \/ UNCHANGED identified /\ service' = "disabled" /\ Event
    /\ UNCHANGED <<docker, settings, rows, syncs>>

EnsureHomelabEdge ==
    /\ service = "creating"
    /\ \/ exists' = exists \cup {Edge} /\ Answered
       \/ UNCHANGED exists /\ Event
    /\ service' = "on"
    /\ \E s \in Syncs : IF enabled THEN Begin(s) ELSE UNCHANGED syncs
    /\ UNCHANGED <<skipped, others, attached, settings, rows, identified>>

\* The process ends; Docker, the settings and the rows stay.
Restart ==
    /\ service # "off" /\ Event
    /\ service' = "off" /\ identified' = FALSE
    /\ syncs' = [s \in Syncs |-> Idle]
    /\ UNCHANGED <<docker, settings, rows>>

(***************************************************************************)
(* Users and containers.                                                   *)
(***************************************************************************)
\* exclude and include write the setting and sync at once.
SetExcluded(names) ==
    /\ excluded' = names /\ names # excluded
    /\ Event
    /\ \E s \in Syncs :
        IF enabled /\ identified
        THEN Free(s) /\ syncs' = [syncs EXCEPT ![s] = [Loaded EXCEPT !.excluded = names]]
        ELSE UNCHANGED syncs
    /\ UNCHANGED <<docker, enabled, leaveEmpty, rows, service, identified>>

Exclude(n) == SetExcluded(excluded \cup {n})
Include(n) == SetExcluded(excluded \ {n})

UpdateSettings ==
    /\ \/ enabled' = ~enabled /\ UNCHANGED leaveEmpty
       \/ leaveEmpty' = ~leaveEmpty /\ UNCHANGED enabled
    /\ Event
    /\ UNCHANGED <<docker, excluded, rows, service, identified, syncs>>

\* Containers come and go; Docker removes a network only when it is empty.
ContainersStart(n) ==
    /\ n \in Nets \ others
    /\ others' = others \cup {n} /\ exists' = exists \cup {n}
    /\ Event
    /\ UNCHANGED <<skipped, attached, settings, rows, service, identified, syncs>>

ContainersStop(n) ==
    /\ n \in others
    /\ others' = others \ {n}
    /\ exists' \in {exists, exists \ ({n} \ (attached \cup skipped))}
    /\ Event
    /\ UNCHANGED <<skipped, attached, settings, rows, service, identified, syncs>>

Next ==
    \/ \E s \in Syncs : Tick(s) \/ Step(s)
    \/ Start \/ Identify \/ EnsureHomelabEdge \/ Restart \/ UpdateSettings
    \/ \E n \in Nets : Exclude(n) \/ Include(n) \/ ContainersStart(n) \/ ContainersStop(n)

Spec == Init /\ [][Next]_vars

\* Docker answers or the request times out, and the timer keeps firing.
FairSpec ==
    /\ Spec
    /\ WF_vars(Start) /\ WF_vars(Identify) /\ WF_vars(EnsureHomelabEdge)
    /\ WF_vars(\E s \in Syncs : Tick(s))
    /\ \A s \in Syncs : WF_vars(Step(s))

(***************************************************************************)
(* Properties.                                                             *)
(***************************************************************************)
Wanted == {n \in exists \ (skipped \cup excluded) : n = Edge \/ n \in others}

(* Once users and containers are quiet and Docker answers, a service that  *)
(* runs is in every network it should be in and, told to leave networks,   *)
(* in none that is excluded, however syncs with older settings overlapped  *)
(* before, and every network's row says so (syncOnce).                     *)
NetworksConverge ==
    <>[](service = "on" /\ enabled =>
            /\ Wanted \subseteq attached
            /\ leaveEmpty => attached \cap (excluded \cup skipped) = {}
            /\ \A n \in exists :
                 rows[n] = IF n \in excluded THEN "excluded"
                           ELSE IF n \in attached THEN "joined" ELSE "available")

(* Told to leave networks, ProxyOS leaves one in which containers run only *)
(* if it was excluded when the sync began, or is of the kinds it never     *)
(* joins (bridge, host, none, swarm), whatever inspections fail and what-  *)
(* ever starts meanwhile: a container that shares any other network with   *)
(* it stays reachable (filterRelevant and networksAlreadyJoined read the   *)
(* same inspection).  What it was put in of the other kinds it does leave. *)
LeavesKnowingly ==
    [][\A n \in (attached \ attached') \cap others :
           \E s \in Syncs : /\ n \in syncs[s].leave /\ syncs[s].leaveEmpty
                            /\ n \in syncs[s].excluded \cup skipped]_vars

(* apps/web/src/app/settings/networks/page.tsx:152: "Disconnect from       *)
(* networks when they no longer have running containers".                  *)
EmptyNetworksAreLeft ==
    <>[](service = "on" /\ enabled /\ leaveEmpty => attached \subseteq others \cup {Edge})

(* The same sentence: what is left has no running containers, unless the   *)
(* user excluded it.                                                       *)
OnlyEmptyNetworksAreLeft ==
    [][\A n \in (attached \ attached') \cap others : \E s \in Syncs : n \in syncs[s].excluded]_vars
=============================================================================
