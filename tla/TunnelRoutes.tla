---------------------------- MODULE TunnelRoutes ----------------------------
(****************************************************************************)
(* Routes exposed through tunnels (packages/api/src/routers/tunnels.ts, the *)
(* routes part; addRoute and removeRoute of packages/tunnels/src/providers; *)
(* the servers of the client of packages/caddy/src/client.ts).              *)
(*                                                                          *)
(* A request waits for the provider, then for Caddy, and writes the tables  *)
(* at its end.  How a provider's sidecar is started and stopped is          *)
(* TunnelProcess; here a provider is loaded or not, and its sidecar may be  *)
(* replaced.  A tunnel row is the request that inserted it: its route, its  *)
(* provider and the port of its public URL are the request's.               *)
(*                                                                          *)
(* Host names are left out.  The route Caddy gets matches the domain of the *)
(* route; that is the name a Cloudflare tunnel is published under, but not  *)
(* the name of a Tailscale device nor one that ngrok assigns, so there a    *)
(* route that is published and served still answers nobody.                 *)
(****************************************************************************)
EXTENDS Integers, FiniteSets

CONSTANTS
    Routes,
    Providers,
    TypeOf,        \* the type of every provider
    Ports,         \* the public ports of a Tailscale device, in order
    MaxOps,        \* requests, numbered in the order they arrive
    MaxRunning,    \* how many of them run at the same time
    MaxEvents,     \* how many restarts, crashes, wrong answers, stopped providers and
                   \* deleted routes there are
    None

Types == {"cloudflare", "ngrok", "tailscale"}
Ops   == 1 .. MaxOps

ASSUME TypeAssumption   == TypeOf \in [Providers -> Types]
ASSUME BoundsAssumption == MaxOps \in Nat /\ MaxRunning \in Nat /\ MaxEvents \in Nat /\ Ports \subseteq Nat
ASSUME NoneAssumption   == /\ None \notin Nat \cup Routes \cup Providers
                           /\ \A S \in SUBSET Routes : None # S

VARIABLES
    alive,         \* rows of the table routes
    ref,           \* their `tunnel_route_id`; set means exposure mode "tunnel"
    rows,          \* table tunnel_routes
    exists,        \* rows of the table tunnel_providers
    loaded,        \* providers in the memory of the application
    names,         \* what a loaded provider remembers: route -> its public port
    published,     \* what the provider publishes in the world
    inner,         \* Caddy: the routes of the server of every type, or None
    op,            \* the requests
    events,
    clash,         \* history: routes two requests dealt with at the same time
    raced,         \* history: types two requests dealt with at the same time
    hurt,          \* history: types whose server a fault has hit
    reloaded       \* history: providers that were unloaded at some time, and those of
                   \* ngrok whose agent was replaced

tables  == <<alive, ref, rows, exists>>
outside == <<names, published, inner>>
history == <<clash, raced, hurt, reloaded>>
vars    == <<tables, loaded, outside, op, events, history>>

Requests ==
    [kind : {"none", "enable", "disable", "switch", "drop"},
     pc   : {"new", "unpublish", "unserve", "publish", "answer",
             "probe", "serve", "post", "unload", "done"},
     r    : Routes \cup {None}, p : Providers \cup {None},
     old  : Ops \cup {None},       \* the tunnel row it has read
     port : Ports \cup {0},        \* the port chosen for the route
     list : {None} \cup SUBSET Routes]   \* the names it sends to Cloudflare

TypeOK ==
    /\ alive \subseteq Routes /\ exists \subseteq Providers /\ loaded \subseteq Providers
    /\ ref \in [Routes -> Ops \cup {None}]
    /\ rows \subseteq Ops
    /\ names \in [Providers -> [Routes -> Ports \cup {0, None}]]
    /\ published \in [Providers -> SUBSET Routes]
    /\ inner \in [Types -> {None} \cup SUBSET Routes]
    /\ op \in [Ops -> Requests]
    /\ events \in 0 .. MaxEvents
    /\ clash \subseteq Routes /\ raced \subseteq Types /\ hurt \subseteq Types
    /\ reloaded \subseteq Providers
    \* the tables' foreign keys
    /\ \A o \in rows : op[o].r \in alive /\ op[o].p \in exists

NoNames == [r \in Routes |-> None]
NoOp    == [kind |-> "none", pc |-> "new", r |-> None, p |-> None, old |-> None, port |-> 0,
           list |-> None]

Init ==
    /\ alive = Routes
    /\ ref = [r \in Routes |-> None]
    /\ rows = {}
    /\ exists = Providers
    /\ loaded = {}
    /\ names = [p \in Providers |-> NoNames]
    /\ published = [p \in Providers |-> {}]
    /\ inner = [t \in Types |-> None]
    /\ op = [o \in Ops |-> NoOp]
    /\ events = 0
    /\ clash = {} /\ raced = {} /\ hurt = {} /\ reloaded = {}

Runs(o)      == op[o].pc \notin {"new", "done"}
Known(p)     == {r \in Routes : names[p][r] # None}
Goes(o, pc)  == op' = [op EXCEPT ![o].pc = pc]

\* A request that ends.  Only of one that inserted a row something needs to be
\* known afterwards.
Finished  == [NoOp EXCEPT !.pc = "done"]
Ends(o) == LET q == op[o]
           IN  op' = [op EXCEPT ![o] =
                      [Finished EXCEPT !.r = q.r, !.p = q.p, !.port = q.port]]
Finishes(o) == op' = [op EXCEPT ![o] = Finished]

\* Seeded fault: the ports that are taken are not looked at.
EveryPort(p) == Ports

FreePorts(p) == {n \in Ports : \A r \in Routes : names[p][r] # n}
HasTunnel(r) == ref[r] \in rows
Lowest(S)    == CHOOSE n \in S : \A m \in S : n <= m

(***************************************************************************)
(* Requests.  enable refuses a route that has a tunnel; switch first takes *)
(* the old tunnel away.  Enabling loads the provider if it is not loaded:  *)
(* it is registered at once and then started, which may take its time and  *)
(* may fail: the request is at "publish" while it waits.                   *)
(***************************************************************************)
\* The types of the providers a request calls.
Touches(o) == {TypeOf[p] : p \in {op[o].p, op[IF op[o].old = None THEN o ELSE op[o].old].p} \ {None}}

NextRequest(o) ==
    /\ op[o].pc = "new"
    /\ \A q \in Ops : q < o => op[q].pc # "new"
    /\ Cardinality({q \in Ops : Runs(q)}) < MaxRunning

Notes(o, r, ps) ==
    /\ clash' = IF \E q \in Ops : Runs(q) /\ op[q].r = r THEN clash \cup {r} ELSE clash
    /\ raced' = raced \cup ({TypeOf[p] : p \in ps} \cap UNION {Touches(q) : q \in {q \in Ops : Runs(q)}})
    /\ UNCHANGED <<hurt, reloaded, events>>

Enable(o, r, p) ==
    /\ NextRequest(o)
    /\ r \in alive /\ p \in exists
    /\ ref[r] = None
    /\ op' = [op EXCEPT ![o] = [NoOp EXCEPT !.kind = "enable", !.r = r, !.p = p, !.pc = "publish"]]
    /\ loaded' = loaded \cup {p}
    /\ Notes(o, r, {p})
    /\ UNCHANGED <<tables, outside>>

(***************************************************************************)
(* Taking a tunnel away.  removeRoute gets the route's id where it expects *)
(* the provider's name for it, and so finds nothing to remove: Cloudflare  *)
(* is sent the list of names as it was.  Caddy is asked to delete an id it *)
(* does not have.  Neither failure is looked at.                           *)
(***************************************************************************)
RemoveRoute(p) == IF p \in loaded /\ TypeOf[p] = "cloudflare" THEN Known(p) ELSE None

\* disable and switch of a route with a tunnel begin with the row they read.
TakeDown(o, kind, r, p) ==
    /\ NextRequest(o)
    /\ r \in alive
    /\ HasTunnel(r)
    /\ op' = [op EXCEPT ![o] = [NoOp EXCEPT !.kind = kind, !.r = r, !.p = p,
                 !.old = ref[r], !.list = RemoveRoute(op[ref[r]].p), !.pc = "unpublish"]]
    /\ Notes(o, r, {p, op[ref[r]].p} \ {None})
    /\ UNCHANGED <<tables, loaded, outside>>

(* A route without a tunnel, or whose tunnel row is gone: disable only     *)
(* resets it, switch goes straight on to the new provider.                 *)
Reset(o, r) ==
    /\ NextRequest(o)
    /\ r \in alive
    /\ ~HasTunnel(r)
    /\ Finishes(o)
    /\ ref' = [ref EXCEPT ![r] = None]
    /\ Notes(o, r, {})
    /\ UNCHANGED <<alive, rows, exists, loaded, outside>>

Switch(o, r, p) ==
    /\ NextRequest(o)
    /\ r \in alive /\ p \in exists
    /\ ~HasTunnel(r)
    /\ op' = [op EXCEPT ![o] = [NoOp EXCEPT !.kind = "switch", !.r = r, !.p = p, !.pc = "publish"]]
    /\ ref' = [ref EXCEPT ![r] = None]
    /\ loaded' = loaded \cup {p}
    /\ Notes(o, r, {p})
    /\ UNCHANGED <<alive, rows, exists, outside>>

Unpublish(o) ==
    LET p == op[op[o].old].p
    IN  /\ op[o].pc = "unpublish"
        /\ \/ /\ published' = IF op[o].list = None THEN published
                              ELSE [published EXCEPT ![p] = op[o].list]
           \/ UNCHANGED published
        /\ op' = [op EXCEPT ![o].pc = "unserve", ![o].list = None]
        /\ UNCHANGED <<tables, loaded, names, inner, events, history>>

\* Seeded fault: the row goes, the route's reference to it stays.
UnserveRow(o) ==
    /\ op[o].pc = "unserve"
    /\ rows' = rows \ {op[o].old}
    /\ Finishes(o)
    /\ UNCHANGED <<alive, ref, exists, loaded, outside, events, history>>

Unserve(o) ==
    /\ op[o].pc = "unserve"
    /\ rows' = rows \ {op[o].old}
    /\ ref' = IF op[o].r \in alive THEN [ref EXCEPT ![op[o].r] = None] ELSE ref
    /\ IF op[o].kind = "switch" /\ op[o].p \in exists
       THEN /\ op' = [op EXCEPT ![o].pc = "publish", ![o].old = None]
            /\ loaded' = loaded \cup {op[o].p}
       ELSE Finishes(o) /\ UNCHANGED loaded
    /\ UNCHANGED <<alive, exists, outside, events, history>>

(***************************************************************************)
(* Putting a tunnel up.  Every call may fail, and then the request ends    *)
(* and what it has done so far stays.                                      *)
(***************************************************************************)
CallFails(o) ==
    /\ op[o].pc \in {"publish", "answer", "probe", "serve", "post"}
    /\ Finishes(o)
    /\ UNCHANGED <<tables, loaded, outside, events, history>>

\* Seeded fault: Cloudflare is sent the new name alone.
PublishOne(o) ==
    LET p == op[o].p
        r == op[o].r
    IN  /\ op[o].pc = "publish"
        /\ p \in loaded /\ TypeOf[p] = "cloudflare"
        /\ op' = [op EXCEPT ![o].pc = "answer", ![o].list = {r}]
        /\ names' = [names EXCEPT ![p][r] = 0]
        /\ UNCHANGED <<tables, loaded, published, inner, events, history>>

(* addRoute up to its call: Cloudflare's list takes the name already, a    *)
(* Tailscale device looks for a free port and takes it only afterwards.    *)
Publish(o) ==
    LET p == op[o].p
        r == op[o].r
        ports == IF names[p][r] = None THEN FreePorts(p) ELSE {names[p][r]}
    IN  /\ op[o].pc = "publish"
        /\ IF p \notin loaded \/ (TypeOf[p] = "tailscale" /\ ports = {})
           THEN Finishes(o) /\ UNCHANGED names
           ELSE /\ op' = [op EXCEPT ![o].pc = "answer",
                            ![o].port = IF TypeOf[p] = "tailscale" THEN Lowest(ports) ELSE 0,
                            ![o].list = IF TypeOf[p] = "cloudflare" THEN Known(p) \cup {r} ELSE None]
                /\ names' = IF TypeOf[p] = "cloudflare" THEN [names EXCEPT ![p][r] = 0] ELSE names
        /\ UNCHANGED <<tables, loaded, published, inner, events, history>>

Published(o) ==
    LET p == op[o].p
        r == op[o].r
    IN  /\ op[o].pc = "answer"
        /\ published' = [published EXCEPT ![p] =
               IF op[o].list = None THEN @ \cup {r} ELSE op[o].list]
        /\ names' = IF TypeOf[p] = "cloudflare" \/ p \notin loaded THEN names
                    ELSE [names EXCEPT ![p][r] = op[o].port]
        /\ op' = [op EXCEPT ![o].pc = "probe", ![o].list = None]
        /\ UNCHANGED <<tables, loaded, inner, events, history>>

(* hasServer takes an answer that is an error for "no such server".  An    *)
(* upsert of a server that exists replaces it, with its routes.            *)
Probe(o) ==
    LET t == TypeOf[op[o].p]
    IN  /\ op[o].pc = "probe"
        /\ \/ Goes(o, IF inner[t] = None THEN "serve" ELSE "post") /\ UNCHANGED <<events, hurt>>
           \/ /\ events < MaxEvents /\ events' = events + 1
              /\ hurt' = hurt \cup {t}
              /\ Goes(o, "serve")
        /\ UNCHANGED <<tables, loaded, outside, clash, raced, reloaded>>

Serve(o) ==
    /\ op[o].pc = "serve"
    /\ inner' = [inner EXCEPT ![TypeOf[op[o].p]] = {}]
    /\ Goes(o, "post")
    /\ UNCHANGED <<tables, loaded, names, published, events, history>>

(* The route is posted, also when Caddy has it already: it may refuse the  *)
(* second one.  Then the tables are written, which their keys may forbid.  *)
Post(o) ==
    LET p == op[o].p
        r == op[o].r
        t == TypeOf[p]
        refused == inner[t] = None
    IN  /\ op[o].pc = "post"
        /\ \/ /\ IF refused THEN TRUE ELSE r \in inner[t]
              /\ Finishes(o)
              /\ UNCHANGED <<inner, tables>>
           \/ /\ ~refused
              /\ inner' = [inner EXCEPT ![t] = @ \cup {r}]
              /\ IF r \in alive /\ p \in exists
                 THEN rows' = rows \cup {o} /\ ref' = [ref EXCEPT ![r] = o] /\ Ends(o)
                 ELSE UNCHANGED <<rows, ref>> /\ Finishes(o)
              /\ UNCHANGED <<alive, exists>>
        /\ UNCHANGED <<loaded, names, published, events, history>>

(***************************************************************************)
(* What happens to providers, routes and programs around them.  A provider *)
(* that stops forgets its names; only Cloudflare goes on publishing them.  *)
(***************************************************************************)
Unload(p) ==
    /\ loaded' = loaded \ {p}
    /\ names' = [names EXCEPT ![p] = NoNames]
    /\ published' = IF TypeOf[p] = "cloudflare" THEN published ELSE [published EXCEPT ![p] = {}]
    /\ reloaded' = reloaded \cup {p}

DisableProvider(p) ==
    /\ events < MaxEvents /\ events' = events + 1
    /\ p \in loaded
    /\ Unload(p)
    /\ UNCHANGED <<tables, inner, op, clash, raced, hurt>>

(***************************************************************************)
(* The sidecar of a loaded provider is replaced, by a restart or because   *)
(* it crashed and its supervisor starts it again.  The agent of ngrok      *)
(* comes back with `--none`: its tunnels are gone, while the provider and  *)
(* the rows remember them.  Cloudflare keeps the list of names and the     *)
(* daemon of Tailscale its ports, so for those nothing changes.            *)
(***************************************************************************)
AgentRestarts(p) ==
    /\ events < MaxEvents /\ events' = events + 1
    /\ p \in loaded
    /\ TypeOf[p] = "ngrok"
    /\ published' = [published EXCEPT ![p] = {}]
    /\ reloaded' = reloaded \cup {p}
    /\ UNCHANGED <<tables, loaded, names, inner, op, clash, raced, hurt>>

\* create, update and restart start a provider that is not loaded.
StartProvider(p) ==
    /\ events < MaxEvents /\ events' = events + 1
    /\ p \in exists \ loaded
    /\ loaded' = loaded \cup {p}
    /\ UNCHANGED <<tables, outside, op, history>>

\* delete checks for tunnel rows, waits for the provider to stop and deletes.
DeleteProvider(o, p) ==
    /\ NextRequest(o)
    /\ p \in exists
    /\ \A q \in rows : op[q].p # p
    /\ op' = [op EXCEPT ![o] = [NoOp EXCEPT !.kind = "drop", !.p = p, !.pc = "unload"]]
    /\ UNCHANGED <<tables, loaded, outside, events, history>>

ProviderDeleted(o) ==
    /\ op[o].pc = "unload"
    /\ exists' = exists \ {op[o].p}
    /\ rows' = {q \in rows : op[q].p # op[o].p}
    /\ Unload(op[o].p)
    /\ Finishes(o)
    /\ UNCHANGED <<alive, ref, inner, events, clash, raced, hurt>>

DeleteRoute(r) ==
    /\ events < MaxEvents /\ events' = events + 1
    /\ r \in alive
    /\ alive' = alive \ {r}
    /\ ref' = [ref EXCEPT ![r] = None]
    /\ rows' = {q \in rows : op[q].r # r}
    /\ UNCHANGED <<exists, loaded, outside, op, history>>

CaddyRestarts ==
    /\ events < MaxEvents /\ events' = events + 1
    /\ inner' = [t \in Types |-> None]
    /\ hurt' = Types
    /\ UNCHANGED <<tables, loaded, names, published, op, clash, raced, reloaded>>

ApplicationRestarts ==
    /\ events < MaxEvents /\ events' = events + 1
    /\ loaded' = {}
    /\ names' = [p \in Providers |-> NoNames]
    /\ reloaded' = reloaded \cup loaded
    /\ op' = [o \in Ops |-> IF Runs(o) THEN Finished ELSE op[o]]
    /\ UNCHANGED <<tables, published, inner, clash, raced, hurt>>

Next ==
    \/ \E o \in Ops, r \in Routes, p \in Providers :
        Enable(o, r, p) \/ TakeDown(o, "switch", r, p) \/ Switch(o, r, p)
    \/ \E o \in Ops, r \in Routes : TakeDown(o, "disable", r, None) \/ Reset(o, r)
    \/ \E o \in Ops : \/ Unpublish(o) \/ Unserve(o) \/ CallFails(o)
                      \/ Publish(o) \/ Published(o) \/ Probe(o) \/ Serve(o) \/ Post(o)
                      \/ ProviderDeleted(o)
    \/ \E o \in Ops, p \in Providers : DeleteProvider(o, p)
    \/ \E p \in Providers : DisableProvider(p) \/ StartProvider(p) \/ AgentRestarts(p)
    \/ \E r \in Routes : DeleteRoute(r)
    \/ CaddyRestarts
    \/ ApplicationRestarts

Spec == Init /\ [][Next]_vars

(***************************************************************************)
(* Properties                                                              *)
(***************************************************************************)
(* A route that says it has a tunnel has a tunnel row of its own, however  *)
(* requests overlap; the row may only be missing once some provider was    *)
(* deleted, which takes rows with it that its check did not see.           *)
TunnelHasRow ==
    \A r \in Routes : ref[r] # None =>
        op[ref[r]].r = r /\ (ref[r] \in rows \/ op[ref[r]].p \notin exists)

(* A tunnel row is the one its route refers to, so that disable reaches it *)
(* and its provider can be deleted one day; only two requests for the      *)
(* route at the same time leave a row nobody refers to.                    *)
RowIsReferred ==
    \A o \in rows : op[o].r \notin clash => ref[op[o].r] = o

(* Routes and tunnel rows refer to each other.                             *)
RowsMatchRoutes == TunnelHasRow /\ RowIsReferred

(* The route of a tunnel row is served by the server of its type, unless a *)
(* fault hit that server, or two requests created it at the same time.     *)
RowIsServed ==
    \A o \in rows :
        LET t == TypeOf[op[o].p]
        IN  t \notin raced \cup hurt => inner[t] # None /\ op[o].r \in inner[t]

(* The route of a tunnel row is published by its provider as long as the   *)
(* provider stayed loaded, the agent of ngrok ran on, and the providers of *)
(* the type were asked for one thing at a time; nothing publishes it again *)
(* afterwards.                                                             *)
RowIsPublished ==
    \A o \in rows : op[o].p \notin reloaded /\ TypeOf[op[o].p] \notin raced => op[o].r \in published[op[o].p]

(* A tunnel row stands for a route that is published and served, whether   *)
(* or not the host names at both ends agree.                               *)
TunnelIsUp == RowIsServed /\ RowIsPublished

(* The rows of two routes name the same public port of a Tailscale device  *)
(* only if requests for Tailscale overlapped or the provider was unloaded  *)
(* at some time, which makes it forget the ports that are taken: the next  *)
(* route gets the first of them once more.                                 *)
PortsAreDistinct ==
    \A o, q \in rows :
        LET p == op[o].p
        IN  /\ TypeOf[p] = "tailscale" /\ "tailscale" \notin raced /\ p \notin reloaded
            /\ op[q].p = p /\ op[q].port = op[o].port
            => op[q].r = op[o].r

(* What the event "Tunnel exposure removed from route" of disable says: by *)
(* the time it is written, the provider of the tunnel no longer publishes  *)
(* the route.                                                              *)
DisableUnpublishes ==
    [][\A o \in Ops : op[o].kind = "disable" /\ Unserve(o) =>
            op[o].r \notin published'[op[op[o].old].p]]_vars
=============================================================================
