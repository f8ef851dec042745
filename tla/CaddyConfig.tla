----------------------------- MODULE CaddyConfig -----------------------------
(****************************************************************************)
(* What ProxyOS keeps in Caddy's configuration besides the content of its   *)
(* routes: redirect and error hosts, TLS policies, streams and the server   *)
(* that redirects port 80; and the programs that write more of it than one  *)
(* object (packages/caddy/src/client.ts, bootstrap.ts; packages/api/src/    *)
(* routers: redirectHosts.ts, errorHosts.ts, streams.ts, system.ts,         *)
(* certificates.ts, caddy.ts and what routes.ts does about policies).       *)
(*                                                                          *)
(* There is one host and one stream; every route has TLS and is enabled.    *)
(* A handler goes from one request of the admin API to the next; what it    *)
(* does to the tables when an answer has come happens in the step of the    *)
(* request, since nobody can tell the difference.  What a route serves is   *)
(* in RouteSync.                                                            *)
(****************************************************************************)
EXTENDS Naturals

CONSTANTS
    Routes, Domains,
    Targets,       \* what a host may answer
    Procs,         \* handlers that may run at once
    MaxOps,        \* bound on the operations begun
    None

ASSUME KindsAssumption == Routes \cap Targets = {} /\ None \notin Routes \cup Targets
ASSUME BoundAssumption == MaxOps \in Nat

VARIABLES
    subjects,      \* a route's domain and its aliases; never changes
    routes,        \* the routes with a row
    forced,        \* those with forceSSL
    forceHttps,    \* system_settings, force_https
    hostKind,      \* "redirect" or "error"; never changes
    host, stream,  \* their rows
    conf,          \* Caddy's configuration
    proc,          \* the handlers
    ops,
    owed,          \* history: what must be in the configuration
    streamOk       \* history: the stream must be open just if it is switched on

tables  == <<routes, forced, forceHttps, host, stream>>
fixed   == <<subjects, hostKind>>
history == <<owed, streamOk>>
vars    == <<fixed, tables, conf, proc, ops, history>>

NoHost   == [exists |-> FALSE, enabled |-> FALSE, to |-> None]
NoStream == [exists |-> FALSE, enabled |-> FALSE]

(* main: the routes of the server `main` with hosts among them; policies:   *)
(* each is the set of its subjects.  Base is caddy/base-config.json.        *)
Base  == [main |-> {}, policies |-> {}, stream |-> FALSE, redirect |-> FALSE]
Confs == [main : SUBSET (Routes \cup Targets), policies : SUBSET SUBSET Domains,
          stream : BOOLEAN, redirect : BOOLEAN]

RouteOps  == {"create", "update", "delete"}
HostOps   == {"hostCreate", "hostUpdate", "hostDelete", "hostOn", "hostOff"}
StreamOps == {"streamCreate", "streamUpdate", "streamDelete", "streamOn", "streamOff"}
WideOps   == {"force", "renew", "reload", "bootstrap"}

Pending == {"idle", "server", "base", "replace", "read", "write", "load",
            "post", "patch", "remove", "open", "close", "redirectOn", "redirectOff"}

Idle == [op |-> "none", pc |-> "idle", x |-> None, todo |-> {}, read |-> Base, alone |-> FALSE]

TypeOK ==
    /\ subjects \in [Routes -> SUBSET Domains]
    /\ routes \subseteq Routes /\ forced \subseteq routes
    /\ forceHttps \in BOOLEAN
    /\ hostKind \in {"redirect", "error"}
    /\ host \in [exists : BOOLEAN, enabled : BOOLEAN, to : Targets \cup {None}]
    /\ stream \in [exists : BOOLEAN, enabled : BOOLEAN]
    /\ conf \in Confs
    /\ proc \in [Procs -> [op : RouteOps \cup HostOps \cup StreamOps \cup WideOps \cup {"none"},
                           pc : Pending, x : Routes \cup Targets \cup {None},
                           todo : SUBSET Routes, read : Confs, alone : BOOLEAN]]
    /\ ops \in 0 .. MaxOps
    /\ owed \in [main : SUBSET (Routes \cup Targets), policies : SUBSET Routes]
    /\ streamOk \in BOOLEAN

Nothing == [main |-> {}, policies |-> {}]

\* There may be a stream already.
Init ==
    /\ subjects \in [Routes -> SUBSET Domains \ {{}}]
    /\ routes = {} /\ forced = {} /\ forceHttps = FALSE
    /\ hostKind \in {"redirect", "error"}
    /\ host = NoHost
    /\ \E there \in BOOLEAN : /\ stream = [exists |-> there, enabled |-> there]
                              /\ conf = [Base EXCEPT !.stream = there]
    /\ proc = [p \in Procs |-> Idle]
    /\ ops = 0
    /\ owed = Nothing /\ streamOk = TRUE

(***************************************************************************)
(* The requests.  Refused: Caddy's own answer is an error.  Ids of hosts   *)
(* begin with redirect_ or error_, while PATCH and DELETE ask for the id   *)
(* with proxyos-route- before it, which is never there; DELETE takes its   *)
(* absence for success.  PUT creates and does not replace.                 *)
(***************************************************************************)
Refused(q) ==
    \/ q.pc = "patch" /\ q.x \notin conf.main \cap Routes
    \/ q.pc = "open" /\ conf.stream
    \/ q.pc = "redirectOn" /\ conf.redirect

\* Seeded faults: only the same policy makes way for a new one; all others do.
DedupedByEquality(policies, ss) == policies \cup {ss}
DedupedAway(policies, ss)       == {ss}

\* upsertTlsPolicy: policies that share a subject make way.
Deduped(policies, ss) == {pol \in policies : pol \cap ss = {}} \cup {ss}

\* Seeded fault: DELETE asks for another id than the one PUT made, as it does for hosts.
ServedAfterWrongId(q) == conf.stream \/ q.pc = "open"

\* addLayerFourStream, removeLayerFourStream.
ServedAfter(q) == q.pc = "open"

Effect(q) ==
    CASE q.pc = "base"    -> Base
      [] q.pc = "replace" -> [conf EXCEPT !.main = q.todo]
      [] q.pc = "write"   -> [conf EXCEPT !.policies = Deduped(q.read.policies, subjects[q.x])]
      [] q.pc = "load"    -> q.read
      [] q.pc = "post"    -> [conf EXCEPT !.main = @ \cup {q.x}]
      [] q.pc = "remove"  -> [conf EXCEPT !.main = @ \ ({q.x} \cap Routes)]
      [] q.pc \in {"open", "close"} -> [conf EXCEPT !.stream = ServedAfter(q)]
      [] q.pc \in {"redirectOn", "redirectOff"} -> [conf EXCEPT !.redirect = (q.pc = "redirectOn")]
      [] OTHER            -> conf

(***************************************************************************)
(* History.  A handler is alone with a list, or with the configuration, if *)
(* nobody has written it since it read it; with a stream, if no other      *)
(* handler of it runs.                                                     *)
(***************************************************************************)
Writes(q, r) == \/ r.pc = "load"  /\ q.pc \notin {"server", "read", "patch"}
                \/ r.pc = "write" /\ q.pc \in {"write", "load", "base"}

Sharing(r) == {s \in Routes : subjects[s] \cap subjects[r] # {}}

Lone(q, kept) == IF q.alone THEN kept ELSE Nothing

\* What is owed once the request has been answered, for better or worse.
OwedAfter(q, ok) ==
    CASE q.pc = "base"    -> Nothing
      [] q.pc = "load"    -> Lone(q, owed)
      [] q.pc = "replace" -> [owed EXCEPT !.main = IF ok THEN q.todo ELSE @ \cap q.todo]
      [] q.pc = "write"   -> LET kept == IF q.alone THEN owed.policies \ Sharing(q.x) ELSE {}
                             IN  [owed EXCEPT !.policies = kept \cup IF ok THEN {q.x} ELSE {}]
      [] q.pc = "post"    -> [owed EXCEPT !.main = @ \cup IF ok THEN {q.x} ELSE {}]
      [] q.pc = "remove"  -> [owed EXCEPT !.main = @ \ ({q.x} \cap Routes)]
      [] OTHER            -> owed

StreamAfter(q, ok) ==
    IF q.pc = "base" THEN FALSE
    ELSE IF q.pc = "load" THEN streamOk /\ q.alone
    ELSE IF q.op \in StreamOps
         THEN ok /\ q.alone /\ (q.op = "streamUpdate" => stream.enabled)
    ELSE streamOk

Remember(q, ok) ==
    /\ owed' = OwedAfter(q, ok)
    /\ streamOk' = StreamAfter(q, ok)

(***************************************************************************)
(* How a handler goes on.                                                  *)
(***************************************************************************)
Becomes(p, q) ==
    proc' = [r \in Procs |-> IF r = p THEN q
                             ELSE IF Writes(proc[p], proc[r]) THEN [proc[r] EXCEPT !.alone = FALSE]
                             ELSE proc[r]]

\* Upserts of policies for a set of routes, then what follows them.
Upserting(q, rs) ==
    IF rs = {} THEN {Idle}
    ELSE {[q EXCEPT !.pc = "read", !.x = r, !.todo = rs \ {r}, !.read = Base] : r \in rs}

Has(q, pc) == [q EXCEPT !.pc = pc, !.read = Base, !.alone = FALSE]

\* What a request is followed by when it was answered well.
Following(q) ==
    CASE q.pc = "server"  -> {[q EXCEPT !.pc = "replace", !.todo = routes]}
      [] q.pc = "base"    -> {[q EXCEPT !.pc = "replace", !.todo = routes]}
      [] q.pc = "replace" -> IF q.op = "reload" THEN Upserting(q, q.todo) ELSE {Idle}
      [] q.pc = "read"    -> {[q EXCEPT !.pc = IF q.op = "renew" THEN "load" ELSE "write",
                                        !.read = IF q.op = "renew" THEN conf
                                                 ELSE [Base EXCEPT !.policies = conf.policies],
                                        !.alone = TRUE]}
      [] q.pc = "write"   -> IF q.op = "reload" THEN Upserting(q, q.todo)
                             ELSE {Has(q, IF q.op = "create" THEN "post" ELSE "patch")}
      [] q.pc = "patch"   -> IF q.op = "update"
                             THEN {Has(q, IF forced = {} THEN "redirectOff" ELSE "redirectOn")}
                             ELSE {Idle}
      [] OTHER            -> {Idle}

Settled(rs, h, s) ==
    /\ routes' = rs /\ forced' = forced \cap rs
    /\ host' = h /\ stream' = s
    /\ UNCHANGED forceHttps

\* The tables when a handler has come to its end, or was refused.
Concludes(q) ==
    Settled(IF q.pc = "remove" THEN routes \ {q.x} ELSE routes,
            IF q.op = "hostDelete" THEN NoHost ELSE host,
            IF q.op = "streamDelete" THEN NoStream ELSE stream)

\* create takes its row back, what a delete was about stays, a stream's
\* handlers go on as if nothing had happened.
GivesUp(q) ==
    Settled(IF q.op = "create" THEN routes \ {q.x} ELSE routes,
            IF q.op = "hostCreate" THEN NoHost ELSE host,
            IF q.op = "streamDelete" THEN NoStream ELSE stream)

Answered(p) ==
    LET q == proc[p] IN
    /\ q.pc # "idle" /\ ~Refused(q)
    /\ conf' = Effect(q)
    /\ \E f \in Following(q) : Becomes(p, f)
    /\ Concludes(q)
    /\ Remember(q, TRUE)
    /\ UNCHANGED <<fixed, ops>>

Rejected(p) ==
    LET q == proc[p] IN
    /\ q.pc # "idle" /\ Refused(q)
    /\ UNCHANGED conf
    /\ Becomes(p, Idle)
    /\ GivesUp(q)
    /\ Remember(q, q.pc = "open")
    /\ UNCHANGED <<fixed, ops>>

\* The request or its answer is lost.
Fails(p) ==
    LET q == proc[p] IN
    /\ q.pc # "idle"
    /\ conf' \in {conf} \cup IF Refused(q) THEN {} ELSE {Effect(q)}
    /\ Becomes(p, Idle)
    /\ GivesUp(q)
    /\ Remember(q, FALSE)
    /\ UNCHANGED <<fixed, ops>>

\* hasServer takes any answer that is not a success for "no such server".
NoSuchServer(p) ==
    /\ proc[p].pc = "server"
    /\ Becomes(p, [proc[p] EXCEPT !.pc = "base"])
    /\ UNCHANGED <<fixed, tables, conf, ops, history>>

(***************************************************************************)
(* The handlers, each up to its first request.                             *)
(***************************************************************************)
Begin(p, op, pc, x) ==
    /\ proc[p].pc = "idle" /\ ops < MaxOps
    /\ ops' = ops + 1
    /\ LET rivals == {r \in Procs : op \in StreamOps /\ proc[r].op \in StreamOps}
       IN  proc' = [r \in Procs |->
               IF r = p THEN [Idle EXCEPT !.op = op, !.pc = pc, !.x = x, !.alone = (rivals = {})]
               ELSE IF r \in rivals THEN [proc[r] EXCEPT !.alone = FALSE]
               ELSE proc[r]]
    /\ UNCHANGED <<fixed, conf, history>>

Running(set) == {p \in Procs : proc[p].op \in set}
On(r)        == {p \in Procs : r \in proc[p].todo \cup {proc[p].x}}

\* A new route, host or stream has a new id: the name of one that is gone
\* serves again when nothing is left that knows it.
CreateRoute(p, r) ==
    /\ r \notin routes \cup conf.main /\ On(r) = {} /\ Running({"renew"}) = {}
    /\ Begin(p, "create", "read", r)
    /\ routes' = routes \cup {r}
    /\ UNCHANGED <<forced, forceHttps, host, stream>>

UpdateRoute(p, r) ==
    /\ r \in routes
    /\ Begin(p, "update", "read", r)
    /\ forced' \in {forced \cup {r}, forced \ {r}}
    /\ UNCHANGED <<routes, forceHttps, host, stream>>

DeleteRoute(p, r) ==
    /\ r \in routes
    /\ Begin(p, "delete", "remove", r)
    /\ UNCHANGED tables

CreateHost(p, to) ==
    /\ ~host.exists /\ Running(HostOps) = {}
    /\ Begin(p, "hostCreate", "post", to)
    /\ host' = [exists |-> TRUE, enabled |-> TRUE, to |-> to]
    /\ UNCHANGED <<routes, forced, forceHttps, stream>>

UpdateHost(p, to) ==
    /\ host.exists
    /\ Begin(p, "hostUpdate", "patch", to)
    /\ host' = [host EXCEPT !.to = to]
    /\ UNCHANGED <<routes, forced, forceHttps, stream>>

DeleteHost(p) ==
    /\ host.exists
    /\ Begin(p, "hostDelete", "remove", host.to)
    /\ UNCHANGED tables

ToggleHost(p, on) ==
    /\ host.exists
    /\ IF ~on THEN Begin(p, "hostOff", "remove", host.to)
       ELSE IF hostKind = "error" THEN Begin(p, "hostOn", "post", host.to)
       ELSE Begin(p, "hostOn", "patch", host.to)
    /\ host' = [host EXCEPT !.enabled = on]
    /\ UNCHANGED <<routes, forced, forceHttps, stream>>

CreateStream(p) ==
    /\ ~stream.exists /\ ~conf.stream /\ Running(StreamOps \cup {"renew"}) = {}
    /\ Begin(p, "streamCreate", "open", None)
    /\ stream' = [exists |-> TRUE, enabled |-> TRUE]
    /\ UNCHANGED <<routes, forced, forceHttps, host>>

UpdateStream(p) ==
    /\ stream.exists
    /\ Begin(p, "streamUpdate", "open", None)
    /\ UNCHANGED tables

DeleteStream(p) ==
    /\ stream.exists
    /\ Begin(p, "streamDelete", "close", None)
    /\ UNCHANGED tables

ToggleStream(p, on) ==
    /\ stream.exists
    /\ IF on THEN Begin(p, "streamOn", "open", None) ELSE Begin(p, "streamOff", "close", None)
    /\ stream' = [stream EXCEPT !.enabled = on]
    /\ UNCHANGED <<routes, forced, forceHttps, host>>

SetForceHttps(p, on) ==
    /\ Begin(p, "force", IF on THEN "redirectOn" ELSE "redirectOff", None)
    /\ forceHttps' = on
    /\ UNCHANGED <<routes, forced, host, stream>>

\* What a bootstrap asks between "server" and the list of rows (logging, the tls
\* application, trusted proxies) and after it (errors) is left out.
Renew(p)     == Begin(p, "renew", "read", None) /\ UNCHANGED tables
Reload(p)    == Begin(p, "reload", "server", None) /\ UNCHANGED tables
Bootstrap(p) == Begin(p, "bootstrap", "server", None) /\ UNCHANGED tables

(***************************************************************************)
(* Caddy starts again from the base configuration; the application starts  *)
(* again and its handlers are gone.                                        *)
(***************************************************************************)
CaddyRestarts ==
    /\ conf # Base
    /\ conf' = Base
    /\ owed' = Nothing /\ streamOk' = FALSE
    /\ proc' = [p \in Procs |-> [proc[p] EXCEPT !.alone = FALSE]]
    /\ UNCHANGED <<fixed, tables, ops>>

ApplicationRestarts ==
    /\ Running({"none"}) # Procs
    /\ proc' = [p \in Procs |-> Idle]
    /\ streamOk' = (streamOk /\ Running(StreamOps) = {})
    /\ UNCHANGED <<fixed, tables, conf, ops, owed>>

Next ==
    \/ \E p \in Procs :
        \/ Answered(p) \/ Rejected(p) \/ Fails(p) \/ NoSuchServer(p)
        \/ \E r \in Routes : CreateRoute(p, r) \/ UpdateRoute(p, r) \/ DeleteRoute(p, r)
        \/ \E to \in Targets : CreateHost(p, to) \/ UpdateHost(p, to)
        \/ DeleteHost(p) \/ CreateStream(p) \/ UpdateStream(p) \/ DeleteStream(p)
        \/ \E on \in BOOLEAN : ToggleHost(p, on) \/ ToggleStream(p, on) \/ SetForceHttps(p, on)
        \/ Renew(p) \/ Reload(p) \/ Bootstrap(p)
    \/ CaddyRestarts
    \/ ApplicationRestarts

Spec == Init /\ [][Next]_vars

(***************************************************************************)
(* Properties.                                                             *)
(***************************************************************************)
(* Routes, hosts and policies that Caddy has accepted stay in its           *)
(* configuration until they are removed, the list of routes is replaced     *)
(* from the table, the base configuration is loaded, a route that shares a  *)
(* domain brings its own policy, or somebody writes back what he read       *)
(* before another one wrote (upsertTlsPolicy, renew).                       *)
WhatWasPutStays ==
    /\ owed.main \subseteq conf.main
    /\ \A r \in owed.policies : subjects[r] \in conf.policies

(* However upserts overlap and are lost, no domain is ever the subject of   *)
(* two policies (upsertTlsPolicy: deduped).                                 *)
OneSubjectOnePolicy ==
    \A pol, other \in conf.policies : pol # other => pol \cap other = {}

(* A stream is open just if it has a row and is switched on, after any      *)
(* handlers of it that ran one at a time and were answered (streams.ts),    *)
(* but for an update of a stream that is switched off, which opens it.      *)
StreamFollowsRow ==
    streamOk /\ Running(StreamOps) = {} => (conf.stream <=> stream.exists /\ stream.enabled)

(* docs/api/scopes-and-permissions.md:18: "Create, update, delete redirect  *)
(* hosts, error hosts, and streams": a host whose deletion was answered     *)
(* answers no more.                                                         *)
DeletedHostIsGone ==
    [][\A p \in Procs : proc[p].op = "hostDelete" /\ proc'[p] = Idle /\ ~host'.exists
           => conf'.main \cap Targets = {}]_vars

(* apps/web/src/app/settings/page.tsx:393: "Redirect all HTTP traffic (port *)
(* 80) to HTTPS automatically."                                             *)
ForceHttpsHolds ==
    [][forceHttps /\ conf.redirect /\ ~conf'.redirect
           => conf' = Base \/ \E p \in Procs : proc[p].pc = "load" \/ proc[p].op = "force"]_vars
=============================================================================
