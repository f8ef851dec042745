# ProxyOS: TLA+ specifications

ProxyOS keeps the configuration of a reverse proxy in an SQLite table and pushes it to a
[Caddy](https://caddyserver.com) server through Caddy's admin API. A *central* instance can
manage *nodes*, other instances, over a WebSocket link ("federation"). These modules specify
the parts of the program whose correctness depends on the order in which things happen: what
is written to the table and to Caddy, what a detector of differences sees of both, who is
connected to whom, how a configuration travels from one instance to another, who carries out a
change that was scheduled, which sidecar programs run, and what else Caddy's configuration holds.

Contents

1. Inventory of the system
2. The modules and the code they stand for
3. What is checked, with which bounds and what it shows
4. Fairness
5. What is proved
6. What is only model-checked, and what is left out of the modules
7. Where the code differs from its documentation
8. Plan

---------------------------------------------------------------------------------------------

## 1. Inventory

One Node process (`apps/web`, Next.js with tRPC routers from `packages/api`) and one Caddy
process run side by side in a container, each restarted on its own by s6. The database is
better-sqlite3: a statement is synchronous, the `await` in front of it gives way to microtasks
only. Every HTTP call of the admin API gives way to everything else.

| Part | State it keeps | Operations | Talks to | What is hard about it |
|---|---|---|---|---|
| Route handlers (`api/routers/routes.ts`, `publicApi.ts`) | rows of `routes` with `enabled`, `archived_at`, `sync_status` | create, expose, createLocal, update, toggle, archive, delete, bulk operations, forceResync | table, Caddy client, federation | two handlers on one route; a push that fails after the write; compensation; a read-back 500 ms after the push |
| Caddy client (`caddy/client.ts`, `verify.ts`) | none | POST, PATCH, DELETE by `@id`; replace all; read and compare | Caddy | a call that takes effect and whose answer is lost, and that is then sent again; 404 |
| Bootstrap (`caddy/bootstrap.ts`, `api/bootstrap.ts`, `api/routers/caddy.ts`) | none | load the base configuration if there is no server, read all rows, replace all routes | table, Caddy | handlers run meanwhile; an error counts as no server |
| Caddy (external, `docker/s6-overlay`) | running routes | the admin API | | restarts without `--resume`: empty |
| Drift detector and router (`api/automation/drift-detector.ts`, `api/routers/drift.ts`) | `drift_events` | poll every minute, reconcile | table, Caddy | Caddy is read before the table; a repair and a poll overlap |
| Federation client (`federation/client.ts`, `heartbeat.ts`) | identity, socket, timers | dial, handshake, message loop, reconnect | federation server | close, error, timeout and revocation in any order |
| Federation server (`federation/server.ts`) | registry of connections, `federation_nodes` | verify, admit, hello, notify, revoke, monitor | client | a late close of an older socket; a revocation while bcrypt runs |
| Federation configuration (`config-builder.ts`, `config-applier.ts`, `config-cache.ts`) | tables on both sides, cache file | compute, send, apply, cache, mirror local routes | both of the above, bootstrap | overlapping applyConfigs, lost messages, unique domains, crashes |
| Enrollment (`api/federation/enroll`, `routers/nodes.ts`, `federation/client.ts`) | tokens, nodes, keys; identity file | issue, use, revoke | client | check, slow hash and use are separate steps; lost answers; restarts of both |
| Scheduled changes, maintenance, rollback (`automation/scheduled-changes.ts`, `routers/scheduledChanges.ts`, `patchos.ts`, `routeVersions.ts`) | their tables, saved upstreams | schedule, cancel, execute due, enter and leave maintenance, roll back | route handlers, Caddy | a worker and the page run the same change, and read its payload differently |
| Redirect and error hosts, streams (`routers/redirectHosts.ts`, `errorHosts.ts`, `streams.ts`) | their tables | create, update, delete, toggle | Caddy client | share the server whose routes a bootstrap replaces; failures only logged |
| TLS policies, port-80 redirect, renewal (`caddy/client.ts`, `routers/certificates.ts`, `system.ts`) | Caddy's configuration | GET, then PATCH of the list or POST of the whole | Caddy | lost updates; two owners of one server |
| Approvals | their table | approve, reject, expire | | status not looked at |
| Alerts (`alerts/evaluator.ts`), deduplication | last fired | evaluate every minute | notifications | evaluations overlap |
| Billing webhook | events seen, entitlements | receive | | repeated and reordered events |
| Tunnel providers (`tunnels/process-manager.ts`, `manager.ts`, `providers/*.ts`) | child processes, objects in memory, rows | enable, disable, restart, delete; supervision with backoff | child processes | a stop waits while a newer process starts |
| Tunnelled routes (`routers/tunnels.ts`) | `tunnel_routes`, `routes.tunnel_route_id` | expose, switch, withdraw | provider, Caddy client | tables are written after calls to two other programs |
| Docker networks (`automation/network-join.ts`, `routers/networks.ts`) | settings, `discovered_networks` | sync every 30 s and on request | Docker | syncs overlap; settings are read at the start of one |
| Docker discovery | discovered containers | read, promote | Docker | |
| Analytics collector, rate limiter, fail2ban | buffers and counters | tail, flush, count | table | windows |
| Converter (`converter/src`) | a tree, then contexts | parse, walk | | headers and options are handed on through shared objects, before or after their use |
| Importers, route builder, chains | none | pure functions | | |
| Sessions, users, audit, dashboards, integrations, CLI, sites | tables | single statements and HTTP calls | | sequential |

`PROJECT.json` lists every part with its files, and every hazard at its line.

What makes the main parts correct:

* **Routes and Caddy.** With nothing under way on a route, Caddy serves what the row describes;
  where that cannot be promised it is known which events may break it (`Agreement`). A deleted
  route stays out (`GoneStaysGone`). The status `drift` is no false alarm (`NoFalseDrift`).
* **Drift detection.** A route that stays missing is reported, also after somebody marked it
  resolved; a restored one is resolved for good; what is served without a row is reported.
* **Federation link.** The registry never names a dead or foreign socket, a revoked node never
  comes back, a node has one session, and it does come back after faults.
* **Federation configuration.** Local routes survive every configuration, no table has two
  routes of a domain, configurations do not go backwards, and a node ends up with the table of
  the central instance, its Caddy with the table of the node.
* **Enrollment.** A node's identity is one the central instance knows, and a spent token is worth
  nothing.
* **Scheduled changes.** A change is taken up, settled, and never taken up again once it is
  settled and nobody holds it; a due one does not stay pending. Maintenance gives back what it
  replaced.
* **Tunnels.** The sidecar that runs is the one the next request will find; a stopped one ends;
  the tables refer to each other; what has a row is published and served; no two rows share a port.
* **Docker networks.** Syncs converge, and what is left was excluded, or is of the kinds that
  ProxyOS never joins.
* **Converter.** The tree is that of the nesting; only timeouts disappear without a note; a
  `proxy_pass` has options of its own context only, and all of those that the walk hands on; what
  a location says stays in the location.
* **Caddy's other configuration.** What was accepted stays, but for the overlaps the property
  names; no domain has two policies; a stream follows its row.

---------------------------------------------------------------------------------------------

## 2. The modules

| Module | Extends | Stands for |
|---|---|---|
| `RouteSync` | | route handlers, admin client, bootstrap, Caddy |
| `RouteDrift` | `RouteSync` | drift detector and drift router, with everything of `RouteSync` running |
| `Link` | | abstract: the link of a node, as those who send over it see it |
| `FederationLink` | (instances of `Link`) | connections between nodes and the central instance; implements `Link` for every node |
| `FederationConfig` | (instance of `Link`) | configuration of one site: central table, node's table, its Caddy, cache; sends over `Link` |
| `Enrollment` | | how a node gets its identity |
| `Schedule` | | abstract: the life of a scheduled change |
| `RouteChanges` | (instance of `Schedule`) | worker, executeDue, maintenance, rollback and the operator's requests on one route; implements `Schedule` |
| `TunnelProcess` | | one tunnel provider, its object in memory and its sidecar under the supervisor |
| `TunnelRoutes` | | routes exposed through tunnels |
| `DockerNetworks` | | the service that joins Docker networks |
| `NginxConverter` | | parser and walk of the converter |
| `CaddyConfig` | | redirect and error hosts, streams, policies, the port-80 redirect, renewal, reload and bootstrap |
| `RouteSync_proofs` | `RouteDrift`, TLAPS | theorems about `RouteSync` and `RouteDrift` |
| `X_proofs` for `FederationLink`, `FederationConfig`, `Enrollment`, `RouteChanges`, `CaddyConfig`, `TunnelRoutes` | module X, TLAPS | theorems |
| `Periphery_proofs` | `TunnelProcess` (instances of `DockerNetworks` and `NginxConverter`), TLAPS | theorems about the services that act on what runs beside the application, and about the converter's parser |
| `MCX` for every module but `Schedule` and `Link` | module X | values of constants, symmetry |

The modules meet as the components do. `RouteDrift` extends `RouteSync`. `FederationConfig` sends
over `Link`, which `FederationLink` implements: the steps of its link are those of the instance
`Session`. `Enrollment` ends where
`FederationLink` begins, with an identity. `TunnelRoutes` takes a provider to be loaded or not,
`TunnelProcess` says when its sidecar runs. `CaddyConfig` takes a route to be in Caddy or not,
`RouteSync` says what it serves. `RouteChanges` has the row and its Caddy route in small, with
the request of an operator as the other side of `RouteSync`.

Definitions whose comment begins with "Seeded fault" are not used: each is a definition of the
module with a plausible bug, which the listed mutants put in its place to show that a property
would notice.

### RouteSync

`rows`, `enabled`, `data`, `sync` are the table: which ids have a row, the column `enabled`, what
`syncRouteToCaddy` builds from the row (a member of `Data`; `InvalidData` is what
`validateCaddyRoute` refuses), and `sync_status`. `caddy` is the route that each `@id` addresses
in the server, `extra` further routes of the same id, which are listed before it and answer
instead of it: POST appends without a look at the ids. `proc[p]` is a handler: `call` while its request is under way, `reply` with the outcome
before it goes on, `verify` and `verified` for the read-back it leaves behind. `rep` is the one
bootstrap or resync: ServerMissing and LoadBase are the question whether there is a server, which
any error answers with no, and the base configuration it is then given; ReadAll reads the table
and CaddyReplace replaces the routes. Create, CreateLocal, Update, Switch, Enable, Disable,
Archive, Delete, BulkDelete, ApiDelete and ForceResync are the handlers up to the request;
CaddyPost, CaddyPatch, CaddyDelete and CallFails are what becomes of it; CreateReturns,
PushReturns and RemoveReturns are the handlers after the answer, with the compensation and the
table write they make; VerifyRead and VerifyWrite are `verifyAndPersist`.

A call can fail, or take effect and lose its answer (`Faults`): then `doRequest` gives up, or
sends it again, up to `MaxRetries` times (`Applied`, `tries`); a call that fails in the end, but
took effect in an earlier try, has the outcome `lost` (`Refused`). Caddy and the application
restart at any time. `create`, the bootstrap and `caddy.resync` do not build the route that
`syncRouteToCaddy` builds: `CreateForm`, `BootForm` and `ResyncForm` are what they build instead.

Four history variables state the promises: `agreed` (table and Caddy were made to agree and
nothing that excuses a disagreement has happened), `calm` (handlers nobody disturbed), `doubled`
(routes that Caddy was given twice), `repCalm` (routes nobody touched since `rep` read the table). They are assigned by what is observable:
who overlaps whom, restarts, outcomes.

### RouteDrift

Adds `missing` (routes with an open missing_in_caddy event), `orphan` (an open missing_in_db
event), `poll` (the ids Caddy answered, before the table is read) and `repairing` (the event a
reconcile will resolve). `PollRead` and `PollRecord` are the two halves of `poll`; `Reconcile`
is a forced push that resolves the event when it returns, whatever it returned.

### FederationLink

A socket has two ends, `cli[s]` and `srv[s]`, that learn of each other's fate at different
times; `cut` are links that carry nothing any more. `hello`, `welcome` and `revoke` are frames
under way. `cur[n]` is the socket on which the node's `connectOnce` waits, `hb` the nodes whose
heartbeat timer runs. `connections` is the registry of the server. `late` (history) are sockets
dialled after their node was revoked. A client end can outlive its promise (`zombie`: the welcome
timeout has rejected and nobody closes the socket).

`LinkOf(n)` is what all this comes to for those who send: the link of a node is `down` without a
session, `up` while the registry names the open socket of the session, and `deaf` otherwise.
`SessionOf(n)` is `Link` with this state function for its variable, and `LinkIsImplemented` says
that every step is one of `Link` or leaves it alone. A handshake whose socket has lost its
registration meanwhile begins a session that is `deaf` from the start.

### FederationConfig

`central` and `archived` are the central table's rows of the site, `rows` and `local` the node's
table with the rows of origin `local`, `caddy` what the node serves, `cache` its file.
`toNode` and `toCentral` are what the link carries. `link` is that of `Link`: `deaf` when the
central instance does not find the session's socket in its registry. `apply[s]` are the
`applyConfig`s that run: the statements on the table happen in `Receive` (or `ApplyFromCache`),
then the bootstrap reads the table, replaces the routes, or fails, then the cache is written. Every
start of the node runs `ensureSchema`, which gives every row the origin `local`, and no upsert
gives it back (`NodeRestart`, migrations.ts:1081). The domain of an id is a constant function, since no handler changes it; `Blocked` is what the UNIQUE
index refuses.
`epoch` and `seen` are history: how often the central table changed, and as of which change the
node was last sent a configuration.

### Enrollment

`token` is the table of tokens, `rows`, `keys` and `revoked` the nodes on the central instance,
`request[r]` an enrollment it works on, `node` the program of a node, `file` its identity file.
`Reads` is the request up to bcrypt: the candidates are read, the comparison and the hash follow,
and `Enrolls` is everything after the last hash, the three statements without a break.
`StopsWithin` is the same cut by a stop of the central instance. An answer is received, dropped,
or comes when the node that asked is gone; a node that gets none exits, and s6 starts it again.
`made` (history) is the token an identity was made up for.

### Schedule and RouteChanges

`Schedule` says of each change: absent, waiting, taken, settled; settled is for good, and only a
stop of the program puts what was taken back. `RouteChanges` has the row (`enabled`, upstreams,
maintenance with the saved upstreams), what Caddy serves, the column `status` of each change and
the runs: `todo` is the list of due changes a run has read, `cur` the one it carries out, `snap`
what it pushes. `Carries` is the write to the row, `PushArrives` the request, `Records` the
outcome. The list has no ORDER BY, so that a run takes its changes in any order. Worker and
executeDue differ in what they make of a payload and of a failed call: the worker ignores it
and records `done`. The phase of a change in `Schedule` is computed from `status` and from who
holds the change: one that was cancelled while a run holds it is still taken.
`original` (history) are the upstreams at the begin of maintenance, as long as it is set once.

### TunnelProcess

`registered` is the provider's object in `TunnelManager.providers`, `managed` its process in
`ProcessManager.processes`, `proc[p]` every process there ever was with its supervisor (`waiting`
for the child, `sleeping` in its backoff, `done`) and its child (`live`, `killed`, `failed` to
spawn). A request is `preparing` (a token, a login), `settling` (the pause after the spawn),
`leaving` (the provider's own stop) or `stopping`; each of these waits lets other requests run.
Exposing a route (`expose`) and switching one (`switch`) load a provider too; of the latter the row
records nothing. `StopEnds` is the end of the wait of `ProcessManager.stop`: the id is deleted, whatever process it
stands for by then, and a restart starts its new process. After a crash of the application the
children live on.

### TunnelRoutes

`ref` and `rows` are the two tables, `loaded` and `names` the providers in memory, `published`
what they publish, `inner[t]` the routes of Caddy's server of a type, or that there is none.
A request goes through `unpublish`, `unserve` (of an old tunnel), `publish`, `answer`, `probe`
(hasServer), `serve` (PUT of the server) or `post` (a route into it), and writes the tables at its
end. The provider types differ in what publishing means: Cloudflare is sent the whole list of
names, a Tailscale device gets a port, ngrok a tunnel of its own. `StartProvider` loads a provider
on request; `AgentRestarts` replaces the sidecar of one that is loaded, by a restart or after a
crash: the agent of ngrok starts with `--none` and forgets its tunnels, Cloudflare and the daemon
of Tailscale keep what they publish. A row's port is that of its public URL. Host names are left
out: the inner route matches the route's domain (tunnels.ts:78), which is not the name of a
Tailscale device nor one that ngrok assigns. `clash`, `raced`, `hurt` and
`reloaded` (history) record who overlapped and which faults hit, and the properties name them.

### DockerNetworks

`exists`, `others` and `attached` are Docker's networks, which of them have running containers,
and where ProxyOS's container is; `enabled`, `leaveEmpty`, `excluded` the settings, `rows` the
table. A sync has copied the settings (`list`), has the list of networks (`inspect`, one request
each, which may fail and then leaves the entry of the list, without containers), has decided what
to join and to leave (`act`, one request each) and writes a row for every network at its end. The
service identifies its container and creates `homelab-edge` before its timer runs.

### NginxConverter

The parser takes one token at a time and numbers the directives in document order (`kind`,
`parent`). The walk is a stack of the calls of `walkDirectives` and of the loop of `if`, each
with a context; `headers` and `transport` are the objects that contexts share, as the code shares
the array `pendingHeadersUp` of a server with the locations it spreads into. `output` are the
items of the translation with the locations whose handle they are in, `proxied` what each
`proxy_pass` picked up, `noted` and `warned` what the report mentions. Directives whose
translators do the same to this state are one kind.

### CaddyConfig

`conf` is Caddy's configuration: the members of the server `main` (routes and the host),
the policies as sets of subjects, whether there is a server for the stream and one that redirects
port 80. `proc[p]` is a handler as a sequence of requests to the admin API: `pc` the next
one, `x` its object, `todo` the policies still to write, `read` what a GET returned (policies, or
the whole configuration of a renewal). Every request has four endings: answered, rejected by
Caddy, failed without effect, and, for the question whether there is a server, an error that
counts as no. What the handler then does to the tables is part of the step. `Refused` holds the
ids: hosts are stored as `redirect_<domain>` or `error_<domain>` (`config.ts:577`, `:598`) while
PATCH and DELETE ask for `proxyos-route-<id>`.
`owed` (history) is what Caddy accepted and nothing the property names has taken away,
`streamOk` whether the stream's handlers ran one at a time and were answered, `alone` whether
nobody wrote since a handler read.

---------------------------------------------------------------------------------------------

## 3. Runs

| Run | Properties | Instance | Size |
|---|---|---|---|
| `route_sync` | Agreement, GoneStaysGone, NoFalseDrift | 1 route, 2 handlers, 2 configurations, all faults, a call sent again once, unbounded restarts | 1.49 M distinct states |
| `route_drift` | DriftTypeOK, MissingIsReported, RestoredIsResolved, OrphanIsReported | 1 route, 1 handler, 2 configurations (1 invalid), all faults, a call sent again once | 246 k |
| `federation_link` | RegistryAlive, RevokedStaysOut, SingleSession, LinkIsImplemented, NodeReturns, RevokedIsOut | 1 node, 3 sockets, 2 faults | 374 k |
| `federation_config` | LatestIsFollowed, LocalRoutesSurvive, DomainsAreUnique, NeverBackwards, NodeFollows, ServedFollows | 3 routes of 2 domains, 2 applyConfigs, at most 3 of: 2 central operations, 1 local one, 1 fault | 509 k |
| `enrollment` | IdentityIsKnown, SpentTokenEnrollsNobody | 2 nodes, 2 tokens, 2 requests, 3 identities, 2 faults | 394 k |
| `route_changes` | ImplementsSchedule, DueIsSettled, RestoreGivesBack | 2 changes, 2 runs, 2 upstreams, 2 crashes or requests | 448 k |
| `tunnel_process` | SidecarsAreManaged, StatusIsTrue, NoStartWhileStopping, StoppedChildEnds | 3 requests, 1 crash, 3 types | 247 k |
| `tunnel_routes` | RowsMatchRoutes, TunnelIsUp, PortsAreDistinct | 2 routes, a provider of each type, 2 ports, 3 requests, 2 of them at a time, 1 event | 2.89 M |
| `docker_networks` | NetworksConverge, LeavesKnowingly | 2 networks, 2 syncs, 2 events | 119 k |
| `nginx_converter` | ParsedRight, OnlyTimeoutsAreLost, PassGetsItsOptions, LocationsAreKept | 594 sources | 15.8 k |
| `caddy_config` | WhatWasPutStays, OneSubjectOnePolicy, StreamFollowsRow | 2 routes, 2 domains, 2 targets, 2 handlers, 3 operations, unbounded failures and restarts | 670 k |
| `upstreams_stay_usable` | UpstreamsStayUsable | as small as the counterexample allows | violated, see section 7 |

Of the type invariants only `DriftTypeOK`, which also says what an event under repair is held by,
is checked by a run. The others are the first part of the modules' inductive invariants, or follow
from them, and are proved; `TypeOK` of `DockerNetworks` was checked on the instance above.

What they show:

* **`route_sync`.** For one route, all interleavings of two handlers with their read-backs, a
  replaceRoutes with the base configuration before it, and restarts. One route is enough because
  handlers on different routes share only `rep`, which acts on every route alike; two handlers are
  the smallest number that overlap, and `Agreement` excuses the overlap of any two, so that a third
  adds no new case. Two configurations tell an old one from a new one. One repetition of a call
  (the code makes three) gives a route to Caddy twice and puts one back that was deleted meanwhile;
  more add further copies, and the theorems are for any number. Both processes restart as often
  as they like; the state space is finite without a bound.
* **`route_drift`.** The poll with its two steps against handlers, reconciliation, faults and
  restarts. One handler besides the poll suffices: events are per route, and the poll itself is
  the second actor. One valid configuration, because the detector compares ids only, and one that
  is refused, which takes the paths of `RouteSync` without a call and a bootstrap that leaves the
  route out.
* **`federation_link`.** Three sockets let a node dial twice while two older ones still have an
  end somewhere; sockets are used again when both ends are gone, so that histories of any length
  are covered. Two faults (cuts, errors, restarts of either side) among them: one that leaves a
  half-open state of some kind, and one that hits the session after it. Each such state has to
  lead back to a session, so that the run is without symmetry. `LinkIsImplemented` is what
  `FederationConfig` takes for granted of a session, checked on every step of this one.
* **`federation_config`.** Two ids have one domain, so that a domain can be taken on the other
  side or be created again; a third with another domain lets configurations have several routes,
  of which one can be gone. Two applyConfigs overlap, and a start with its cache overlaps the
  users' operations. With three events in all: create, delete, local create, update, restart,
  failed bootstrap and cut in every combination that the single bounds allow. The link itself is
  not bounded: sessions end by deadline and begin again for ever, with or without the first
  configuration, in the registry or not. `NodeFollows` and `ServedFollows` are stated for a
  central table that forces no insert on the node whose domain is taken, because the code stops
  for ever otherwise (section 7), and `NodeFollows` for one that is not empty, because a
  configuration of version 0 removes nothing.
  `LatestIsFollowed` is their safety core, without a "finally": as soon as the configuration of
  the moment is received, the table is the central one. It says so only while no user of the node
  has made a change and nothing restarted, since both may really come between: an update on the
  node of a central row stays until the next configuration, and after a restart what the node had
  is its own: a route that the central instance deletes stays (section 7). `NodeFollows` counts
  those rows as local.
* **`enrollment`.** Two nodes with one token, one node with two, two requests of one node when
  it was restarted while the first was hashed. Three identities: one for each of two requests and
  one for what comes after. Two faults lose an answer and stop the central instance, in
  either order.
* **`route_changes`.** Two changes so that a run has one behind another, one in the form that
  the page writes, one in that which the tests write; two runs (two of the worker, or one of each
  kind) over the same list. A third run would take up what two already hold. `Schedule`
  is checked as a property, so that the instance shows the refinement that the theorem proves.
* **`tunnel_process`.** Three requests are one that starts, one that stops and one that comes
  between; each may start one process, and a process is respawned as often as it crashes. A switch
  of a route is one of them, whose start the row never hears of: `StatusIsTrue` exempts it. A crash
  of the application leaves children behind that nobody knows.
* **`tunnel_routes`.** Two routes at one provider are what shares a server, a list of names and
  the ports; three providers, one of each type, are what switch goes between: one that sends a
  list, one that hands out ports, one whose agent forgets. Three requests expose, switch and
  withdraw, or expose twice and withdraw; two at a time are what overlaps. One event (a restart of
  a program or an agent, a wrong answer, a provider enabled or disabled, a route deleted) at any
  point of it.
* **`docker_networks`.** `homelab-edge` and one other, which is an application's or Docker's
  default bridge. Two overlapping syncs; a third waits behind no resource and adds no other view.
  Two events are a change and a failure, or a change and its withdrawal. The timer goes on
  without bound.
* **`nginx_converter`.** Four shapes (two servers in one `http`; a location with an inner block
  between a server's leaves; a location with an `if` and something in it; a location with a header
  and timeouts of every kind before, between and after one or more `proxy_pass`), each with every choice
  of a few leaves in each place, and short sources with any one token left out.
* **`caddy_config`.** Two routes that share both, one or no domain; two operations that overlap
  and a third that finds what they left. Each operation is a sequence of requests of which each
  can fail, and both programs restart at any time, without bound. The stream may be there at the
  start, so that three operations suffice for it.

Deadlock is checked in the runs of `RouteSync` and `RouteDrift`. In the other runs the system
may stop: the budget of events or operations is used up, the only node is revoked, the source is
translated.

---------------------------------------------------------------------------------------------

## 4. Fairness

`RouteSync` has none: its properties are about safety. The others state only what a timer, the
event loop or the protocol stack does by itself:

* `PollFairness`: the interval of the drift detector fires again and again and a poll is
  answered again and again (strong, since single polls may fail). No fairness for users: nobody
  has to reconcile anything.
* `FederationLink!Fairness`: the reconnect loop dials, timeouts fire when their condition
  lasts, close events are delivered, handlers return. `ReadDeadline` is fair only while the
  session is `Starved` (nothing is sent to it). Faults are never fair; a zombie client end may
  stay for ever.
* `FederationConfig!Fairness`: as above for messages, applyConfigs and handlers; `ReadDeadline`
  of a session in which nothing comes; and strong fairness of `Connect(TRUE)`: of infinitely many
  sessions, not all lose the configuration that follows the welcome, a race between the two
  frames that is not always lost. `BootFails` and cuts are faults with a budget. No user has to
  do anything except that a `createLocal` in progress returns.
* `RouteChanges!Fairness`: the worker's timer goes on ticking, whether or not its last run has
  ended, and a run goes on: a request to Caddy is answered or fails. executeDue, which a page
  calls, is not fair, nor is any user.
* `TunnelProcess!Fairness`: timers fire (the pause after a spawn, the backoff, the five seconds
  of `stop`), requests to other programs end or time out, a child that was killed ends. A child
  that was only asked to end need not, a child that runs need not crash, and nobody has to
  request anything.
* `DockerNetworks!FairSpec`: Docker answers or the request times out, and the timer keeps
  firing. Failures, restarts and changes are events with a budget.

`Enrollment`, `TunnelRoutes`, `NginxConverter` and `CaddyConfig` have none: what they promise is
safety.

---------------------------------------------------------------------------------------------

## 5. Theorems

Assumptions are those on the constants, which TLC evaluates in the runs: `None` is distinct from
the values (and, in `FederationConfig`, from every table), `InvalidData` is part of `Data`, the
forms are functions on `Data`, `Domain` is a function on the ids, the bounds are natural numbers.
In `Enrollment` and `RouteChanges` identities, requests, changes and runs are numbers, because the
first free one is taken, as requests are in `TunnelProcess` and `TunnelRoutes`; in `CaddyConfig`
routes are not targets; in `TunnelRoutes` ports are natural numbers, of which a new tunnel takes
the lowest, and `None` is no set of routes either. Nothing else is assumed; routes, handlers,
nodes, tokens, sockets, slots, providers and ports may be any sets.

* **`RouteSync_proofs`.** `TypeCorrect` (`Spec => []TypeOK`); `DeletedRoutesStayGone`
  (`Spec => GoneStaysGone`), from types and the shape of each kind of step; `AgreementHolds` and
  `DriftIsReal` from the inductive invariant

      IInv == TypeOK /\ Answered /\ Fresh /\ Single /\ CalmAlone /\ CalmEffect
              /\ Agreeing /\ RepCalmEffect

  `Agreeing` alone is not inductive: that a handler leaves agreement behind depends on what its
  call did to Caddy. `CalmAlone` says that a calm handler is the only one on its route and not
  overlapped by a replaceRoutes; `CalmEffect` says, by the call it makes and the outcome it has,
  what row and Caddy look like for a calm handler, while its call has had no effect (`Sent`), when
  it has and is sent again (`Unanswered`), and once it was answered (`Got`); `Single` says that a
  route is in Caddy twice only if it was given it twice; `RepCalmEffect` says the same of a
  replaceRoutes; `Fresh`, that ids not handed out are nowhere, so that a create starts in
  agreement. TLC checked `IInv` before it was proved, with calls repeated twice.

  Of `RouteDrift`, `DriftImplementsSync` (`DriftSpec => Spec`): with the detector and the
  reconciliations running, the variables of `RouteSync` behave as `RouteSync` says, so that its
  theorems hold there too; and `EventsAreHeld` (`DriftSpec => []DriftTypeOK`): an event that a
  reconcile is about to resolve is open and held by a push of that route.
* **`FederationLink_proofs`.** `TypeCorrect`, `RegistryIsAlive`, `RevokedNodesStayOut`,
  `OneSessionAtATime` from

      LinkInv == TypeOK /\ Owned /\ FramesHaveClient /\ RegistryAlive /\ OneWaited
                        /\ HeartbeatInSession /\ LateNotVerified

  `OneWaited` (every client end that is not a zombie is the one its node waits for) carries the
  single session through errors and timeouts; `LateNotVerified` (a socket dialled after the
  revocation is at most at the start of its verification) carries the revocation;
  `FramesHaveClient` and `Owned` rule out frames and registrations of sockets in re-use.

  `LinkIsKept` (`LinkIsImplemented`) and `LinkImplementsLink` (`Spec => SessionOf(n)!Spec` for
  every node n) are the refinement. It needs one more invariant, `Admitted` (a client that was let
  in has been admitted by the server): a registration happens at an admission, so that none can
  hit the socket of a session that has begun. `SessionsStayOut` puts this together for each step:
  a session keeps its socket as long as it lasts, and if the central instance reaches it after a
  step it did so before. `StepOfLink` is the definition of `Link` read off that.
* **`FederationConfig_proofs`.** `TypeCorrect`, `LocalRoutesStay`, `DomainsStayUnique`,
  `ConfigurationsInOrder` and `LinkIsUsed` from

      ConfigInv == TablesOK /\ AppliesOK /\ StartAlone /\ LinkOK /\ FramesOK
                   /\ BornOK /\ InOrder /\ BudgetsOK

  That the node's table has unique domains is inductive only if every configuration that may
  still be applied has them: on its way (`FramesOK`), being applied or in the cache
  (`AppliesOK`). With that, `ApplyRows` on a table where nothing is `Blocked`, and `ApplyRowsStop`
  on any, keep domains unique and every local row (`ApplyRowsKeeps`, `ApplyRowsStopKeeps`).
  `StartAlone` says that the bootstrap of a start runs before the node has dialled, so that
  `ApplyFromCache` finds its slot as it left it; `BornOK`, that nothing is known of an id before it
  is handed out, carries the types across creations; `InOrder`, that what is on its way is sorted
  by age and newer than what was received, carries `NeverBackwards`. TLC checked `ConfigInv` on
  the instance of `federation_config` before it was proved. `LinkIsUsed` (`Spec => Session!Spec`)
  is the other side of `LinkImplementsLink`: whatever node and users do, the link on which
  configurations travel does what the abstract one may, and a restart of the node is an end of it.

  `LatestStaysFollowed` (`LatestIsFollowed`) needs more:

      LatestInv == FirstRun /\ NoLocals /\ FramesLatest /\ LatestIsFollowed

  `FramesLatest` (what is on its way and of the epoch of the moment is the central table) holds
  because every change of the table begins a new epoch, of which nothing is on its way yet
  (`NewEpochKeeps`, with `InOrder`). `ReceiveFollows` is the heart: what `ApplyRows` makes of the
  table is the configuration, since no row is local (`NoLocals`), and if an insert is refused
  (`ApplyRowsStop`) the domain that was in the way is in the way after it. `NoLocals` holds as long
  as there was no restart, which would make every row local. `FirstRun` (no restart,
  no bootstrap of a start) keeps the cache out of it. Every other step leaves both tables alone,
  or counts as a fault or a user's operation (`ApartKeeps`). TLC checked `LatestInv` on the
  instance of the run, too.
* **`RouteChanges_proofs`.** `TypeCorrect`, `RestoreIsRight` and `ScheduleIsImplemented`
  (`Spec => Sched!Spec`) from

      IInv == TypeOK /\ HeldExists /\ ListFits /\ OriginalIsSaved

  The refinement (`NextRefines`) takes one step per action: a run that begins takes up what was
  waiting and nobody held, a record settles a change only if no other run holds it, a
  cancellation of a held change is a stutter, a crash interrupts. `HeldExists` (what a run holds
  was created) keeps absent changes out of it, and `ListFits` (the change a run carries out is on
  its list, and an idle one has none) says when a change ceases to be held. `OriginalIsSaved`
  (what was saved when maintenance began once is what the history remembers) carries
  `RestoreGivesBack`.
* **`Enrollment_proofs`.** `TypeCorrect`, `IdentityIsRight` and `SpentTokenIsWorthless` from

      IInv == TypeOK /\ RowsAreMade /\ FilesAreIssued /\ AnswersAreIssued
                     /\ OnePlace /\ WaitersAndTokens

  `IdentityIsKnown` speaks of files only; an identity comes there from an answer, so that the same
  has to hold of answers (`AnswersAreIssued`), and that no two nodes get one is that it is in one
  place at a time (`OnePlace`: one file or one answer, and one node waits for it).
* **`CaddyConfig_proofs`.** `TypeCorrect`, `PutIsKept`, `PolicyIsUnique` and `StreamIsRight` from

      IInv == TypeOK /\ TablesOK /\ HandlersOK /\ StreamAlone
                     /\ WhatWasPutStays /\ OneSubjectOnePolicy /\ StreamFollowsRow

  `HandlersOK` says what each handler works on, and that what a handler `alone` has read is what
  Caddy holds, so that writing it back loses nothing owed; it also says that what anybody has read
  has unique policies, so that writing it back makes no duplicate. `StreamAlone` says that at most
  one handler of the stream is alone. The lemmas split a request into its parts: what it does to
  the configuration (`EffectFacts`), to what is owed (`OwedFacts`) and to the handler
  (`FollowingFacts`); `RequestKeeps` and `BeginKeeps` put them together for any request and
  for any operation begun.
* **`Periphery_proofs`.** Of `TunnelProcess`, `TypeCorrect`, `StoppingIsFinal` (`NoStartWhileStopping`),
  `SidecarsStayManaged` and `StatusIsRight` from

      IInv == TypeOK /\ Unspawned /\ HasObject /\ ManagedRan /\ StopIsMarked /\ ChildFits
              /\ (Calm => CalmInv)
      CalmInv == Alone /\ Kept /\ ObjectHeld /\ OwnObject /\ ManagedFits /\ StatusFits

  What holds whatever requests overlap comes first: a request that has yet to start its sidecar
  has none (`Unspawned`) and has its object (`HasObject`), a request that waits for a stop has
  marked its target (`StopIsMarked`), and a child fits its supervisor (`ChildFits`). `Calm` is the
  condition under which `SidecarsAreManaged` and `StatusIsTrue` promise anything: no two requests
  overlapped and the application did not crash. Neither is inductive by itself: that a new
  sidecar leaves nobody unmanaged depends on where the request that starts it stands. `Alone`
  (one request runs), `Kept` (whatever is supervised or alive is the managed one), `ManagedFits`
  (what is managed at each wait of the request) and `ObjectHeld` and `OwnObject` (the request
  works on the registered object, which has its token) say it; `StatusFits` says when the row may
  lag behind. Requests that would break one of these end the calm in the same step.

  Of `DockerNetworks`, `NetworksAreLeftRightly` (`LeavesKnowingly`), for a `homelab-edge`
  that is one of the networks, from

      SyncsInv == (types of the settings and syncs) /\ \A s \in Syncs : LeavesExcluded(syncs[s])

  What a sync has still to leave was excluded when it began or is one of Docker's own
  (`LeavesExcluded`). It becomes so when the last inspection returns (`PlannedLeaves`): a network
  the sync has seen itself in is one it would join, unless it is excluded, because both are
  read from the same inspection. TLC checked it on the instance of `docker_networks`.

  Of `NginxConverter`, `ParserIsExact` (`JustWellFormed`, the first conjunct of `ParsedRight`),
  for sources of any number of tokens (`SourcesAssumption`), from

      ParserInv == (types of the parser's variables) /\ Len(nest) = DepthAt(pos)
                   /\ (parsing => ReadRight /\ (phase = "args" <=> AfterWord(pos)))
                   /\ JustWellFormed

  `JustWellFormed` compares how a parse ends with a reading of the source by nesting depth. It
  is inductive only with what ties the parser to that reading at every token: as many blocks are
  open as the depth there, it waits for arguments just after a word, and nothing it has read is
  wrong (`ReadRight`). `DepthAfter` counts one token on, `ParserReads` covers the four actions that
  read, and `ParserStops` the two ways of ending.
* **`TunnelRoutes_proofs`.** `TypeCorrect`, `RowsStayMatched` (`RowsMatchRoutes`), `TunnelsAreUp`
  (`TunnelIsUp`) and `PortsStayDistinct` (`PortsAreDistinct`) from

      IInv == TypeOK /\ RequestsFit /\ RefsFit /\ TunnelHasRow
              /\ RowIsReferred /\ ClashIsNoted /\ RefIsMine
              /\ RowIsServed /\ RaceIsNoted /\ ServerIsNew
              /\ NamesAreLoaded /\ RowsAreLoaded /\ RowsArePublished /\ ListsAreComplete
              /\ NamesDiffer /\ PortIsFree /\ PortsAreNamed

  Each promise needs to know what the requests under way carry. That a row is referred to by its
  route (`RowIsReferred`) rests on the reference a request has read still being there when it
  writes (`RefIsMine`), which holds unless another request dealt with the route meanwhile, and
  then the history has it (`ClashIsNoted`). That a row's route is in the inner server
  (`RowIsServed`) rests on a server being created only where there is none (`ServerIsNew`), unless
  a fault or a second request of the type (`RaceIsNoted`) came between. That it is published rests
  on the list of names a request is about to send to Cloudflare, which replaces the one there,
  having every row's route in it (`ListsAreComplete`). That no two rows have one port of a
  Tailscale device rests on the provider's memory having them all, each route with the port of its
  row (`PortsAreNamed`), and no port twice (`NamesDiffer`), as long as it was never unloaded, and
  on the port a request has chosen staying free until it is written down (`PortIsFree`); that there is a lowest free one, on the well-foundedness of the naturals
  (`LowestFacts`). The four groups are proved apart. Lemmas classify a step by what it does to the
  requests (`OpStep`), to the tables (`TableStep`), to the providers (`WorldStep`) and to the
  ports, so that each group looks only at the kinds of step that disturb it. TLC checked `IInv`
  of both modules on the instances of their runs before it was proved.

---------------------------------------------------------------------------------------------

## 6. Only model-checked, and left out

Liveness (`MissingIsReported`, `RestoredIsResolved`, `OrphanIsReported`, `NodeReturns`,
`RevokedIsOut`, `NodeFollows`, `ServedFollows`, `DueIsSettled`, `StoppedChildEnds`,
`NetworksConverge`) is checked by TLC and not proved: TLAPS does not do liveness under fairness,
nor ENABLED. Induction over data and RECURSIVE operators are beyond its back ends too, so that
the tree that the parser of `NginxConverter` makes (the rest of `ParsedRight`) and what the walk
makes of it (`OnlyTimeoutsAreLost`, `PassGetsItsOptions`, `LocationsAreKept`) are checked on the
sources above only: the former selects from sequences, the latter follow a tree upwards.
Every other property of a passing run is stated by a theorem of section 5. `TypeOK` of
`DockerNetworks` is model-checked and not proved as a whole.

Abstractions in the modules:

* `RouteSync`: one bootstrap or resync at a time. A bulk operation is one handler for each id.
  Whether Caddy takes a second route of an id or refuses it is left open. The repeated calls of a
  replaceRoutes are not counted, because each does what the first did. The seconds between two
  tries are any time at all. The other modules that call Caddy (`FederationConfig`,
  `RouteChanges`, `TunnelRoutes`, `CaddyConfig`) do not repeat calls: there a call takes effect
  once or fails. For a replaceRoutes and a PATCH this says little less, since the last try counts
  and may come at any time; a repeated PUT or POST of `CaddyConfig` and `TunnelRoutes`, which may
  be refused although the first was applied, is not in them. Rows
  with a site, which belong to a node, are in `FederationConfig`. Two rows of one domain are not
  excluded, which only adds behaviours. TLS policies and certificates written by the same
  handlers are left out.
* `RouteDrift`: missing_in_db events are one flag, because the code never resolves them by
  itself. `db.update` calls that are never awaited (`federation/server.ts:143`, `:360`) do
  nothing, since the query builder runs only when awaited.
* `FederationLink`: enrollment is over. What a frame contains is left out.
* `FederationConfig`: one node of the site. The statements of one applyConfig are one step:
  there is no I/O between them. A deletion on the node is one step; `RouteSync` has its two.
  Versions are 1 or 0, as the code writes them. Acknowledgements and what is recorded of them are
  left out, and so are routes that `create` makes on the node itself, which are never sent, and
  the archiving of a site's routes on the central instance, which no configuration looks at.
  `ensureSchema` also makes routes of `site_local` central before it makes every route local: only
  the end of it is in the module.
* `Enrollment`: list and rename operations and the site of a token are left out; that a guess
  does not match a hash is taken for granted.
* `RouteChanges`: one route. Version numbers and their pruning are left out, and so is what an
  operator requests while the application starts. A call to Caddy is taken to be answered some
  time or to fail.
* `TunnelProcess`: one provider, every one with the restart policy `always`; health checks, logs
  and the length of the backoff are left out. `TunnelRoutes`: credentials, host names and the test
  call are left out, and that the POST into an inner server is sent again.
* `DockerNetworks`: the log of events and the list queries are left out.
* `NginxConverter`: the tokenizer, variables, durations, the wording of notes, the emitter of the
  Caddyfile and `stripOpaqueBlocks` are left out.
* `CaddyConfig`: one host and one stream, the subjects of a route never change, and every route
  has TLS. Requests about logging, the tls application, trusted proxies and error pages, TLS
  connection policies, uploaded certificates and a policy without subjects (Cloudflare's
  catch-all) are left out.
* Other callers of `syncRouteToCaddy` (route rules, suggestions)
  are updates from the point of view of `RouteSync`. An update through the public API with
  `enabled: false` pushes the route like any update, so that a disabled route goes on being
  served; `Settles` does not count such a push as one that leaves agreement behind.

Parts with no module are listed in `PROJECT.json` with the reason: single statements on a table,
pure I/O against other products, formatting, floating-point statistics, cryptography, or planned.

---------------------------------------------------------------------------------------------

## 7. Where the code differs from its documentation

The run `upstreams_stay_usable` is the finding of `PROJECT.json`: a scheduled change of upstreams
that executeDue runs is stored encoded twice, after which no route can be built from the row. The
other disagreements are kept as configurations that TLC finds violated; with `-continue` it shows
each sentence of one that has several.

| Configuration | Module | Sentence | What the code does |
|---|---|---|---|
| `MCRouteSyncDocs`, `SyncedMeansMatches` | `MCRouteSync` | docs/getting-started/concepts.md:109 "`synced` \| Caddy config matches the database" | a read-back that finds the route missing, or fails, has no diff, and no diff is recorded as `synced` |
| `MCRouteSyncDocs`, `ForceResyncResolves` | `MCRouteSync` | docs/api/routes-endpoints.md:80 "Forces a re-push of a route to Caddy, resolving drift." | a forced re-push is a PATCH, which Caddy refuses for a route it has not |
| `MCRouteSyncDocs`, `BootstrapRestores` | `MCRouteSync` | README.md:112 "On every startup ProxyOS rebuilds the full Caddy config from the database." | the bootstrap copies a subset of the columns: rate limits, allow lists and basic authentication are gone |
| `MCDeletedIsOut` | `MCRouteSync` | docs/changelog.md:10 "All route mutations ... now wrap DB writes and Caddy pushes atomically" | the POST of a create that is sent again after a lost answer adds the route a second time; the delete that follows removes one, is acknowledged, and the other is still served |
| `MCDivergenceIsReported` | `MCRouteDrift` | docs/reference/features.md:56 "Detect when Caddy config diverges from DB" | the detector compares ids only |
| `MCSessionIsRegistered` | `MCFederationLink` | README.md:193 "Persistent WebSocket connection — config diffs pushed in real time" | the late close of an old socket removes the registration of the new one |
| `MCCentralReachesNode` | `MCFederationConfig` | docs/how-to/federation.md:57 "Each node applies the received config to its local Caddy instance immediately." | inserts before deletes and a unique domain leave a node for ever on the configuration before a route was deleted and created again |
| `MCTokenIsUsedOnce` | `MCEnrollment` | docs/deployment/multi-host-federation.md:38 "can only be used once" | the token is looked up before bcrypt and marked after it; two requests at once both succeed |
| `MCDisableTakesEffect` | `MCRouteChanges` | packages/api/src/\_\_tests\_\_/features.test.ts:137 "past-scheduled disable actually disables the route" | buildCaddyRoute does not look at `enabled`: a scheduled disable pushes the route like any update |
| `MCDisableUnpublishes` | `MCTunnelRoutes` | routers/tunnels.ts:422 "Tunnel exposure removed from route" | disable passes the route's id where the provider knows another reference (manager.ts:56) |
| `MCEmptyNetworksAreLeft` | `MCDockerNetworks` | settings/networks/page.tsx:152 "Disconnect from networks when they no longer have running containers" | a network that ProxyOS has joined counts as one with containers, its own being among them |
| `MCOnlyEmptyNetworksAreLeft` | `MCDockerNetworks` | the same sentence | told to leave networks, it leaves one of the kinds it never joins (the default bridge, an overlay or swarm network) with the containers that run in it (network-join.ts:84-92, 272) |
| `MCConverterComments`, `StandaloneIsWrapped` | `MCNginxConverter` | walker.ts:163 "If the inner walk produced anything that wasn't already wrapped in a handle, wrap it now." | what stands beside a `proxy_pass` or an inner block is not wrapped in its location |
| `MCConverterComments`, `OptionsInAnyOrder` | `MCNginxConverter` | walker.ts:22-25 a `proxy_pass` picks up its options "regardless of source order" | `keepalive_timeout` and `send_timeout` are not among the modifiers: after the `proxy_pass` they are lost |
| `MCConverterComments`, `OrphansAreReported` | `MCNginxConverter` | walker.ts:55-57 what no `proxy_pass` consumed is surfaced as a warning | the warning looks at the pending headers only, never at the timeouts |
| `MCDeletedHostIsGone` | `MCCaddyConfig` | docs/api/scopes-and-permissions.md:18 "Create, update, delete redirect hosts, error hosts, and streams" | the DELETE asks for an id that is never there and takes its absence for success |
| `MCForceHttpsHolds` | `MCCaddyConfig` | apps/web/src/app/settings/page.tsx:393 "Redirect all HTTP traffic (port 80) to HTTPS automatically." | an update of a route without forceSSL removes the server that the setting has put there |

What else came to light while the modules were written, and is in them:

* **Routes.** An answer that is lost has the client send the same call again
  (`client.ts:302-315`). A create that is repeated leaves a second route of its id in front of the
  first; or Caddy refuses it, and the row is dropped while the route is served. A delete, of
  another handler, that comes between the two tries of a create is undone by the second. An error
  in answer to hasServer has a bootstrap or resync load the base configuration, and if what
  follows fails Caddy is left without routes.
* **Federation.** A configuration of version 0, which is what the last deletion leaves, removes
  nothing: the node keeps its last routes until one that is not empty comes. Every start of a node
  sets the origin of all its rows to `local` (`migrations.ts:1081`), and the upsert of a
  configuration does not set it back (`config-applier.ts:35-44`): a route that the central
  instance deletes stays for ever on every node that was restarted since it had the route.
* **Enrollment.** A lost answer, or a stop of the central instance between the statements, burns
  the token; the node restarts with 401 for ever.
* **Scheduled changes.** Overlapping runs carry a change out twice
  (docs/stability-audit.md:1524 says "already-applied changes are not re-applied"); a payload
  in the other program's form fails or writes something else; a rollback scheduled by the page
  has no payload; a rollback never calls Caddy. Maintenance set twice saves the maintenance
  upstreams over the original ones (docs/changelog.md:98).
* **Tunnel providers.** Two overlapping restarts leave a sidecar nobody manages. A failed start
  stays registered, so that `enable` then does nothing. A program that is not installed leaves
  its supervisor waiting for an exit. Switching a route to a provider that is disabled starts its
  sidecar and records nothing (`tunnels.ts:460-464`): the row says `stopped` until it is restarted.
  A failed Tailscale login leaves its daemon running with the
  row unchanged.
* **Tunnelled routes.** A failed GET in hasServer, or two first tunnels of a type at once, replace
  the inner server and with it the routes in it. Tailscale ports are never given back, but
  forgotten when the provider is unloaded: the next route gets the first one again, and two live
  routes share it (`tailscale.ts:178-185`). A Cloudflare object made anew publishes only the names
  it is told of from then on. ngrok's agent comes back from a crash or a restart without its
  tunnels, of which the rows stay. Routes of Tailscale and of automatic ngrok tunnels answer
  nobody, because the inner route matches the domain of the route (`tunnels.ts:78`).
* **Docker networks.** Without `leave_empty` an excluded network is never left. A service that was disabled
  or could not identify its container at the start stays off until the next. The row of a network
  that was removed stays.
* **Converter.** A header of one server is handed through a shared array to the `proxy_pass` of
  another server in the same `http` block, although walker.ts:61 reports that it has no effect.
  Headers, notes and warnings of what stands in an `if` are lost. The read and keepalive timeouts
  are noted as translated, also where no `proxy_pass` gets them.
* **Caddy's other configuration.** Updates of hosts always fail with 404, after the row was
  changed; a redirect host deleted and created again keeps answering the old target. An update of
  a stream opens it though it is switched off, and PUT refuses one that is open, so that an update
  never takes effect. A second PUT of the port-80 redirect or of a custom certificate is answered
  with 409. A bootstrap brings back neither hosts nor streams nor policies, and one that is told
  by an error that there is no server loads the base configuration over everything. A route that
  shares an alias takes the other's policy away. A renewal writes back the configuration it read,
  and undoes what was pushed meanwhile. docs/features/redirect-hosts.md:50 and
  docs/api/routes-endpoints.md:94 say domains are unique across routes and hosts; nothing looks
  across the tables.
* **Discovery.** A promoted container becomes a row that is never pushed.

---------------------------------------------------------------------------------------------

## 8. Plan

Done: `RouteSync`, `RouteDrift`, `FederationLink`, `FederationConfig`, in this order, because
everything else in the program writes through the first, and the link carries the last; then
`TunnelProcess`, `TunnelRoutes`, `NginxConverter`, `DockerNetworks`, `RouteChanges` with its
abstract `Schedule`, `Enrollment` and `CaddyConfig`, and `Link` between the two modules of the
federation. Every safety property that a run checks is proved, but for those of `NginxConverter`,
of which only that the parser accepts what is well-formed and nothing else is.

Next, in this order:

1. `FederationConfig`: acknowledgements (`server.ts:272` records a failed configuration as
   applied), versions above 1, the timers that every configuration starts again
   (`config-applier.ts:65`).
2. `BillingWebhook`: entitlements under repeated, reordered and failing events (`route.ts:31`),
   against an abstract specification in which the latest event counts.
3. `Approvals` (`approvals.ts:81`: status not looked at) and `RouteVersions`
   (`routeVersions.ts:20`: the number is read and written in two steps).
4. `CaddyConfig`: uploaded certificates and TLS connection policies.
5. `AlertEvaluator` and deduplication: cooldown under overlapping evaluations
   (`evaluator.ts:58`); the windows of the rate limiter and of the ban counters; the buckets of the
   analytics collector; the reconnect timer of the legacy agent.
6. Pure algorithms against reference definitions: the diff and classification of
   `caddy/verify.ts`, the tokenizer of the converter, the chain builder.
