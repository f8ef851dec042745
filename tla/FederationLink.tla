---------------------------- MODULE FederationLink ---------------------------
(****************************************************************************)
(* The WebSocket between a federation node and the central instance:        *)
(* FederationClient (packages/federation/src/client.ts) dials, shakes hands,*)
(* runs a session and reconnects; FederationServer (server.ts) verifies the *)
(* upgrade, keeps the registry `connections` and revokes nodes.             *)
(*                                                                          *)
(* A socket has two ends that learn of each other's state by frames and     *)
(* close events, so they may disagree for long; a link that is cut delivers *)
(* nothing any more, and an end that does not send does not find out.       *)
(* What the frames carry is left out: configurations are another module's.  *)
(****************************************************************************)
EXTENDS Naturals

CONSTANTS
    Nodes,         \* enrolled nodes
    Socks,         \* sockets alive at one time; an id is used again when both ends are gone
    MaxFaults,     \* how many faults and spurious timeouts may happen
    None           \* no socket, no node

ASSUME SocksAssumption  == None \notin Nodes \cup Socks
ASSUME FaultsAssumption == MaxFaults \in Nat

VARIABLES
    owner,         \* the node that dialled a socket
    cli,           \* the client's end of a socket
    srv,           \* the server's end of a socket
    cut,           \* sockets whose link delivers nothing any more
    hello,         \* sockets with a hello on its way to the server
    welcome,       \* sockets with a welcome on its way to the client
    revoke,        \* sockets with a cmd.revoke on its way to the client
    cur,           \* the socket connectOnce is waiting on, None in backoff
    stopped,       \* nodes whose client was told to stop
    hb,            \* nodes whose heartbeat timer runs (one per process, not per socket)
    connections,   \* the server's registry: the socket of a node
    revoked,       \* nodes whose status and keys are revoked in the table
    faults,        \* faults so far
    late           \* history: sockets dialled by a node that was already revoked

clientVars == <<cur, stopped, hb>>
serverVars == <<connections, revoked>>
frames     == <<hello, welcome, revoke>>
vars       == <<owner, cli, srv, cut, frames, clientVars, serverVars, faults, late>>

\* dialing, hello: connectOnce waits for open, for the welcome.   session: the
\* message loop runs.  closing: close() was called in a session.  erring: the
\* session's error handler ran, its close handler will.  zombie: open, and
\* nobody listens.  dead: closed, and connectOnce still waits for the welcome.
ClientEnds == {"none", "dialing", "hello", "session", "closing", "erring", "zombie", "dead"}

\* upgrade: verifyClient is to run; comparing: it waits for bcrypt.
ServerEnds == {"none", "upgrade", "comparing", "open", "closing"}

Init ==
    /\ owner = [s \in Socks |-> None]
    /\ cli = [s \in Socks |-> "none"] /\ srv = [s \in Socks |-> "none"]
    /\ cut = {} /\ hello = {} /\ welcome = {} /\ revoke = {}
    /\ cur = [n \in Nodes |-> None] /\ stopped = {} /\ hb = {}
    /\ connections = [n \in Nodes |-> None] /\ revoked = {}
    /\ faults = 0 /\ late = {}

Fault == faults < MaxFaults /\ faults' = faults + 1

\* The client's end of a socket is gone, with all frames of the socket.
DropClientEnd(s) ==
    /\ cli' = [cli EXCEPT ![s] = "none"]
    /\ hello' = hello \ {s} /\ welcome' = welcome \ {s} /\ revoke' = revoke \ {s}
    /\ cut' = IF srv[s] = "none" THEN cut \ {s} ELSE cut

------------------------------------------------------------------------------
(* The client.                                                              *)

\* connectOnce: runWithReconnect came back from its backoff.
Dial(n, s) ==
    /\ cur[n] = None /\ n \notin stopped
    /\ cli[s] = "none" /\ srv[s] = "none"
    /\ owner' = [owner EXCEPT ![s] = n]
    /\ cli' = [cli EXCEPT ![s] = "dialing"]
    /\ srv' = [srv EXCEPT ![s] = "upgrade"]
    /\ cur' = [cur EXCEPT ![n] = s]
    /\ late' = IF n \in revoked THEN late \cup {s} ELSE late \ {s}
    /\ UNCHANGED <<cut, frames, stopped, hb, serverVars, faults>>

\* The upgrade is refused, the link is dead, or handshakeTimeout fires although
\* the server is only slow (a fault).
DialFails(s) ==
    /\ cli[s] = "dialing"
    /\ IF srv[s] = "none" \/ s \in cut THEN UNCHANGED faults ELSE Fault
    /\ DropClientEnd(s)
    /\ cur' = [cur EXCEPT ![owner[s]] = None]
    /\ UNCHANGED <<owner, srv, stopped, hb, serverVars, late>>

\* 'open': handshake sends hello and waits for the welcome.
ClientOpen(s) ==
    /\ cli[s] = "dialing" /\ srv[s] \in {"open", "closing"} /\ s \notin cut
    /\ cli' = [cli EXCEPT ![s] = "hello"]
    /\ hello' = hello \cup {s}
    /\ UNCHANGED <<owner, srv, cut, welcome, revoke, clientVars, serverVars, faults, late>>

\* The welcome arrives in time: runMessageLoop and startHeartbeat.
RecvWelcome(s) ==
    /\ cli[s] = "hello" /\ s \in welcome /\ s \notin cut
    /\ cli' = [cli EXCEPT ![s] = "session"]
    /\ welcome' = welcome \ {s}
    /\ hb' = hb \cup {owner[s]}
    /\ UNCHANGED <<owner, srv, cut, hello, revoke, cur, stopped, serverVars, faults, late>>

\* waitForMessage gives up, because nothing comes or because it is late (a
\* fault).  connectOnce rejects and leaves the socket as it is.
WelcomeTimeout(s) ==
    /\ cli[s] \in {"hello", "dead"} /\ cur[owner[s]] = s
    /\ IF cli[s] = "dead" \/ s \in cut \/ (srv[s] # "open" /\ s \notin welcome)
       THEN UNCHANGED faults ELSE Fault
    /\ IF cli[s] = "dead" THEN DropClientEnd(s)
       ELSE cli' = [cli EXCEPT ![s] = "zombie"] /\ UNCHANGED <<cut, frames>>
    /\ cur' = [cur EXCEPT ![owner[s]] = None]
    /\ UNCHANGED <<owner, srv, stopped, hb, serverVars, late>>

\* cmd.revoke: only the message loop understands it; stop() closes the socket.
RecvRevoke(s) ==
    /\ s \in revoke /\ s \notin welcome /\ s \notin cut
    /\ cli[s] \notin {"none", "dialing", "dead"}
    /\ revoke' = revoke \ {s}
    /\ IF cli[s] \in {"session", "closing"}
       THEN /\ stopped' = stopped \cup {owner[s]}
            /\ cli' = IF cli[s] = "session" THEN [cli EXCEPT ![s] = "closing"] ELSE cli
       ELSE UNCHANGED <<stopped, cli>>
    /\ UNCHANGED <<owner, srv, cut, hello, welcome, cur, hb, serverVars, faults, late>>

\* Seeded fault: the deadline rejects connectOnce without waiting for 'close'.
ReadDeadlineRejects(s) ==
    /\ cli[s] = "session"
    /\ cli' = [cli EXCEPT ![s] = "closing"]
    /\ cur' = [cur EXCEPT ![owner[s]] = None]
    /\ UNCHANGED <<owner, srv, cut, frames, stopped, hb, serverVars, faults, late>>

\* Nothing was received for 2 heartbeat intervals.  The server sends nothing but
\* configurations, pings and the revocation, so this happens to healthy sessions
\* too, in which nobody changes the configuration.
ReadDeadline(s) ==
    /\ cli[s] = "session"
    /\ cli' = [cli EXCEPT ![s] = "closing"]
    /\ UNCHANGED <<owner, srv, cut, frames, clientVars, serverVars, faults, late>>

\* Seeded fault: the session's error handler does not reject.
ClientErrorIgnored(s) ==
    /\ cli[s] \in {"hello", "session", "closing"}
    /\ IF s \in cut THEN UNCHANGED faults ELSE Fault
    /\ cli' = [cli EXCEPT ![s] = IF @ = "hello" THEN "zombie" ELSE "erring"]
    /\ hb' = IF cli[s] = "hello" THEN hb ELSE hb \ {owner[s]}
    /\ UNCHANGED <<owner, srv, cut, frames, cur, stopped, serverVars, late>>

\* 'error': the session's handler stops the heartbeat and rejects connectOnce;
\* during the handshake connectOnce's own handler rejects.
ClientError(s) ==
    /\ cli[s] \in {"hello", "session", "closing"}
    /\ IF s \in cut THEN UNCHANGED faults ELSE Fault
    /\ cli' = [cli EXCEPT ![s] = IF @ = "hello" THEN "zombie" ELSE "erring"]
    /\ hb' = IF cli[s] = "hello" THEN hb ELSE hb \ {owner[s]}
    /\ cur' = [cur EXCEPT ![owner[s]] = None]
    /\ UNCHANGED <<owner, srv, cut, frames, stopped, serverVars, late>>

\* The close frame of the server, or its answer to ours, is behind every frame
\* it sent before.
CloseReceived(s) ==
    \/ srv[s] = "none" /\ s \notin welcome \cup revoke
    \/ srv[s] = "closing" /\ s \notin welcome \cup revoke /\ cli[s] # "closing"

\* 'close'.  The handler of a session that is over stops the heartbeat of the
\* process, which may by then be that of the next session.
ClientClose(s) ==
    /\ cli[s] \in {"hello", "session", "closing", "erring", "zombie"}
    /\ IF CloseReceived(s) \/ s \in cut \/ cli[s] = "erring" THEN UNCHANGED faults
       ELSE cli[s] = "closing" /\ Fault        \* ws gives up waiting for the answer
    /\ IF cli[s] = "hello"
       THEN cli' = [cli EXCEPT ![s] = "dead"] /\ UNCHANGED <<cut, frames>>
       ELSE DropClientEnd(s)
    /\ hb' = IF cli[s] \in {"session", "closing", "erring"} THEN hb \ {owner[s]} ELSE hb
    /\ cur' = IF cli[s] \in {"session", "closing"}
              THEN [cur EXCEPT ![owner[s]] = None] ELSE cur
    /\ UNCHANGED <<owner, srv, stopped, serverVars, late>>

\* The node's process is killed and comes back.
NodeRestart(n) ==
    /\ Fault
    /\ LET mine == {s \in Socks : owner[s] = n}
       IN  /\ cli' = [s \in Socks |-> IF s \in mine THEN "none" ELSE cli[s]]
           /\ hello' = hello \ mine /\ welcome' = welcome \ mine /\ revoke' = revoke \ mine
           /\ cut' = cut \ {s \in mine : srv[s] = "none"}
    /\ cur' = [cur EXCEPT ![n] = None]
    /\ stopped' = stopped \ {n} /\ hb' = hb \ {n}
    /\ UNCHANGED <<owner, srv, serverVars, late>>

------------------------------------------------------------------------------
(* The server.                                                              *)

\* Seeded fault: keys are compared whatever the status of their node.
VerifyClientKeysOnly(s) ==
    /\ srv[s] = "upgrade" /\ s \notin cut
    /\ srv' = [srv EXCEPT ![s] = "comparing"]
    /\ UNCHANGED <<owner, cli, cut, frames, clientVars, serverVars, faults, late>>

\* verifyClient, up to bcrypt: the status of the node and its live keys.
VerifyClient(s) ==
    /\ srv[s] = "upgrade" /\ s \notin cut
    /\ srv' = [srv EXCEPT ![s] = IF owner[s] \in revoked THEN "none" ELSE "comparing"]
    /\ UNCHANGED <<owner, cli, cut, frames, clientVars, serverVars, faults, late>>

\* The upgrade request is lost with its link, or ws finds its socket gone.
UpgradeLost(s) ==
    /\ srv[s] \in {"upgrade", "comparing"}
    /\ s \in cut \/ cli[s] = "none"
    /\ srv' = [srv EXCEPT ![s] = "none"]
    /\ cut' = IF cli[s] = "none" THEN cut \ {s} ELSE cut
    /\ UNCHANGED <<owner, cli, frames, clientVars, serverVars, faults, late>>

\* bcrypt matched: onConnection replaces whatever the registry had.  A client that
\* gave up meanwhile is still admitted if the server has not heard of it.
Admit(s) ==
    /\ srv[s] = "comparing" /\ (cli[s] # "none" \/ s \in cut)
    /\ srv' = [srv EXCEPT ![s] = "open"]
    /\ connections' = [connections EXCEPT ![owner[s]] = s]
    /\ UNCHANGED <<owner, cli, cut, frames, clientVars, revoked, faults, late>>

\* handleHello answers with the welcome; on a closing socket send does nothing.
RecvHello(s) ==
    /\ s \in hello /\ s \notin cut /\ srv[s] \in {"open", "closing"}
    /\ hello' = hello \ {s}
    /\ welcome' = IF srv[s] = "open" THEN welcome \cup {s} ELSE welcome
    /\ UNCHANGED <<owner, cli, srv, cut, revoke, clientVars, serverVars, faults, late>>

\* Seeded fault: a close leaves the registry to the next connection.
OnDisconnectLeaves(s) ==
    /\ srv' = [srv EXCEPT ![s] = "none"]
    /\ hello' = hello \ {s}
    /\ cut' = IF cli[s] = "none" THEN cut \ {s} ELSE cut
    /\ UNCHANGED <<owner, cli, welcome, revoke, clientVars, serverVars, faults, late>>

\* Seeded fault: a close puts another open socket of the node into the registry.
OnDisconnectFallsBack(s) ==
    /\ srv' = [srv EXCEPT ![s] = "none"]
    /\ \E t \in {None} \cup {q \in Socks \ {s} : owner[q] = owner[s] /\ srv[q] = "open"} :
          connections' = [connections EXCEPT ![owner[s]] = t]
    /\ hello' = hello \ {s}
    /\ cut' = IF cli[s] = "none" THEN cut \ {s} ELSE cut
    /\ UNCHANGED <<owner, cli, welcome, revoke, clientVars, revoked, faults, late>>

\* 'close' on the server's end: onDisconnect deletes the node's entry, whichever
\* socket the registry has for the node.
OnDisconnect(s) ==
    /\ srv' = [srv EXCEPT ![s] = "none"]
    /\ connections' = [connections EXCEPT ![owner[s]] = None]
    /\ hello' = hello \ {s}
    /\ cut' = IF cli[s] = "none" THEN cut \ {s} ELSE cut
    /\ UNCHANGED <<owner, cli, welcome, revoke, clientVars, revoked, faults, late>>

\* The client closed, or did not answer a close of ours for 30 s.
ServerClose(s) ==
    /\ \/ srv[s] = "closing"
       \/ srv[s] = "open" /\ s \notin cut
            /\ cli[s] \in {"none", "closing", "erring", "dead"}
    /\ OnDisconnect(s)

\* A cut link makes itself known, or does not.
ServerCloseCut(s) == srv[s] = "open" /\ s \in cut /\ OnDisconnect(s)

\* Seeded fault: any frame or ping resets the silence, the heartbeat does not count.
SilentLink(s) == s \in cut

\* A node says nothing for 90 s: its link is dead or its heartbeat is off.
Silent(s) ==
    \/ s \in cut
    \/ cli[s] \in {"none", "closing", "erring", "zombie", "dead"}
    \/ cli[s] = "session" /\ owner[s] \notin hb

\* monitorHeartbeats looks at the sockets in the registry only.
MonitorHeartbeats(n) ==
    /\ connections[n] # None
    /\ srv[connections[n]] = "open" /\ Silent(connections[n])
    /\ srv' = [srv EXCEPT ![connections[n]] = "closing"]
    /\ UNCHANGED <<owner, cli, cut, frames, clientVars, serverVars, faults, late>>

\* revoke: tell the registered socket, close it, revoke keys and status.
Revoke(n) ==
    /\ n \notin revoked
    /\ revoked' = revoked \cup {n}
    /\ LET s == connections[n]
       IN  IF s # None /\ srv[s] = "open"
           THEN /\ revoke' = IF cli[s] = "none" THEN revoke ELSE revoke \cup {s}
                /\ srv' = [srv EXCEPT ![s] = "closing"]
           ELSE UNCHANGED <<revoke, srv>>
    /\ UNCHANGED <<owner, cli, cut, hello, welcome, clientVars, connections, faults, late>>

\* The central process is killed and comes back with an empty registry.
CentralRestart ==
    /\ Fault
    /\ srv' = [s \in Socks |-> "none"]
    /\ connections' = [n \in Nodes |-> None]
    /\ hello' = {}
    /\ cut' = {s \in Socks : cli[s] # "none"}
    /\ UNCHANGED <<owner, cli, welcome, revoke, clientVars, revoked, late>>

\* A link stops delivering, both ways, and without a sign to either end.
Cut(s) ==
    /\ Fault
    /\ s \notin cut /\ (cli[s] # "none" \/ srv[s] # "none")
    /\ cut' = cut \cup {s}
    /\ UNCHANGED <<owner, cli, srv, frames, clientVars, serverVars, late>>

------------------------------------------------------------------------------
ClientStep(s) ==
    \/ DialFails(s) \/ ClientOpen(s) \/ RecvWelcome(s) \/ WelcomeTimeout(s)
    \/ RecvRevoke(s) \/ ReadDeadline(s) \/ ClientError(s) \/ ClientClose(s)

ServerStep(s) ==
    \/ VerifyClient(s) \/ UpgradeLost(s) \/ Admit(s) \/ RecvHello(s)
    \/ ServerClose(s) \/ ServerCloseCut(s)

Next ==
    \/ \E n \in Nodes, s \in Socks : Dial(n, s)
    \/ \E s \in Socks : ClientStep(s) \/ ServerStep(s) \/ Cut(s)
    \/ \E n \in Nodes : NodeRestart(n) \/ MonitorHeartbeats(n) \/ Revoke(n)
    \/ CentralRestart

Spec == Init /\ [][Next]_vars

\* The server sends no configurations: notifyConfigChange looks for nodes that are
\* not revoked, and for their sockets in the registry.
Starved(s) == s \in cut \/ owner[s] \in revoked \/ connections[owner[s]] # s

\* The loops of the client, its timers and those of the server go on; frames and
\* close frames on a link that is not cut arrive.  Nothing else is owed: a cut
\* link may stay unnoticed (ServerCloseCut, ClientClose of a zombie) for ever, and
\* configurations may keep a registered session alive.
Fairness ==
    /\ \A n \in Nodes : /\ WF_vars(\E s \in Socks : Dial(n, s))
                        /\ WF_vars(MonitorHeartbeats(n))
    /\ \A s \in Socks :
          /\ WF_vars(DialFails(s) /\ UNCHANGED faults)
          /\ WF_vars(WelcomeTimeout(s) /\ UNCHANGED faults)
          /\ WF_vars(ClientOpen(s)) /\ WF_vars(RecvWelcome(s)) /\ WF_vars(RecvRevoke(s))
          /\ WF_vars(ReadDeadline(s) /\ Starved(s))
          /\ WF_vars(cli[s] # "zombie" /\ ClientClose(s) /\ UNCHANGED faults)
          /\ WF_vars(VerifyClient(s)) /\ WF_vars(UpgradeLost(s)) /\ WF_vars(Admit(s))
          /\ WF_vars(RecvHello(s)) /\ WF_vars(ServerClose(s))

FairSpec == Spec /\ Fairness

------------------------------------------------------------------------------
(* Correctness.                                                             *)

\* The variables have their types.
TypeOK ==
    /\ owner \in [Socks -> Nodes \cup {None}]
    /\ cli \in [Socks -> ClientEnds] /\ srv \in [Socks -> ServerEnds]
    /\ cut \subseteq Socks /\ hello \subseteq Socks
    /\ welcome \subseteq Socks /\ revoke \subseteq Socks /\ late \subseteq Socks
    /\ cur \in [Nodes -> Socks \cup {None}]
    /\ stopped \subseteq Nodes /\ hb \subseteq Nodes /\ revoked \subseteq Nodes
    /\ connections \in [Nodes -> Socks \cup {None}]
    /\ faults \in 0..MaxFaults

\* The registry never names a socket that is gone or another node's: what the
\* server sends to a node goes to a socket this node dialled and whose close
\* event is still to come, after any replacements, stale closes and restarts.
RegistryAlive ==
    \A n \in Nodes : connections[n] # None =>
        /\ owner[connections[n]] = n
        /\ srv[connections[n]] \in {"open", "closing"}

\* A node revoked before it dialled is never admitted, registered, welcomed or
\* sent anything.
RevokedStaysOut ==
    \A s \in late :
        /\ srv[s] \notin {"comparing", "open", "closing"}
        /\ s \notin welcome
        /\ \A n \in Nodes : connections[n] # s

\* A node runs one session at a time, on the socket its reconnect loop waits for,
\* and its heartbeat runs only in a session: no path through errors, late
\* closes, timeouts and redials leaves two message loops or an orphaned timer.
SingleSession ==
    /\ \A s \in Socks : cli[s] \in {"session", "closing"} => cur[owner[s]] = s
    /\ \A n \in hb : cur[n] # None /\ cli[cur[n]] \in {"session", "closing"}

\* The node is in a session and the server knows.
Connected(n) ==
    /\ cur[n] # None /\ cli[cur[n]] = "session"
    /\ connections[n] = cur[n] /\ srv[cur[n]] = "open" /\ cur[n] \notin cut

\* A node that is not revoked is in a registered session again and again, however
\* the finitely many faults fall.
NodeReturns == \A n \in Nodes : [](n \notin revoked) => []<>Connected(n)

\* A revoked node is out of the registry for good eventually, also when it was
\* being verified while it was revoked.
RevokedIsOut == \A n \in Nodes : n \in revoked ~> [](connections[n] = None)

(* What FederationConfig takes from this module.                            *)

\* The link of a node as those who send configurations see it: in a session, what
\* the central instance sends to the node goes to that session's open socket.
LinkOf(n) ==
    IF cur[n] = None \/ cli[cur[n]] # "session" THEN "down"
    ELSE IF connections[n] = cur[n] /\ srv[cur[n]] = "open" THEN "up"
    ELSE "deaf"

SessionOf(n) == INSTANCE Link WITH link <- LinkOf(n)

\* The link of every node is what Link describes: a session out of the central
\* instance's reach, by a late close, a late admission or a restart, never comes
\* back into it; the node has to end it and dial again.
LinkIsImplemented ==
    [][\A n \in Nodes : SessionOf(n)!Next \/ UNCHANGED LinkOf(n)]_vars

(* What the documentation says and the code does not do.                    *)

\* README.md: "Persistent WebSocket connection - config diffs pushed in real
\* time".  A node in a session on a live link is in the registry, so that
\* notifyConfigChange reaches it.
SessionIsRegistered ==
    \A s \in Socks :
        cli[s] = "session" /\ srv[s] = "open" /\ s \notin cut
            => connections[owner[s]] = s
==============================================================================
