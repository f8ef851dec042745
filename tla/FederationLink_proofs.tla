------------------------ MODULE FederationLink_proofs ------------------------
(****************************************************************************)
(* Safety of FederationLink for any number of nodes, sockets and faults.    *)
(****************************************************************************)
EXTENDS FederationLink, TLAPS

USE SocksAssumption, FaultsAssumption

\* A socket with an end belongs to a node.
Owned == \A s \in Socks : cli[s] # "none" \/ srv[s] # "none" => owner[s] \in Nodes

\* A frame on its way to or from a client has this client's end.
FramesHaveClient == \A s \in hello \cup welcome \cup revoke : cli[s] # "none"

\* What the reconnect loop waits on.
Waited == {"dialing", "hello", "session", "closing", "dead"}

\* The reconnect loop of a node waits on its one socket that is not given up.
OneWaited ==
    /\ \A s \in Socks : cli[s] \in Waited => cur[owner[s]] = s
    /\ \A n \in Nodes : cur[n] # None => owner[cur[n]] = n /\ cli[cur[n]] \in Waited

HeartbeatInSession == \A n \in hb : cur[n] # None /\ cli[cur[n]] \in {"session", "closing"}

\* A socket dialled after the revocation gets no further than the status check.
LateNotVerified ==
    \A s \in late : owner[s] \in revoked /\ srv[s] \in {"none", "upgrade"} /\ s \notin welcome

\* The inductive invariant.
LinkInv ==
    /\ TypeOK /\ Owned /\ FramesHaveClient /\ RegistryAlive
    /\ OneWaited /\ HeartbeatInSession /\ LateNotVerified

LEMMA LinkInit == Init => LinkInv
BY DEF Init, LinkInv, TypeOK, Owned, FramesHaveClient, RegistryAlive, OneWaited, HeartbeatInSession,
   LateNotVerified, ClientEnds, ServerEnds, Waited

------------------------------------------------------------------------------
(* What the two ends leave alone.                                           *)

LEMMA ClientFrame ==
    ASSUME NEW s \in Socks, ClientStep(s)
    PROVE  UNCHANGED <<owner, srv, serverVars, late>>
BY DEF ClientStep, DialFails, ClientOpen, RecvWelcome, WelcomeTimeout, RecvRevoke, ReadDeadline,
       ClientError, ClientClose

LEMMA ServerFrame ==
    ASSUME NEW s \in Socks, ServerStep(s)
    PROVE  UNCHANGED <<owner, cli, clientVars, revoked, late>>
BY DEF ServerStep, VerifyClient, UpgradeLost, Admit, RecvHello, ServerClose, ServerCloseCut,
       OnDisconnect, serverVars, clientVars

\* A step of the client changes the end of one socket, which is not "none".
LEMMA ClientEnd ==
    ASSUME LinkInv, NEW s \in Socks, ClientStep(s)
    PROVE  /\ cli[s] # "none" /\ owner[s] \in Nodes
           /\ \E e \in ClientEnds : cli' = [cli EXCEPT ![s] = e]
<1>1. cli[s] # "none"
  BY DEF ClientStep, DialFails, ClientOpen, RecvWelcome, WelcomeTimeout, RecvRevoke, ReadDeadline,
         ClientError, ClientClose, LinkInv, FramesHaveClient
<1>2. \E e \in ClientEnds : cli' = [cli EXCEPT ![s] = e]
  BY DEF ClientStep, DialFails, ClientOpen, RecvWelcome, WelcomeTimeout, RecvRevoke, ReadDeadline,
         ClientError, ClientClose, DropClientEnd, ClientEnds, LinkInv, TypeOK
<1>. QED
  BY <1>1, <1>2 DEF LinkInv, Owned

\* A step of the server changes the end of one socket, which is not "none".
LEMMA ServerEnd ==
    ASSUME LinkInv, NEW s \in Socks, ServerStep(s)
    PROVE  /\ srv[s] # "none" /\ owner[s] \in Nodes
           /\ \E e \in ServerEnds : srv' = [srv EXCEPT ![s] = e]
<1>1. srv[s] # "none"
  BY DEF ServerStep, VerifyClient, UpgradeLost, Admit, RecvHello, ServerClose, ServerCloseCut
<1>2. \E e \in ServerEnds : srv' = [srv EXCEPT ![s] = e]
  BY DEF ServerStep, VerifyClient, UpgradeLost, Admit, RecvHello, ServerClose, ServerCloseCut,
         OnDisconnect, ServerEnds, LinkInv, TypeOK
<1>. QED
  BY <1>1, <1>2 DEF LinkInv, Owned

------------------------------------------------------------------------------
(* The client's steps keep the invariant.                                   *)

LEMMA ClientKeepsTypes ==
    ASSUME LinkInv, NEW s \in Socks, ClientStep(s)
    PROVE  TypeOK' /\ Owned' /\ RegistryAlive'
<1>. TypeOK /\ owner[s] \in Nodes /\ cli[s] # "none"
  BY ClientEnd DEF LinkInv
<1>1. owner' \in [Socks -> Nodes \cup {None}] /\ srv' \in [Socks -> ServerEnds]
  BY ClientFrame DEF TypeOK
<1>2. cli' \in [Socks -> ClientEnds]
  BY ClientEnd DEF TypeOK
<1>3. /\ cut' \subseteq Socks /\ hello' \subseteq Socks
      /\ welcome' \subseteq Socks /\ revoke' \subseteq Socks
  BY DEF ClientStep, DialFails, ClientOpen, RecvWelcome, WelcomeTimeout, RecvRevoke, ReadDeadline,
         ClientError, ClientClose, DropClientEnd, frames, TypeOK
<1>4. cur' \in [Nodes -> Socks \cup {None}] /\ stopped' \subseteq Nodes /\ hb' \subseteq Nodes
  BY DEF ClientStep, DialFails, ClientOpen, RecvWelcome, WelcomeTimeout, RecvRevoke, ReadDeadline,
         ClientError, ClientClose, clientVars, TypeOK
<1>5. UNCHANGED <<connections, revoked, late>>
  BY ClientFrame DEF serverVars
<1>6. faults' \in 0..MaxFaults
  BY DEF ClientStep, DialFails, ClientOpen, RecvWelcome, WelcomeTimeout, RecvRevoke, ReadDeadline,
         ClientError, ClientClose, Fault, TypeOK
<1>7. TypeOK'
  BY <1>1, <1>2, <1>3, <1>4, <1>5, <1>6 DEF TypeOK
<1>8. Owned'
  BY ClientFrame, ClientEnd DEF LinkInv, Owned, TypeOK
<1>9. RegistryAlive'
  BY ClientFrame DEF LinkInv, RegistryAlive, serverVars
<1>. QED
  BY <1>7, <1>8, <1>9

LEMMA ClientKeepsFrames ==
    ASSUME LinkInv, NEW s \in Socks, ClientStep(s)
    PROVE  FramesHaveClient' /\ LateNotVerified'
<1>. TypeOK /\ FramesHaveClient /\ LateNotVerified
  BY DEF LinkInv
<1>1. CASE DropClientEnd(s)
  <2>1. FramesHaveClient'
    BY <1>1 DEF DropClientEnd, FramesHaveClient, TypeOK
  <2>2. welcome' \subseteq welcome
    BY <1>1 DEF DropClientEnd
  <2>. QED
    BY <2>1, <2>2, ClientFrame DEF LateNotVerified, serverVars
<1>2. CASE ~DropClientEnd(s)
  <2>1. /\ welcome' \subseteq welcome /\ revoke' \subseteq revoke /\ hello' \subseteq hello \cup {s}
        /\ cli'[s] # "none" /\ \A x \in Socks \ {s} : cli'[x] = cli[x]
    BY <1>2 DEF ClientStep, DialFails, ClientOpen, RecvWelcome, WelcomeTimeout, RecvRevoke,
       ReadDeadline, ClientError, ClientClose, frames, TypeOK
  <2>2. FramesHaveClient'
    BY <2>1 DEF FramesHaveClient, TypeOK
  <2>. QED
    BY <2>1, <2>2, ClientFrame DEF LateNotVerified, serverVars
<1>. QED
  BY <1>1, <1>2

\* Either the loop keeps waiting on the socket, or it stops waiting and the
\* socket is one nobody waits on.
LEMMA ClientKeepsSession ==
    ASSUME LinkInv, NEW s \in Socks, ClientStep(s)
    PROVE  OneWaited' /\ HeartbeatInSession'
<1>. DEFINE n == owner[s]
<1>. TypeOK /\ OneWaited /\ HeartbeatInSession /\ n \in Nodes /\ None \notin Socks
  BY ClientEnd DEF LinkInv
<1>. PICK e \in ClientEnds : cli' = [cli EXCEPT ![s] = e]
  BY ClientEnd
<1>1. cli'[s] = e /\ (\A x \in Socks \ {s} : cli'[x] = cli[x]) /\ owner' = owner
  BY ClientFrame DEF TypeOK
<1>2. \/ cli[s] \in Waited /\ e \in Waited /\ cur' = cur
      \/ cli[s] \in Waited /\ e \notin Waited /\ cur' = [cur EXCEPT ![n] = None]
      \/ cli[s] \notin Waited /\ e \notin Waited /\ cur' = cur
  BY <1>1 DEF ClientStep, DialFails, ClientOpen, RecvWelcome, WelcomeTimeout, RecvRevoke, ReadDeadline,
     ClientError, ClientClose, DropClientEnd, Waited, TypeOK, clientVars
<1>3. OneWaited'
  <2>1. ASSUME NEW x \in Socks, cli'[x] \in Waited
        PROVE  cur'[owner'[x]] = x
    <3>1. CASE x = s
      BY <1>1, <1>2, <2>1, <3>1 DEF OneWaited
    <3>2. CASE x # s
      <4>1. cli[x] \in Waited /\ cur[owner[x]] = x
        BY <1>1, <2>1, <3>2 DEF OneWaited
      <4>2. cli[s] \in Waited => owner[x] # n
        BY <3>2, <4>1 DEF OneWaited
      <4>3. owner[x] \in Nodes
        BY <4>1 DEF LinkInv, Owned, Waited
      <4>. QED
        BY <1>1, <1>2, <4>1, <4>2, <4>3 DEF TypeOK
    <3>. QED
      BY <3>1, <3>2
  <2>2. ASSUME NEW m \in Nodes, cur'[m] # None
        PROVE  owner'[cur'[m]] = m /\ cli'[cur'[m]] \in Waited
    <3>1. cur'[m] = cur[m] /\ cur[m] \in Socks
      BY <1>2, <2>2 DEF TypeOK
    <3>2. owner[cur[m]] = m /\ cli[cur[m]] \in Waited
      BY <2>2, <3>1 DEF OneWaited
    <3>3. cur[m] = s => e \in Waited
      BY <1>2, <2>2, <3>1, <3>2 DEF TypeOK
    <3>. QED
      BY <1>1, <3>1, <3>2, <3>3
  <2>. QED
    BY <2>1, <2>2 DEF OneWaited
<1>4. \/ hb' = hb \ {n}
      \/ hb' = hb /\ cli[s] \notin {"session", "closing"}
      \/ hb' \subseteq hb \cup {n} /\ e \in {"session", "closing"} /\ cli[s] \in Waited /\ cur' = cur
  BY <1>1 DEF ClientStep, DialFails, ClientOpen, RecvWelcome, WelcomeTimeout, RecvRevoke, ReadDeadline,
     ClientError, ClientClose, DropClientEnd, Waited, TypeOK, clientVars
<1>5. HeartbeatInSession'
  BY <1>1, <1>2, <1>4 DEF OneWaited, HeartbeatInSession, TypeOK, Waited
<1>. QED
  BY <1>3, <1>5

------------------------------------------------------------------------------
(* The server's steps keep the invariant.                                   *)

LEMMA ServerKeepsTypes ==
    ASSUME LinkInv, NEW s \in Socks, ServerStep(s)
    PROVE  TypeOK' /\ Owned' /\ FramesHaveClient'
<1>. TypeOK /\ owner[s] \in Nodes /\ srv[s] # "none"
  BY ServerEnd DEF LinkInv
<1>1. UNCHANGED <<owner, cli, cur, stopped, hb, revoked, late>>
  BY ServerFrame DEF clientVars
<1>2. srv' \in [Socks -> ServerEnds]
  BY ServerEnd DEF TypeOK
<1>3. /\ cut' \subseteq Socks /\ hello' \subseteq hello /\ revoke' = revoke
      /\ welcome' \subseteq welcome \cup {s} /\ (welcome' # welcome => s \in hello)
      /\ faults' = faults
  BY DEF ServerStep, VerifyClient, UpgradeLost, Admit, RecvHello, ServerClose, ServerCloseCut,
         OnDisconnect, TypeOK, frames
<1>4. connections' \in [Nodes -> Socks \cup {None}]
  BY DEF ServerStep, VerifyClient, UpgradeLost, Admit, RecvHello, ServerClose, ServerCloseCut,
         OnDisconnect, TypeOK, serverVars
<1>5. TypeOK'
  BY <1>1, <1>2, <1>3, <1>4 DEF TypeOK
<1>6. Owned'
  BY <1>1, ServerEnd DEF LinkInv, Owned, TypeOK
<1>7. FramesHaveClient'
  BY <1>1, <1>3 DEF LinkInv, FramesHaveClient
<1>. QED
  BY <1>5, <1>6, <1>7

\* An entry is written with the socket that is opened, and dropped with any
\* socket of the node that is closed.
LEMMA ServerKeepsRegistry ==
    ASSUME LinkInv, NEW s \in Socks, ServerStep(s)
    PROVE  RegistryAlive'
<1>. DEFINE n == owner[s]
<1>. TypeOK /\ RegistryAlive /\ n \in Nodes /\ owner' = owner
  BY ServerEnd, ServerFrame DEF LinkInv
<1>1. CASE VerifyClient(s) \/ UpgradeLost(s)
  <2>1. srv[s] \notin {"open", "closing"} /\ connections' = connections
    BY <1>1 DEF VerifyClient, UpgradeLost, serverVars
  <2>2. \A x \in Socks \ {s} : srv'[x] = srv[x]
    BY ServerEnd DEF TypeOK
  <2>. QED
    BY <2>1, <2>2 DEF RegistryAlive, TypeOK
<1>2. CASE Admit(s)
  BY <1>2 DEF Admit, RegistryAlive, TypeOK
<1>3. CASE RecvHello(s)
  BY <1>3 DEF RecvHello, RegistryAlive, serverVars
<1>4. CASE OnDisconnect(s)
  BY <1>4 DEF OnDisconnect, RegistryAlive, TypeOK
<1>. QED
  BY <1>1, <1>2, <1>3, <1>4 DEF ServerStep, ServerClose, ServerCloseCut

\* The status is looked up before a key is compared.
LEMMA ServerKeepsRevoked ==
    ASSUME LinkInv, NEW s \in Socks, ServerStep(s)
    PROVE  LateNotVerified'
<1>. TypeOK /\ LateNotVerified /\ UNCHANGED <<owner, revoked, late>>
  BY ServerFrame DEF LinkInv
<1>1. CASE VerifyClient(s) \/ UpgradeLost(s)
  BY <1>1 DEF VerifyClient, UpgradeLost, LateNotVerified, TypeOK, frames
<1>2. CASE Admit(s) \/ RecvHello(s) \/ ServerClose(s) \/ ServerCloseCut(s)
  <2>1. s \notin late
    BY <1>2 DEF Admit, RecvHello, ServerClose, ServerCloseCut, LateNotVerified
  <2>2. welcome' \subseteq welcome \cup {s} /\ \A x \in Socks \ {s} : srv'[x] = srv[x]
    BY <1>2, ServerEnd DEF Admit, RecvHello, ServerClose, ServerCloseCut, OnDisconnect, frames, TypeOK
  <2>. QED
    BY <2>1, <2>2 DEF LateNotVerified, TypeOK
<1>. QED
  BY <1>1, <1>2 DEF ServerStep

------------------------------------------------------------------------------
(* The other steps.                                                         *)

\* A socket is dialled anew when both ends of its last use are gone.
LEMMA DialKeeps ==
    ASSUME LinkInv, NEW n \in Nodes, NEW s \in Socks, Dial(n, s)
    PROVE  LinkInv'
<1>. TypeOK /\ UNCHANGED <<cut, hello, welcome, revoke, stopped, hb, connections, revoked, faults>>
  BY DEF LinkInv, Dial, frames, serverVars
<1>1. /\ cur[n] = None /\ cli[s] = "none" /\ srv[s] = "none"
      /\ owner' = [owner EXCEPT ![s] = n] /\ cli' = [cli EXCEPT ![s] = "dialing"]
      /\ srv' = [srv EXCEPT ![s] = "upgrade"] /\ cur' = [cur EXCEPT ![n] = s]
      /\ late' = IF n \in revoked THEN late \cup {s} ELSE late \ {s}
  BY DEF Dial
<1>2. TypeOK'
  BY <1>1 DEF TypeOK, ClientEnds, ServerEnds
<1>3. Owned' /\ FramesHaveClient'
  BY <1>1 DEF LinkInv, Owned, FramesHaveClient, TypeOK
<1>4. RegistryAlive'
  BY <1>1 DEF LinkInv, RegistryAlive, TypeOK
<1>5. OneWaited'
  BY <1>1 DEF LinkInv, OneWaited, TypeOK, Waited
<1>6. HeartbeatInSession'
  BY <1>1 DEF LinkInv, HeartbeatInSession, TypeOK
<1>7. LateNotVerified'
  <2>1. s \notin welcome
    BY <1>1 DEF LinkInv, FramesHaveClient
  <2>. QED
    BY <1>1, <2>1 DEF LinkInv, LateNotVerified, TypeOK
<1>. QED
  BY <1>2, <1>3, <1>4, <1>5, <1>6, <1>7 DEF LinkInv

LEMMA NodeRestartKeeps ==
    ASSUME LinkInv, NEW n \in Nodes, NodeRestart(n)
    PROVE  LinkInv'
<1>. TypeOK /\ UNCHANGED <<owner, srv, connections, revoked, late>>
  BY DEF LinkInv, NodeRestart, serverVars
<1>1. /\ cli' = [s \in Socks |-> IF owner[s] = n THEN "none" ELSE cli[s]]
      /\ hello' = {s \in hello : owner[s] # n} /\ welcome' = {s \in welcome : owner[s] # n}
      /\ revoke' = {s \in revoke : owner[s] # n}
      /\ cur' = [cur EXCEPT ![n] = None] /\ hb' = hb \ {n}
  BY DEF NodeRestart, TypeOK
<1>2. TypeOK'
  BY <1>1 DEF NodeRestart, Fault, TypeOK, ClientEnds
<1>3. Owned' /\ FramesHaveClient' /\ RegistryAlive'
  BY <1>1 DEF LinkInv, Owned, FramesHaveClient, RegistryAlive, TypeOK
<1>4. OneWaited'
  BY <1>1 DEF LinkInv, OneWaited, TypeOK, Waited
<1>5. HeartbeatInSession'
  BY <1>1 DEF LinkInv, OneWaited, HeartbeatInSession, TypeOK
<1>6. LateNotVerified'
  BY <1>1 DEF LinkInv, LateNotVerified, TypeOK
<1>. QED
  BY <1>2, <1>3, <1>4, <1>5, <1>6 DEF LinkInv

LEMMA CentralKeeps ==
    ASSUME LinkInv, (\E n \in Nodes : MonitorHeartbeats(n) \/ Revoke(n)) \/ CentralRestart
    PROVE  LinkInv'
<1>. TypeOK /\ UNCHANGED <<owner, cli, cur, stopped, hb, late>>
  BY DEF LinkInv, MonitorHeartbeats, Revoke, CentralRestart, clientVars
<1>1. /\ srv' \in [Socks -> ServerEnds] /\ connections' \in [Nodes -> Socks \cup {None}]
      /\ hello' \subseteq hello /\ welcome' = welcome /\ cut' \subseteq Socks
      /\ revoked \subseteq revoked' /\ revoked' \subseteq Nodes /\ revoke' \subseteq Socks
      /\ faults' \in 0..MaxFaults
  BY DEF MonitorHeartbeats, Revoke, CentralRestart, TypeOK, ServerEnds, Fault, frames, serverVars
<1>2. \A s \in revoke' \ revoke : cli[s] # "none"
  BY DEF MonitorHeartbeats, Revoke, CentralRestart, frames
<1>3. /\ \A s \in Socks : \/ srv'[s] = srv[s]
                          \/ srv'[s] = "none"
                          \/ srv[s] = "open" /\ srv'[s] = "closing"
      /\ connections' = connections \/ connections' = [x \in Nodes |-> None]
      /\ connections' = connections =>
            \A s \in Socks : srv'[s] = srv[s] \/ (srv[s] = "open" /\ srv'[s] = "closing")
                               \/ connections = [x \in Nodes |-> None]
  BY DEF MonitorHeartbeats, Revoke, CentralRestart, serverVars, TypeOK
<1>4. TypeOK'
  BY <1>1 DEF TypeOK
<1>5. Owned' /\ FramesHaveClient'
  BY <1>1, <1>2, <1>3 DEF LinkInv, Owned, FramesHaveClient
<1>6. RegistryAlive'
  BY <1>1, <1>3 DEF LinkInv, RegistryAlive, TypeOK
<1>7. OneWaited' /\ HeartbeatInSession'
  BY DEF LinkInv, OneWaited, HeartbeatInSession
<1>8. LateNotVerified'
  BY <1>1, <1>3 DEF LinkInv, LateNotVerified, TypeOK
<1>. QED
  BY <1>4, <1>5, <1>6, <1>7, <1>8 DEF LinkInv

LEMMA CutKeeps ==
    ASSUME LinkInv, NEW s \in Socks, Cut(s)
    PROVE  LinkInv'
<1>1. TypeOK'
  BY DEF Cut, Fault, LinkInv, TypeOK, frames, clientVars, serverVars
<1>. QED
  BY <1>1 DEF Cut, LinkInv, Owned, FramesHaveClient, RegistryAlive, OneWaited, HeartbeatInSession,
     LateNotVerified, frames, clientVars, serverVars

LEMMA LinkStep == LinkInv /\ [Next]_vars => LinkInv'
<1>. SUFFICES ASSUME LinkInv, [Next]_vars PROVE LinkInv'
  OBVIOUS
<1>1. ASSUME NEW s \in Socks, ClientStep(s)
      PROVE  LinkInv'
  BY <1>1, ClientKeepsTypes, ClientKeepsFrames, ClientKeepsSession DEF LinkInv
<1>2. ASSUME NEW s \in Socks, ServerStep(s)
      PROVE  LinkInv'
  <2>1. OneWaited' /\ HeartbeatInSession'
    BY <1>2, ServerFrame DEF LinkInv, OneWaited, HeartbeatInSession, clientVars
  <2>. QED
    BY <1>2, <2>1, ServerKeepsTypes, ServerKeepsRegistry, ServerKeepsRevoked DEF LinkInv
<1>3. CASE \E n \in Nodes, s \in Socks : Dial(n, s)
  BY <1>3, DialKeeps
<1>4. CASE \E s \in Socks : Cut(s)
  BY <1>4, CutKeeps
<1>5. CASE \E n \in Nodes : NodeRestart(n)
  BY <1>5, NodeRestartKeeps
<1>6. CASE (\E n \in Nodes : MonitorHeartbeats(n) \/ Revoke(n)) \/ CentralRestart
  BY <1>6, CentralKeeps
<1>7. CASE UNCHANGED vars
  BY <1>7 DEF LinkInv, TypeOK, Owned, FramesHaveClient, RegistryAlive, OneWaited, HeartbeatInSession,
     LateNotVerified, vars, frames, clientVars, serverVars
<1>. QED
  BY <1>1, <1>2, <1>3, <1>4, <1>5, <1>6, <1>7 DEF Next

------------------------------------------------------------------------------

\* In every reachable state the variables have their types.
THEOREM TypeCorrect == Spec => []TypeOK
<1>1. LinkInv => TypeOK
  BY DEF LinkInv
<1>. QED
  BY <1>1, LinkInit, LinkStep, PTL DEF Spec

\* The server's registry never names a socket that is gone or another node's.
THEOREM RegistryIsAlive == Spec => []RegistryAlive
<1>1. LinkInv => RegistryAlive
  BY DEF LinkInv
<1>. QED
  BY <1>1, LinkInit, LinkStep, PTL DEF Spec

\* A node that was revoked before it dialled is not admitted, registered or welcomed.
THEOREM RevokedNodesStayOut == Spec => []RevokedStaysOut
<1>1. LinkInv => RevokedStaysOut
  BY DEF LinkInv, LateNotVerified, RegistryAlive, RevokedStaysOut, TypeOK
<1>. QED
  BY <1>1, LinkInit, LinkStep, PTL DEF Spec

\* A node never runs two message loops, nor a heartbeat without a session.
THEOREM OneSessionAtATime == Spec => []SingleSession
<1>1. LinkInv => SingleSession
  BY DEF LinkInv, OneWaited, HeartbeatInSession, SingleSession, Waited, TypeOK
<1>. QED
  BY <1>1, LinkInit, LinkStep, PTL DEF Spec

------------------------------------------------------------------------------
(* The link that the configurations are sent over.                          *)

\* A client that was let in has been admitted.
Admitted ==
    \A s \in Socks : cli[s] \notin {"none", "dialing"} => srv[s] \notin {"upgrade", "comparing"}

LEMMA AdmittedStep == LinkInv /\ Admitted /\ [Next]_vars => Admitted'
<1>. SUFFICES ASSUME LinkInv, Admitted, [Next]_vars PROVE Admitted'
  OBVIOUS
<1>. TypeOK
  BY DEF LinkInv
<1>1. ASSUME NEW s \in Socks, ClientStep(s)
      PROVE  Admitted'
  <2>1. \A t \in Socks : cli'[t] = cli[t] \/ t = s
    BY <1>1, ClientEnd DEF TypeOK
  <2>2. cli[s] = "dialing" => cli'[s] \in {"none", "dialing"} \/ srv[s] \in {"open", "closing"}
    BY <1>1 DEF ClientStep, DialFails, ClientOpen, RecvWelcome, WelcomeTimeout, RecvRevoke, ReadDeadline,
       ClientError, ClientClose, DropClientEnd, TypeOK
  <2>3. cli[s] # "none" /\ srv' = srv
    BY <1>1, ClientEnd, ClientFrame
  <2>. QED
    BY <2>1, <2>2, <2>3 DEF Admitted
<1>2. ASSUME NEW s \in Socks, ServerStep(s)
      PROVE  Admitted'
  <2>1. cli' = cli /\ \A t \in Socks : srv'[t] = srv[t] \/ t = s
    BY <1>2, ServerFrame, ServerEnd DEF TypeOK
  <2>2. srv'[s] \in {srv[s], "none", "open"} \/ (srv[s] = "upgrade" /\ srv'[s] = "comparing")
    BY <1>2 DEF ServerStep, VerifyClient, UpgradeLost, Admit, RecvHello, ServerClose, ServerCloseCut,
       OnDisconnect, TypeOK
  <2>. QED
    BY <2>1, <2>2 DEF Admitted
<1>3. CASE \E n \in Nodes, s \in Socks : Dial(n, s)
  BY <1>3 DEF Dial, Admitted, TypeOK
<1>4. CASE \E n \in Nodes : NodeRestart(n)
  BY <1>4 DEF NodeRestart, Admitted
<1>5. CASE \E n \in Nodes : MonitorHeartbeats(n) \/ Revoke(n)
  BY <1>5 DEF MonitorHeartbeats, Revoke, Admitted, TypeOK
<1>6. CASE CentralRestart
  BY <1>6 DEF CentralRestart, Admitted
<1>7. CASE UNCHANGED <<cli, srv>>
  BY <1>7 DEF Admitted
<1>. QED
  BY <1>1, <1>2, <1>3, <1>4, <1>5, <1>6, <1>7 DEF Next, vars, Cut

\* A session is on one socket from its beginning to its end, and what the central
\* instance sends does not find its way back to it.
InSession(n) == cur[n] # None /\ cli[cur[n]] = "session"
Reached(n)   == connections[n] = cur[n] /\ srv[cur[n]] = "open"

StaysOut(n)  == InSession(n) /\ InSession(n)' => cur'[n] = cur[n] /\ (Reached(n)' => Reached(n))

LEMMA SessionsStayOut ==
    ASSUME LinkInv, Admitted, Next, NEW n \in Nodes
    PROVE  StaysOut(n)
<1>. TypeOK
  BY DEF LinkInv
<1>1. ASSUME NEW s \in Socks, ClientStep(s)
      PROVE  StaysOut(n)
  <2>1. UNCHANGED <<srv, connections>>
    BY <1>1, ClientFrame DEF serverVars
  <2>2. cur'[n] \in {cur[n], None}
    BY <1>1, ClientEnd DEF ClientStep, DialFails, ClientOpen, RecvWelcome, WelcomeTimeout, RecvRevoke,
       ReadDeadline, ClientError, ClientClose, clientVars, TypeOK
  <2>. QED
    BY <2>1, <2>2 DEF StaysOut, InSession, Reached
<1>2. ASSUME NEW s \in Socks, ServerStep(s)
      PROVE  StaysOut(n)
  <2>1. UNCHANGED <<cli, cur>> /\ owner[s] \in Nodes
    BY <1>2, ServerFrame, ServerEnd DEF clientVars
  <2>2. CASE Admit(s)
    <3>1. cur[n] = s => cli[s] # "session"
      BY <2>2 DEF Admit, Admitted
    <3>2. /\ \A t \in Socks \ {s} : srv'[t] = srv[t]
          /\ connections'[n] \in {connections[n], s}
      BY <2>1, <2>2 DEF Admit, TypeOK
    <3>. QED
      BY <2>1, <3>1, <3>2 DEF StaysOut, InSession, Reached, TypeOK
  <2>3. CASE ~Admit(s)
    <3>1. /\ \A t \in Socks : srv'[t] = "open" => srv[t] = "open"
          /\ connections'[n] \in {connections[n], None}
      BY <1>2, <2>1, <2>3 DEF ServerStep, VerifyClient, UpgradeLost, RecvHello, ServerClose,
         ServerCloseCut, OnDisconnect, TypeOK, serverVars
    <3>. QED
      BY <2>1, <3>1 DEF StaysOut, InSession, Reached, TypeOK
  <2>. QED
    BY <2>2, <2>3
<1>3. ASSUME NEW m \in Nodes, NEW s \in Socks, Dial(m, s)
      PROVE  StaysOut(n)
  <2>1. /\ cli'[s] = "dialing" /\ cur'[m] = s /\ connections' = connections
        /\ \A t \in Socks \ {s} : srv'[t] = srv[t]
        /\ n # m => cur'[n] = cur[n]
    BY <1>3 DEF Dial, TypeOK, serverVars
  <2>. QED
    BY <2>1 DEF StaysOut, InSession, Reached, TypeOK
<1>4. CASE \E m \in Nodes : NodeRestart(m)
  <2>1. UNCHANGED <<srv, connections>> /\ cur'[n] \in {cur[n], None}
    BY <1>4 DEF NodeRestart, serverVars, TypeOK
  <2>. QED
    BY <2>1 DEF StaysOut, InSession, Reached
<1>5. CASE (\E m \in Nodes : MonitorHeartbeats(m) \/ Revoke(m)) \/ CentralRestart
  <2>1. /\ cur' = cur /\ connections'[n] \in {connections[n], None}
        /\ \A t \in Socks : srv'[t] = "open" => srv[t] = "open"
    BY <1>5 DEF MonitorHeartbeats, Revoke, CentralRestart, clientVars, serverVars, TypeOK
  <2>. QED
    BY <2>1 DEF StaysOut, InSession, Reached, TypeOK
<1>6. CASE \E s \in Socks : Cut(s)
  BY <1>6 DEF Cut, clientVars, serverVars, StaysOut, InSession, Reached
<1>. QED
  BY <1>1, <1>2, <1>3, <1>4, <1>5, <1>6 DEF Next

\* Every step is a step of the abstract link of every node, or leaves it as it is.
LEMMA StepOfLink ==
    ASSUME LinkInv, Admitted, [Next]_vars, NEW n \in Nodes
    PROVE  SessionOf(n)!Next \/ UNCHANGED LinkOf(n)
<1>1. LinkOf(n) = IF ~InSession(n) THEN "down" ELSE IF Reached(n) THEN "up" ELSE "deaf"
  BY DEF LinkOf, InSession, Reached
<1>2. LinkOf(n)' = IF ~InSession(n)' THEN "down" ELSE IF Reached(n)' THEN "up" ELSE "deaf"
  BY DEF LinkOf, InSession, Reached
<1>3. CASE Next
  <2>1. StaysOut(n)
    BY <1>3, SessionsStayOut
  <2>. QED
    BY <1>1, <1>2, <2>1 DEF StaysOut, SessionOf!Next, SessionOf!Begin, SessionOf!Deafen, SessionOf!End
<1>4. CASE UNCHANGED vars
  BY <1>4 DEF vars, clientVars, serverVars, LinkOf
<1>. QED
  BY <1>3, <1>4

\* A session that the central instance lost sight of, by the close of an old socket, an
\* old socket that is admitted late, a missed heartbeat, a revocation or a restart, is
\* out of its reach until the node has ended it (onDisconnect, onConnection,
\* monitorHeartbeats): the link is what FederationConfig sends over.
THEOREM LinkIsKept == Spec => LinkIsImplemented
<1>1. Init => Admitted
  BY DEF Init, Admitted
<1>2. LinkInv /\ Admitted /\ [Next]_vars
        => [\A n \in Nodes : SessionOf(n)!Next \/ UNCHANGED LinkOf(n)]_vars
  BY StepOfLink
<1>. QED
  BY <1>1, <1>2, LinkInit, LinkStep, AdmittedStep, PTL DEF Spec, LinkIsImplemented

\* The same as a refinement: what the detailed link does to a node is a behaviour of the
\* abstract one.
THEOREM LinkImplementsLink ==
    ASSUME NEW n \in Nodes
    PROVE  Spec => SessionOf(n)!Spec
<1>1. Init => Admitted
  BY DEF Init, Admitted
<1>2. Init => SessionOf(n)!Init
  BY DEF Init, SessionOf!Init, LinkOf
<1>3. LinkInv /\ Admitted /\ [Next]_vars => [SessionOf(n)!Next]_(LinkOf(n))
  BY StepOfLink
<1>. QED
  BY <1>1, <1>2, <1>3, LinkInit, LinkStep, AdmittedStep, PTL DEF Spec, SessionOf!Spec
==============================================================================
