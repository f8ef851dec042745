----------------------------- MODULE Enrollment -----------------------------
(****************************************************************************)
(* How a node of a federation gets its identity from central.               *)
(*                                                                          *)
(* A node without an identity file posts its enrollment token; central looks*)
(* for it among the tokens that are neither used nor expired, comparing and *)
(* then hashing with bcrypt (seconds, during which other requests run),     *)
(* marks it used, and inserts the node and the hash of its key.  The node   *)
(* saves the answer and connects.  A node that does not get one exits, and  *)
(* s6 starts it again: the request of its former life goes on at central.   *)
(*                                                                          *)
(* An identity (agent_id and auth_key) is a number; that guesses do not     *)
(* match a hash is bcrypt's business.                                       *)
(****************************************************************************)
EXTENDS Naturals, FiniteSets

CONSTANTS
    Nodes,         \* installations in node mode
    Tokens,        \* enrollment tokens
    Requests,      \* enrollments central works on at one time, numbered
    Ids,           \* identities, numbered in the order they are made up
    MaxFaults,     \* bound on crashes, losses and revocations
    None

ASSUME NumberAssumption == Ids \subseteq Nat /\ Requests \subseteq Nat
ASSUME NoneAssumption   == None \notin Nodes \cup Tokens \cup Requests \cup Ids
ASSUME BoundAssumption  == MaxFaults \in Nat

VARIABLES
    token,         \* node_enrollment_tokens: "none", "open", "used", "expired"
    rows,          \* federation_nodes: identities with a row
    keys,          \* node_auth_keys: identities with a key that is not revoked
    revoked,       \* rows with status `revoked`
    request,       \* requests at central
    node,          \* the program of a node
    file,          \* its identity file
    made,          \* history: the token each identity was made up for
    faults

vars == <<token, rows, keys, revoked, request, node, file, made, faults>>

NoRequest == [pc |-> "free", token |-> None, id |-> None]

\* A node waits for the answer to the request `to`.
Off == [pc |-> "off", env |-> None, to |-> None]

Init ==
    /\ token = [t \in Tokens |-> "none"]
    /\ rows = {} /\ keys = {} /\ revoked = {}
    /\ request = [r \in Requests |-> NoRequest]
    /\ node = [n \in Nodes |-> Off]
    /\ file = [n \in Nodes |-> None]
    /\ made = [i \in Ids |-> None]
    /\ faults = 0

central == <<token, rows, keys, revoked, made>>

Fault == faults < MaxFaults /\ faults' = faults + 1

\* An identity not used yet, a request that is free: the first of them.
Fresh(i)  == made[i] = None /\ \A j \in Ids : made[j] = None => i <= j
Unused(r) == /\ request[r].pc = "free" /\ \A n \in Nodes : node[n].to # r
             /\ \A q \in Requests :
                    (request[q].pc = "free" /\ \A n \in Nodes : node[n].to # q) => r <= q

------------------------------------------------------------------------------
(* The operator.                                                            *)

\* nodes.createEnrollmentToken.
CreateEnrollmentToken(t) ==
    /\ token[t] = "none"
    /\ token' = [token EXCEPT ![t] = "open"]
    /\ UNCHANGED <<rows, keys, revoked, request, node, file, made, faults>>

\* expiresAt passes.
Expires(t) ==
    /\ token[t] = "open"
    /\ token' = [token EXCEPT ![t] = "expired"]
    /\ UNCHANGED <<rows, keys, revoked, request, node, file, made, faults>>

\* PROXYOS_AGENT_TOKEN of a node is set, and the node started with it.
Configure(n, t) ==
    /\ token[t] # "none" /\ node[n].env # t
    /\ node' = [node EXCEPT ![n] = [Off EXCEPT !.env = t]]
    /\ UNCHANGED <<central, request, file, faults>>

\* The volume with the identity file is gone.
LosesFile(n) ==
    /\ Fault
    /\ node[n].pc = "off" /\ file[n] # None
    /\ file' = [file EXCEPT ![n] = None]
    /\ UNCHANGED <<central, request, node>>

\* nodes.revoke, with the federation server running or not.
Revoke(i, running) ==
    /\ Fault
    /\ i \in rows \ revoked
    /\ revoked' = revoked \cup {i}
    /\ keys' = IF running THEN keys \ {i} ELSE keys
    /\ UNCHANGED <<token, rows, request, node, file, made>>

------------------------------------------------------------------------------
(* A node.                                                                  *)

\* FederationClient.start with an identity: the node connects (FederationLink).
StartsKnown(n) ==
    /\ node[n].pc = "off" /\ file[n] # None
    /\ node' = [node EXCEPT ![n].pc = "up"]
    /\ UNCHANGED <<central, request, file, faults>>

\* Without one it posts its token; without a token it exits.
StartsUnknown(n, r) ==
    /\ node[n].pc = "off" /\ file[n] = None /\ node[n].env # None
    /\ Unused(r)
    /\ node' = [node EXCEPT ![n].pc = "waits", ![n].to = r]
    /\ request' = [request EXCEPT ![r] = [NoRequest EXCEPT !.pc = "sent",
                                                           !.token = node[n].env]]
    /\ UNCHANGED <<central, file, faults>>

\* The answer: an identity is saved at once, a refusal ends the program.
Receives(n) ==
    LET r == node[n].to
    IN  /\ node[n].pc = "waits" /\ request[r].pc = "answered"
        /\ IF request[r].id # None
             THEN /\ file' = [file EXCEPT ![n] = request[r].id]
                  /\ node' = [node EXCEPT ![n].pc = "up", ![n].to = None]
             ELSE /\ node' = [node EXCEPT ![n].pc = "off", ![n].to = None]
                  /\ UNCHANGED file
        /\ request' = [request EXCEPT ![r] = NoRequest]
        /\ UNCHANGED <<central, faults>>

\* The node stops, or its connection to central breaks and it exits.
Stops(n) ==
    /\ Fault
    /\ node[n].pc # "off"
    /\ node' = [node EXCEPT ![n].pc = "off", ![n].to = None]
    /\ UNCHANGED <<central, request, file>>

------------------------------------------------------------------------------
(* POST /api/federation/enroll.                                             *)

(* Seeded faults: the query forgets the time; the key is left for later. *)
CandidatesUnused == {t \in Tokens : token[t] \in {"open", "expired"}}

Candidates == {t \in Tokens : token[t] = "open"}

\* The candidates are read; then bcrypt compares, and hashes the new key.
Reads(r) ==
    /\ request[r].pc = "sent"
    /\ request' = [request EXCEPT ![r].pc = IF request[r].token \in Candidates
                                              THEN "hashes" ELSE "answered"]
    /\ UNCHANGED <<central, node, file, faults>>

EnrollsKeyless(r, i) ==
    /\ request[r].pc = "hashes"
    /\ Fresh(i)
    /\ made' = [made EXCEPT ![i] = request[r].token]
    /\ token' = [token EXCEPT ![request[r].token] = "used"]
    /\ rows' = rows \cup {i}
    /\ request' = [request EXCEPT ![r].pc = "answered", ![r].id = i]
    /\ UNCHANGED <<keys, revoked, node, file, faults>>

\* Three statements with nothing between them, unless central stops there.
Enrolls(r, i) ==
    /\ request[r].pc = "hashes"
    /\ Fresh(i)
    /\ made' = [made EXCEPT ![i] = request[r].token]
    /\ token' = [token EXCEPT ![request[r].token] = "used"]
    /\ rows' = rows \cup {i}
    /\ keys' = keys \cup {i}
    /\ request' = [request EXCEPT ![r].pc = "answered", ![r].id = i]
    /\ UNCHANGED <<revoked, node, file, faults>>

\* Nobody waits for the answer any more.
Drops(r) ==
    /\ request[r].pc = "answered" /\ \A n \in Nodes : node[n].to # r
    /\ request' = [request EXCEPT ![r] = NoRequest]
    /\ UNCHANGED <<central, node, file, faults>>

\* Central stops: every request is gone and who waits for one exits.
CentralDown ==
    /\ request' = [r \in Requests |-> NoRequest]
    /\ node' = [n \in Nodes |-> IF node[n].pc = "waits"
                                  THEN [node[n] EXCEPT !.pc = "off", !.to = None]
                                  ELSE node[n]]
    /\ UNCHANGED <<revoked, file>>

CentralStops == Fault /\ CentralDown /\ UNCHANGED <<token, rows, keys, made>>

\* It stops after the first statement of an enrollment, or after the second.
StopsWithin(r, i, inserted) ==
    /\ Fault
    /\ request[r].pc = "hashes"
    /\ Fresh(i)
    /\ token' = [token EXCEPT ![request[r].token] = "used"]
    /\ rows' = IF inserted THEN rows \cup {i} ELSE rows
    /\ made' = IF inserted THEN [made EXCEPT ![i] = request[r].token] ELSE made
    /\ UNCHANGED keys
    /\ CentralDown

Next ==
    \/ \E t \in Tokens :
           \/ CreateEnrollmentToken(t) \/ Expires(t)
           \/ \E n \in Nodes : Configure(n, t)
    \/ \E n \in Nodes :
           \/ LosesFile(n) \/ StartsKnown(n) \/ Receives(n) \/ Stops(n)
           \/ \E r \in Requests : StartsUnknown(n, r)
    \/ \E i \in Ids, running \in BOOLEAN : Revoke(i, running)
    \/ \E r \in Requests :
           \/ Reads(r) \/ Drops(r)
           \/ \E i \in Ids :
                  \/ Enrolls(r, i)
                  \/ \E inserted \in BOOLEAN : StopsWithin(r, i, inserted)
    \/ CentralStops

Spec == Init /\ [][Next]_vars

------------------------------------------------------------------------------

TypeOK ==
    /\ token \in [Tokens -> {"none", "open", "used", "expired"}]
    /\ rows \subseteq Ids /\ keys \subseteq Ids /\ revoked \subseteq rows
    /\ request \in [Requests -> [pc : {"free", "sent", "hashes", "answered"},
                                 token : Tokens \cup {None}, id : Ids \cup {None}]]
    /\ node \in [Nodes -> [pc : {"off", "waits", "up"}, env : Tokens \cup {None},
                           to : Requests \cup {None}]]
    /\ file \in [Nodes -> Ids \cup {None}]
    /\ made \in [Ids -> Tokens \cup {None}]
    /\ faults \in 0 .. MaxFaults

EnrolledWith(t) == {i \in rows : made[i] = t}
Hashing(t)      == \E r \in Requests : request[r].pc = "hashes" /\ request[r].token = t

\* An identity in a file was made up for that node alone, and central has its row
\* and, until it is revoked, its key: whatever stops, restarts or gets lost, no
\* node is left with an identity that central has never heard of, or that another
\* node has too (enroll in client.ts, POST in enroll/route.ts).
IdentityIsKnown ==
    \A n \in Nodes : file[n] # None =>
        /\ file[n] \in rows /\ (file[n] \in keys \/ file[n] \in revoked)
        /\ \A m \in Nodes \ {n} : file[m] # file[n]

\* A token that is used or has expired, and that no request is working with, is
\* worthless from then on: no request gets past the look-up with it, and it will
\* not enroll another node (the candidates of enroll/route.ts).
SpentTokenEnrollsNobody ==
    [][\A t \in Tokens : (token[t] \in {"used", "expired"} /\ ~Hashing(t))
          => ~Hashing(t)' /\ EnrolledWith(t)' = EnrolledWith(t)]_vars

\* Not so.  A token can only be used once: it is looked up before bcrypt runs and
\* marked as used after it.
TokenIsUsedOnce == \A t \in Tokens : Cardinality(EnrolledWith(t)) <= 1
=============================================================================
