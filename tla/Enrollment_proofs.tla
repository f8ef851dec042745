-------------------------- MODULE Enrollment_proofs --------------------------
(****************************************************************************)
(* For any number of nodes, tokens and requests: an identity in the file of *)
(* a node is known to central and is that node's alone, and a token that is *)
(* spent enrolls nobody.                                                    *)
(****************************************************************************)
EXTENDS Enrollment, TLAPS

USE NoneAssumption, BoundAssumption

------------------------------------------------------------------------------
(* The inductive invariant.                                                 *)

\* What the program of a node can be.
Programs == [pc : {"off", "waits", "up"}, env : Tokens \cup {None}, to : Requests \cup {None}]

\* Central has the row of i, and its key until i is revoked.
Issued(i) == i \in rows /\ (i \in keys \/ i \in revoked)

\* An identity with a row has been made up.
RowsAreMade == \A i \in rows : made[i] # None

\* What is saved, and what is on its way in an answer, was issued.
FilesAreIssued   == \A n \in Nodes : file[n] # None => Issued(file[n])
AnswersAreIssued ==
    \A r \in Requests : request[r].id # None => request[r].pc = "answered" /\ Issued(request[r].id)

\* It is in one place only: one file, or one answer.
OnePlace ==
    /\ \A n, m \in Nodes : file[n] # None /\ file[n] = file[m] => n = m
    /\ \A r, q \in Requests : request[r].id # None /\ request[r].id = request[q].id => r = q
    /\ \A n \in Nodes, r \in Requests : file[n] # None => file[n] # request[r].id

\* Who waits, waits for a request, and who hashes does so for a token.
WaitersAndTokens ==
    /\ \A n \in Nodes : node[n].pc = "waits" => node[n].to \in Requests
    /\ \A r \in Requests : request[r].pc \in {"sent", "hashes"} => request[r].token \in Tokens

IInv == /\ TypeOK /\ RowsAreMade /\ FilesAreIssued /\ AnswersAreIssued /\ OnePlace
        /\ WaitersAndTokens

THEOREM InitIInv == Init => IInv
BY DEF Init, IInv, TypeOK, RowsAreMade, FilesAreIssued, AnswersAreIssued, OnePlace,
   WaitersAndTokens, NoRequest, Off

\* What was issued stays issued when nothing is taken from the tables of central.
LEMMA IssuedStays ==
    ASSUME NEW i, Issued(i), rows \subseteq rows', revoked \subseteq revoked',
           keys \subseteq keys' \cup revoked'
    PROVE  Issued(i)'
BY DEF Issued

\* The program of a node, and central when it stops, forget answers and identities
\* but make up none.
LEMMA CentralDownShape ==
    ASSUME IInv, CentralDown
    PROVE  /\ request' \in [Requests -> [pc : {"free", "sent", "hashes", "answered"},
                                         token : Tokens \cup {None}, id : Ids \cup {None}]]
           /\ node' \in [Nodes -> Programs]
           /\ \A r \in Requests : request'[r].id = None /\ request'[r].pc = "free"
           /\ WaitersAndTokens'
<1>1. \A n \in Nodes : node[n] \in Programs
  BY DEF IInv, TypeOK, Programs
<1>2. \A n \in Nodes : /\ node'[n] \in Programs
                       /\ node'[n].pc # "waits"
  BY <1>1 DEF CentralDown, Programs
<1>3. \A r \in Requests : request'[r] = NoRequest
  BY DEF CentralDown
<1>. QED
  BY <1>2, <1>3 DEF CentralDown, NoRequest, WaitersAndTokens

THEOREM NextIInv == IInv /\ [Next]_vars => IInv'
<1>. SUFFICES ASSUME IInv, [Next]_vars PROVE IInv'
  OBVIOUS
<1>. /\ TypeOK /\ RowsAreMade /\ FilesAreIssued /\ AnswersAreIssued /\ OnePlace
     /\ WaitersAndTokens
  BY DEF IInv
<1>b. node \in [Nodes -> Programs] /\ \A n \in Nodes : node[n] \in Programs
  BY DEF TypeOK, Programs
<1>c. ASSUME NEW w \in Programs
      PROVE  /\ \A x \in Requests \cup {None} :
                    [w EXCEPT !.pc = "waits", !.to = x] \in Programs
             /\ [w EXCEPT !.pc = "up"] \in Programs /\ [w EXCEPT !.pc = "up", !.to = None] \in Programs
             /\ [w EXCEPT !.pc = "off", !.to = None] \in Programs
             /\ [w EXCEPT !.pc = "up"].pc = "up" /\ [w EXCEPT !.pc = "up", !.to = None].pc = "up"
             /\ [w EXCEPT !.pc = "off", !.to = None].pc = "off"
  BY <1>c DEF Programs
<1>. USE DEF RowsAreMade, FilesAreIssued, AnswersAreIssued, OnePlace, WaitersAndTokens, IInv
<1>a. ASSUME Fault PROVE faults' \in 0 .. MaxFaults
  BY <1>a DEF Fault, TypeOK
<1>1. ASSUME NEW t \in Tokens, CreateEnrollmentToken(t) \/ Expires(t)
      PROVE  IInv'
  BY <1>1 DEF CreateEnrollmentToken, Expires, TypeOK, Issued
<1>2. ASSUME NEW n \in Nodes, NEW t \in Tokens, Configure(n, t)
      PROVE  IInv'
  BY <1>2 DEF Configure, Off, central, TypeOK, Issued
<1>3. ASSUME NEW n \in Nodes, LosesFile(n)
      PROVE  IInv'
  BY <1>3, <1>a DEF LosesFile, central, TypeOK, Issued
<1>4. ASSUME NEW i \in Ids, NEW running \in BOOLEAN, Revoke(i, running)
      PROVE  IInv'
  BY <1>4, <1>a DEF Revoke, TypeOK, Issued
<1>5. ASSUME NEW n \in Nodes, StartsKnown(n) \/ Stops(n)
      PROVE  IInv'
  <2>1. /\ UNCHANGED <<central, request, file>> /\ faults' \in 0 .. MaxFaults
        /\ node' \in [Nodes -> Programs]
        /\ \A m \in Nodes : node'[m].pc = "waits" => node'[m].to \in Requests
    <3>. DEFINE up  == [node[n] EXCEPT !.pc = "up"]
                off == [node[n] EXCEPT !.pc = "off", !.to = None]
    <3>1. up \in Programs /\ off \in Programs /\ up.pc = "up" /\ off.pc = "off"
      BY <1>b, <1>c
    <3>2. node' = [node EXCEPT ![n] = up] \/ node' = [node EXCEPT ![n] = off]
      BY <1>5, <1>b DEF StartsKnown, Stops
    <3>3. UNCHANGED <<central, request, file>> /\ faults' \in 0 .. MaxFaults
      BY <1>5, <1>a DEF StartsKnown, Stops, TypeOK
    <3>. HIDE DEF up, off
    <3>. QED
      BY <1>b, <3>1, <3>2, <3>3
  <2>. QED
    BY <2>1 DEF central, TypeOK, Issued, Programs
<1>6. ASSUME NEW n \in Nodes, NEW r \in Requests, StartsUnknown(n, r)
      PROVE  IInv'
  <2>1. node[n].env \in Tokens
    BY <1>6 DEF StartsUnknown, TypeOK
  <2>2. /\ request' \in [Requests -> [pc : {"free", "sent", "hashes", "answered"},
                                      token : Tokens \cup {None}, id : Ids \cup {None}]]
        /\ request'[r].pc = "sent" /\ request'[r].id = None /\ request'[r].token \in Tokens
        /\ \A q \in Requests \ {r} : request'[q] = request[q]
    BY <1>6, <2>1 DEF StartsUnknown, NoRequest, TypeOK
  <2>3. /\ node' \in [Nodes -> Programs]
        /\ \A m \in Nodes : node'[m].pc = "waits" => node'[m].to \in Requests
    <3>. DEFINE waits == [node[n] EXCEPT !.pc = "waits", !.to = r]
    <3>1. waits \in Programs /\ waits.to = r
      BY <1>b, <1>c DEF Programs
    <3>2. node' = [node EXCEPT ![n] = waits]
      BY <1>6, <1>b DEF StartsUnknown
    <3>. HIDE DEF waits
    <3>. QED
      BY <1>b, <3>1, <3>2
  <2>. QED
    BY <1>6, <2>2, <2>3 DEF StartsUnknown, central, TypeOK, Issued, Programs
<1>7. ASSUME NEW n \in Nodes, Receives(n)
      PROVE  IInv'
  <2>. DEFINE r == node[n].to
  <2>1. r \in Requests /\ UNCHANGED <<central, faults>>
    BY <1>7 DEF Receives
  <2>2. /\ request' \in [Requests -> [pc : {"free", "sent", "hashes", "answered"},
                                      token : Tokens \cup {None}, id : Ids \cup {None}]]
        /\ request'[r].pc = "free" /\ request'[r].id = None
        /\ \A q \in Requests \ {r} : request'[q] = request[q]
    BY <1>7, <2>1 DEF Receives, NoRequest, TypeOK
  <2>3. /\ node' \in [Nodes -> Programs]
        /\ \A m \in Nodes : node'[m].pc = "waits" => node'[m].to \in Requests
    <3>. DEFINE up  == [node[n] EXCEPT !.pc = "up", !.to = None]
                off == [node[n] EXCEPT !.pc = "off", !.to = None]
    <3>1. up \in Programs /\ off \in Programs /\ up.pc = "up" /\ off.pc = "off"
      BY <1>b, <1>c
    <3>2. node' = [node EXCEPT ![n] = up] \/ node' = [node EXCEPT ![n] = off]
      BY <1>7, <1>b DEF Receives
    <3>. HIDE DEF up, off
    <3>. QED
      BY <1>b, <3>1, <3>2
  <2>4. CASE request[r].id # None
    <3>1. file' = [file EXCEPT ![n] = request[r].id]
      BY <1>7, <2>4 DEF Receives
    <3>2. request[r].id \in Ids /\ Issued(request[r].id)
      BY <2>1, <2>4 DEF TypeOK
    <3>3. /\ file' \in [Nodes -> Ids \cup {None}] /\ file'[n] = request[r].id
          /\ \A m \in Nodes \ {n} : file'[m] = file[m]
      BY <3>1, <3>2 DEF TypeOK
    <3>4. OnePlace'
      BY <2>1, <2>2, <2>4, <3>3
    <3>5. FilesAreIssued' /\ AnswersAreIssued'
      BY <2>1, <2>2, <3>2, <3>3 DEF central, Issued
    <3>. QED
      BY <2>1, <2>2, <2>3, <3>3, <3>4, <3>5 DEF central, TypeOK, Programs
  <2>5. CASE request[r].id = None
    <3>1. file' = file
      BY <1>7, <2>5 DEF Receives
    <3>2. FilesAreIssued' /\ AnswersAreIssued' /\ OnePlace'
      BY <2>1, <2>2, <3>1 DEF central, Issued
    <3>. QED
      BY <2>1, <2>2, <2>3, <3>1, <3>2 DEF central, TypeOK, Programs
  <2>. QED
    BY <2>4, <2>5
<1>8. ASSUME NEW r \in Requests, Reads(r)
      PROVE  IInv'
  <2>1. /\ request' \in [Requests -> [pc : {"free", "sent", "hashes", "answered"},
                                      token : Tokens \cup {None}, id : Ids \cup {None}]]
        /\ request'[r].id = request[r].id /\ request'[r].token = request[r].token
        /\ request[r].pc = "sent" /\ request[r].id = None
        /\ \A q \in Requests \ {r} : request'[q] = request[q]
    BY <1>8 DEF Reads, TypeOK
  <2>. QED
    BY <1>8, <2>1 DEF Reads, central, TypeOK, Issued
<1>9. ASSUME NEW r \in Requests, Drops(r)
      PROVE  IInv'
  <2>1. /\ request' \in [Requests -> [pc : {"free", "sent", "hashes", "answered"},
                                      token : Tokens \cup {None}, id : Ids \cup {None}]]
        /\ request'[r].id = None /\ request'[r].pc = "free"
        /\ \A q \in Requests \ {r} : request'[q] = request[q]
    BY <1>9 DEF Drops, NoRequest, TypeOK
  <2>. QED
    BY <1>9, <2>1 DEF Drops, central, TypeOK, Issued
<1>10. ASSUME NEW r \in Requests, NEW i \in Ids, Enrolls(r, i)
       PROVE  IInv'
  <2>1. /\ request[r].pc = "hashes" /\ request[r].token \in Tokens /\ made[i] = None
        /\ rows' = rows \cup {i} /\ keys' = keys \cup {i}
        /\ UNCHANGED <<revoked, node, file, faults>>
        /\ token' = [token EXCEPT ![request[r].token] = "used"]
        /\ made' = [made EXCEPT ![i] = request[r].token]
    BY <1>10 DEF Enrolls, Fresh
  <2>2. /\ request' \in [Requests -> [pc : {"free", "sent", "hashes", "answered"},
                                      token : Tokens \cup {None}, id : Ids \cup {None}]]
        /\ request'[r].id = i /\ request'[r].pc = "answered"
        /\ \A q \in Requests \ {r} : request'[q] = request[q]
    BY <1>10 DEF Enrolls, TypeOK
  <2>3. i \notin rows
    BY <2>1
  <2>4. TypeOK'
    BY <2>1, <2>2 DEF TypeOK
  <2>5. RowsAreMade'
    BY <2>1 DEF TypeOK
  <2>6. FilesAreIssued' /\ AnswersAreIssued'
    BY <2>1, <2>2 DEF Issued
  <2>7. OnePlace'
    BY <2>1, <2>2, <2>3 DEF Issued
  <2>8. WaitersAndTokens'
    BY <2>1, <2>2
  <2>. QED
    BY <2>4, <2>5, <2>6, <2>7, <2>8
<1>11. ASSUME NEW r \in Requests, NEW i \in Ids, NEW inserted \in BOOLEAN,
              StopsWithin(r, i, inserted)
       PROVE  IInv'
  <2>1. /\ request[r].token \in Tokens /\ Fault /\ CentralDown
        /\ token' = [token EXCEPT ![request[r].token] = "used"]
        /\ keys' = keys /\ UNCHANGED <<revoked, file>>
        /\ \/ rows' = rows /\ made' = made
           \/ rows' = rows \cup {i} /\ made' = [made EXCEPT ![i] = request[r].token]
    BY <1>11 DEF StopsWithin, CentralDown
  <2>2. made' \in [Ids -> Tokens \cup {None}] /\ rows' \subseteq Ids /\ rows \subseteq rows'
    BY <2>1 DEF TypeOK
  <2>3. RowsAreMade'
    BY <2>1 DEF TypeOK
  <2>4. FilesAreIssued'
    BY <2>1, <2>2 DEF Issued
  <2>5. /\ \A q \in Requests : request'[q].id = None /\ request'[q].pc = "free"
        /\ WaitersAndTokens'
    BY <2>1, CentralDownShape
  <2>6. AnswersAreIssued' /\ OnePlace'
    BY <2>1, <2>5
  <2>7. TypeOK'
    <3>1. token' \in [Tokens -> {"none", "open", "used", "expired"}] /\ faults' \in 0 .. MaxFaults
      BY <1>a, <2>1 DEF TypeOK
    <3>. QED
      BY <2>1, <2>2, <3>1, CentralDownShape DEF TypeOK, Programs
  <2>. QED
    BY <2>3, <2>4, <2>5, <2>6, <2>7
<1>12. CASE CentralStops
  <2>1. UNCHANGED <<token, rows, keys, made, revoked, file>> /\ Fault /\ CentralDown
    BY <1>12 DEF CentralStops, CentralDown
  <2>2. /\ \A q \in Requests : request'[q].id = None /\ request'[q].pc = "free"
        /\ WaitersAndTokens'
    BY <2>1, CentralDownShape
  <2>3. RowsAreMade' /\ FilesAreIssued' /\ AnswersAreIssued' /\ OnePlace'
    BY <2>1, <2>2 DEF Issued
  <2>4. TypeOK'
    BY <1>a, <2>1, CentralDownShape DEF TypeOK, Programs
  <2>. QED
    BY <2>2, <2>3, <2>4
<1>13. CASE UNCHANGED vars
  BY <1>13 DEF vars, TypeOK, Issued
<1>. HIDE DEF RowsAreMade, FilesAreIssued, AnswersAreIssued, OnePlace, WaitersAndTokens, IInv
<1>. QED
  BY <1>1, <1>2, <1>3, <1>4, <1>5, <1>6, <1>7, <1>8, <1>9, <1>10, <1>11, <1>12, <1>13 DEF Next

\* In every state the variables have the values declared for them.
THEOREM TypeCorrect == Spec => []TypeOK
<1>. QED
  BY InitIInv, NextIInv, PTL DEF Spec, IInv

\* No node has an identity that central does not know, or that is another node's
\* too, whatever stops, restarts or gets lost (IdentityIsKnown).
THEOREM IdentityIsRight == Spec => []IdentityIsKnown
<1>1. IInv => IdentityIsKnown
  BY DEF IInv, FilesAreIssued, OnePlace, Issued, IdentityIsKnown
<1>. QED
  BY <1>1, InitIInv, NextIInv, PTL DEF Spec

\* A token that is used or expired, with no request working on it, enrolls nobody
\* (SpentTokenEnrollsNobody).
THEOREM SpentTokenIsWorthless == Spec => SpentTokenEnrollsNobody
<1>. DEFINE A == \A t \in Tokens : (token[t] \in {"used", "expired"} /\ ~Hashing(t))
                    => ~Hashing(t)' /\ EnrolledWith(t)' = EnrolledWith(t)
<1>1. IInv /\ [Next]_vars => A
  <2>. SUFFICES ASSUME IInv, [Next]_vars, NEW t \in Tokens, token[t] \in {"used", "expired"},
                       ~Hashing(t)
       PROVE  ~Hashing(t)' /\ EnrolledWith(t)' = EnrolledWith(t)
    OBVIOUS
  <2>. TypeOK /\ WaitersAndTokens
    BY DEF IInv
  <2>1. ASSUME UNCHANGED <<rows, made>>, UNCHANGED request \/ \A r \in Requests : request'[r] = NoRequest
        PROVE  ~Hashing(t)' /\ EnrolledWith(t)' = EnrolledWith(t)
    BY <2>1 DEF Hashing, EnrolledWith, NoRequest
  <2>2. ASSUME NEW r \in Requests, UNCHANGED <<rows, made>>,
               request'[r].pc # "hashes", \A q \in Requests \ {r} : request'[q] = request[q]
        PROVE  ~Hashing(t)' /\ EnrolledWith(t)' = EnrolledWith(t)
    BY <2>2 DEF Hashing, EnrolledWith, TypeOK
  <2>3. ASSUME NEW n \in Nodes, NEW r \in Requests, StartsUnknown(n, r)
        PROVE  ~Hashing(t)' /\ EnrolledWith(t)' = EnrolledWith(t)
    <3>1. request'[r].pc = "sent" /\ \A q \in Requests \ {r} : request'[q] = request[q]
      BY <2>3 DEF StartsUnknown, NoRequest, TypeOK
    <3>2. UNCHANGED <<rows, made>>
      BY <2>3 DEF StartsUnknown, central
    <3>. QED
      BY <2>2, <3>1, <3>2
  <2>4. ASSUME NEW n \in Nodes, Receives(n)
        PROVE  ~Hashing(t)' /\ EnrolledWith(t)' = EnrolledWith(t)
    <3>1. node[n].to \in Requests
      BY <2>4 DEF Receives, WaitersAndTokens
    <3>2. request' = [request EXCEPT ![node[n].to] = NoRequest] /\ UNCHANGED <<rows, made>>
      BY <2>4 DEF Receives, central
    <3>3. /\ request'[node[n].to].pc = "free"
          /\ \A q \in Requests \ {node[n].to} : request'[q] = request[q]
      BY <3>1, <3>2 DEF NoRequest, TypeOK
    <3>. QED
      BY <2>2, <3>1, <3>2, <3>3
  <2>5. ASSUME NEW r \in Requests, Reads(r)
        PROVE  ~Hashing(t)' /\ EnrolledWith(t)' = EnrolledWith(t)
    <3>1. UNCHANGED <<rows, made>>
      BY <2>5 DEF Reads, central
    <3>2. \A q \in Requests : request'[q].token = request[q].token
      BY <2>5 DEF Reads, TypeOK
    <3>3. \A q \in Requests : request'[q].pc = "hashes" =>
             request[q].pc = "hashes" \/ request[q].token \in Candidates
      BY <2>5 DEF Reads, TypeOK
    <3>. QED
      BY <3>1, <3>2, <3>3 DEF Hashing, EnrolledWith, Candidates
  <2>6. ASSUME NEW r \in Requests, Drops(r)
        PROVE  ~Hashing(t)' /\ EnrolledWith(t)' = EnrolledWith(t)
    <3>1. request' = [request EXCEPT ![r] = NoRequest] /\ UNCHANGED <<rows, made>>
      BY <2>6 DEF Drops, central
    <3>2. request'[r].pc = "free" /\ \A q \in Requests \ {r} : request'[q] = request[q]
      BY <3>1 DEF NoRequest, TypeOK
    <3>. QED
      BY <2>2, <3>1, <3>2
  <2>7. ASSUME NEW r \in Requests, NEW i \in Ids, request[r].pc = "hashes", made[i] = None,
               rows' = rows \cup {i}, made' = [made EXCEPT ![i] = request[r].token]
        PROVE  EnrolledWith(t)' = EnrolledWith(t)
    <3>1. request[r].token # t
      BY <2>7 DEF Hashing
    <3>2. \A j \in Ids \ {i} : made'[j] = made[j]
      BY <2>7 DEF TypeOK
    <3>3. made'[i] # t /\ made[i] # t
      BY <2>7, <3>1 DEF TypeOK
    <3>. QED
      BY <2>7, <3>2, <3>3 DEF EnrolledWith, TypeOK
  <2>8. ASSUME NEW r \in Requests, NEW i \in Ids, Enrolls(r, i)
        PROVE  ~Hashing(t)' /\ EnrolledWith(t)' = EnrolledWith(t)
    <3>1. EnrolledWith(t)' = EnrolledWith(t)
      BY <2>7, <2>8 DEF Enrolls, Fresh
    <3>2. \A q \in Requests : request'[q].pc = "hashes" => request'[q] = request[q]
      BY <2>8 DEF Enrolls, TypeOK
    <3>. QED
      BY <3>1, <3>2 DEF Hashing
  <2>9. ASSUME NEW r \in Requests, NEW i \in Ids, NEW inserted \in BOOLEAN, StopsWithin(r, i, inserted)
        PROVE  ~Hashing(t)' /\ EnrolledWith(t)' = EnrolledWith(t)
    <3>1. EnrolledWith(t)' = EnrolledWith(t)
      <4>1. CASE inserted
        BY <2>7, <2>9, <4>1 DEF StopsWithin, Fresh
      <4>2. CASE ~inserted
        BY <2>9, <4>2 DEF StopsWithin, EnrolledWith
      <4>. QED
        BY <4>1, <4>2
    <3>2. \A q \in Requests : request'[q] = NoRequest
      BY <2>9 DEF StopsWithin, CentralDown
    <3>. QED
      BY <3>1, <3>2 DEF Hashing, NoRequest
  <2>10. CASE CentralStops
    BY <2>1, <2>10 DEF CentralStops, CentralDown
  <2>11. ASSUME \/ \E u \in Tokens : CreateEnrollmentToken(u) \/ Expires(u)
                \/ \E n \in Nodes, u \in Tokens : Configure(n, u)
                \/ \E n \in Nodes : LosesFile(n) \/ StartsKnown(n) \/ Stops(n)
                \/ \E i \in Ids, running \in BOOLEAN : Revoke(i, running)
                \/ UNCHANGED vars
         PROVE  ~Hashing(t)' /\ EnrolledWith(t)' = EnrolledWith(t)
    <3>1. UNCHANGED <<rows, made, request>>
      BY <2>11 DEF CreateEnrollmentToken, Expires, Configure, LosesFile, StartsKnown, Stops, Revoke,
         central, vars
    <3>. QED
      BY <2>1, <3>1
  <2>. QED
    BY <2>3, <2>4, <2>5, <2>6, <2>8, <2>9, <2>10, <2>11 DEF Next
<1>. QED
  BY <1>1, InitIInv, NextIInv, PTL DEF Spec, SpentTokenEnrollsNobody
=============================================================================
