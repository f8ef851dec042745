------------------------- MODULE TunnelRoutes_proofs -------------------------
(****************************************************************************)
(* Safety of TunnelRoutes for any number of routes, providers, ports,       *)
(* requests and faults.                                                     *)
(****************************************************************************)
EXTENDS TunnelRoutes, WellFoundedInduction, TLAPS

USE TypeAssumption, BoundsAssumption, NoneAssumption

(****************************************************************************)
(* The inductive invariant.  First, what the requests know: one that puts a *)
(* tunnel up has its route and its provider, one that takes a tunnel away   *)
(* has a row of its route, whose request is over.                           *)
(****************************************************************************)
Up(o)    == op[o].pc \in {"publish", "answer", "probe", "serve", "post"}
Down(o)  == op[o].pc \in {"unpublish", "unserve"}
Calls(o) == Up(o) \/ Down(o)
Over(o)  == o \in Ops /\ op[o].pc = "done" /\ op[o].p \in Providers

RequestsFit ==
    \A o \in Ops :
        /\ Calls(o) => op[o].r \in Routes
        /\ Up(o) => op[o].p \in Providers /\ op[o].old = None
        /\ Down(o) => Over(op[o].old) /\ op[op[o].old].r = op[o].r
        /\ op[o].pc = "unload" => op[o].p \in Providers /\ op[o].r = None

RefsFit ==
    /\ \A o \in rows : Over(o)
    /\ \A r \in Routes : ref[r] # None => r \in alive /\ Over(ref[r])

(* What the histories say of requests at the same time. *)
ClashIsNoted ==
    \A o, q \in Ops : Calls(o) /\ Calls(q) /\ o # q /\ op[o].r = op[q].r => op[o].r \in clash

RaceIsNoted ==
    \A o, q \in Ops : Calls(o) /\ Calls(q) /\ o # q => Touches(o) \cap Touches(q) \subseteq raced

(* A request finds the reference of its route as it left it. *)
RefIsMine ==
    \A o \in Ops : op[o].r \notin clash =>
        /\ Up(o)   => ref[op[o].r] = None
        /\ Down(o) => ref[op[o].r] \in {op[o].old, None}

(* A server is only created where there is none. *)
ServerIsNew ==
    \A o \in Ops : op[o].pc = "serve" /\ TypeOf[op[o].p] \notin raced \cup hurt => inner[TypeOf[op[o].p]] = None

(* A provider that has stayed loaded knows and publishes what it was asked  *)
(* to, and the lists under way to Cloudflare are complete.                  *)
Steady(p) == p \notin reloaded /\ TypeOf[p] \notin raced

NamesAreLoaded == \A p \in Providers, r \in Routes : names[p][r] # None => p \in loaded

Has(p, r) == r \in published[p] /\ (TypeOf[p] = "cloudflare" => names[p][r] # None)

HasAll(p, list) == \A q \in rows : op[q].p = p => op[q].r \in list

RowsArePublished == \A o \in rows : Steady(op[o].p) => Has(op[o].p, op[o].r)

ListsAreComplete ==
    \A o \in Ops :
        /\ op[o].pc \in {"answer", "probe", "serve", "post"} => op[o].p \in loaded \cup reloaded
        /\ op[o].pc \in {"probe", "serve", "post"} /\ Steady(op[o].p) => Has(op[o].p, op[o].r)
        /\ op[o].pc = "answer" => (op[o].list = None <=> TypeOf[op[o].p] # "cloudflare")
        /\ op[o].pc = "answer" /\ op[o].list # None /\ Steady(op[o].p) =>
              /\ op[o].r \in op[o].list /\ names[op[o].p][op[o].r] # None
              /\ HasAll(op[o].p, op[o].list)
        /\ op[o].pc = "unpublish" /\ op[o].list # None /\ Steady(op[op[o].old].p) =>
              HasAll(op[op[o].old].p, op[o].list)

RowsAreLoaded == \A o \in rows : op[o].p \in loaded \cup reloaded

(* The port a request has chosen is free, or its route has it; routes have  *)
(* different ports; and the port of a row is the one its route has.         *)
PortIsFree ==
    "tailscale" \notin raced =>
        \A o \in Ops : op[o].pc = "answer" /\ TypeOf[op[o].p] = "tailscale" =>
            \A s \in Routes : IF s # op[o].r THEN names[op[o].p][s] # op[o].port
                              ELSE names[op[o].p][s] \in {None, op[o].port}

NamesDiffer ==
    "tailscale" \notin raced =>
        \A p \in Providers : TypeOf[p] = "tailscale" =>
            \A r, s \in Routes : names[p][r] = names[p][s] /\ names[p][r] # None => r = s

\* What a row, or a request that is about to insert one, has stays.
Through(q) == q \in Ops /\ op[q].pc \in {"probe", "serve", "post"}

HasPort(o) == names[op[o].p][op[o].r] = op[o].port

PortsAreNamed ==
    \A o \in Ops : /\ o \in rows \/ Through(o)
                   /\ TypeOf[op[o].p] = "tailscale" /\ Steady(op[o].p)
                   => HasPort(o)

Base == TypeOK /\ RequestsFit /\ RefsFit /\ TunnelHasRow

IInv == /\ Base
        /\ RowIsReferred /\ ClashIsNoted /\ RefIsMine
        /\ RaceIsNoted
        /\ RowIsServed /\ ServerIsNew
        /\ NamesAreLoaded /\ RowsAreLoaded /\ RowsArePublished /\ ListsAreComplete
        /\ NamesDiffer /\ PortIsFree /\ PortsAreNamed

------------------------------------------------------------------------------
(* What the steps do to the requests.                                       *)

LEMMA ConstantFacts ==
    /\ Ops \subseteq Nat /\ None \notin Ops /\ None \notin Providers /\ None \notin Routes
    /\ NoOp \in Requests /\ Finished \in Requests /\ Finished.pc = "done"
    /\ Finished.old = None /\ Finished.r = None /\ Finished.p = None /\ Finished.list = None /\ Finished.port = 0
BY DEF Ops, NoOp, Finished, Requests

LEMMA LowestFacts ==
    ASSUME NEW S, S \subseteq Nat, S # {}
    PROVE  Lowest(S) \in S
<1>. DEFINE Less == {ss \in Nat \X Nat : ss[1] < ss[2]}
<1>1. OpToRel(<, Nat) = Less
  BY Zenon DEF OpToRel
<1>2. IsWellFoundedOn(Less, Nat)
  BY <1>1, NatLessThanWellFounded, Zenon
<1>3. \A a, b \in Nat : a < b => <<a, b>> \in Less
  OBVIOUS
<1>. HIDE DEF Less
<1>4. PICK x \in S : \A y \in S : ~ (<<y, x>> \in Less)
  BY <1>2, WFMin
<1>5. ASSUME NEW y \in S
      PROVE  ~(y < x)
  <2>1. y \in Nat /\ x \in Nat
    OBVIOUS
  <2>2. y < x => <<y, x>> \in Less
    BY <1>3, <2>1
  <2>3. ~(<<y, x>> \in Less)
    BY <1>4
  <2>. QED
    BY <2>2, <2>3
<1>6. \A y \in S : x <= y
  BY <1>5
<1>. QED
  BY <1>6 DEF Lowest

\* Only the request `o` moves.
Only(o) == op' \in [Ops -> Requests] /\ \A q \in Ops \ {o} : op'[q] = op[q]

Becomes(o, pc, r, p, old) ==
    Only(o) /\ op'[o].pc = pc /\ op'[o].r = r /\ op'[o].p = p /\ op'[o].old = old

Stops(o) == Only(o) /\ op'[o].pc = "done"

LEMMA MoveFacts ==
    ASSUME TypeOK, NEW o \in Ops
    PROVE  /\ \A pc \in {"serve", "post"} : Goes(o, pc) => Becomes(o, pc, op[o].r, op[o].p, op[o].old)
           /\ Finishes(o) => Stops(o)
           /\ Ends(o) => /\ Stops(o) /\ op'[o].r = op[o].r /\ op'[o].p = op[o].p
                         /\ op'[o].port = op[o].port
<1>. op \in [Ops -> Requests] /\ op[o] \in Requests
  BY DEF TypeOK
<1>1. ASSUME NEW pc \in {"serve", "post"}, Goes(o, pc)
      PROVE  Becomes(o, pc, op[o].r, op[o].p, op[o].old)
  BY <1>1 DEF Goes, Becomes, Only, Requests
<1>2. ASSUME Finishes(o) PROVE Stops(o)
  BY <1>2, ConstantFacts DEF Finishes, Stops, Only
<1>3. ASSUME Ends(o)
      PROVE  Stops(o) /\ op'[o].r = op[o].r /\ op'[o].p = op[o].p /\ op'[o].port = op[o].port
  <2>. DEFINE new == [Finished EXCEPT !.r = op[o].r, !.p = op[o].p, !.port = op[o].port]
  <2>1. op' = [op EXCEPT ![o] = new]
    BY <1>3 DEF Ends
  <2>2. Finished \in Requests /\ Finished.pc = "done"
    BY ConstantFacts
  <2>3. new \in Requests /\ new.pc = "done" /\ new.r = op[o].r /\ new.p = op[o].p /\ new.port = op[o].port
    BY <2>2 DEF Requests
  <2>. HIDE DEF new
  <2>. QED
    BY <2>1, <2>3 DEF Stops, Only
<1>. QED
  BY <1>1, <1>2, <1>3

\* A request for `r` arrives that puts a tunnel up, or takes one away.
LEMMA ArriveFacts ==
    ASSUME TypeOK, NEW o \in Ops, NEW r \in Routes
    PROVE  /\ \A p \in Providers : Enable(o, r, p) \/ Switch(o, r, p) =>
                 Becomes(o, "publish", r, p, None) /\ op[o].pc = "new"
           /\ \A p \in Providers \cup {None}, kind \in {"switch", "disable"} : TakeDown(o, kind, r, p) =>
                 /\ Becomes(o, "unpublish", r, p, ref[r]) /\ op[o].pc = "new" /\ ref[r] \in rows
                 /\ op'[o].list = RemoveRoute(op[ref[r]].p)
           /\ Reset(o, r) => Stops(o) /\ op[o].pc = "new"
<1>. op \in [Ops -> Requests] /\ ref \in [Routes -> Ops \cup {None}] /\ rows \subseteq Ops
  BY DEF TypeOK
<1>1. ASSUME NEW p \in Providers, Enable(o, r, p) \/ Switch(o, r, p)
      PROVE  Becomes(o, "publish", r, p, None) /\ op[o].pc = "new"
  <2>1. PICK kind \in {"enable", "switch"} :
            op' = [op EXCEPT ![o] = [NoOp EXCEPT !.kind = kind, !.r = r, !.p = p, !.pc = "publish"]]
    BY <1>1 DEF Enable, Switch
  <2>. DEFINE new == [NoOp EXCEPT !.kind = kind, !.r = r, !.p = p, !.pc = "publish"]
  <2>2. new \in Requests /\ new.pc = "publish" /\ new.r = r /\ new.p = p /\ new.old = None
    BY ConstantFacts DEF NoOp, Requests
  <2>. HIDE DEF new
  <2>. QED
    BY <1>1, <2>1, <2>2, Zenon DEF Enable, Switch, NextRequest, Becomes, Only, new
<1>2. ASSUME NEW p \in Providers \cup {None}, NEW kind \in {"switch", "disable"}, TakeDown(o, kind, r, p)
      PROVE  /\ Becomes(o, "unpublish", r, p, ref[r]) /\ op[o].pc = "new" /\ ref[r] \in rows
             /\ op'[o].list = RemoveRoute(op[ref[r]].p)
  <2>1. RemoveRoute(op[ref[r]].p) \in {None} \cup SUBSET Routes
    BY DEF RemoveRoute, Known
  <2>2. ref[r] \in rows /\ ref[r] \in Ops /\ op[o].pc = "new"
    BY <1>2 DEF TakeDown, HasTunnel, NextRequest
  <2>. DEFINE list == RemoveRoute(op[ref[r]].p)
              new  == [NoOp EXCEPT !.kind = kind, !.r = r, !.p = p, !.old = ref[r], !.list = list,
                                   !.pc = "unpublish"]
  <2>3. op' = [op EXCEPT ![o] = new]
    BY <1>2 DEF TakeDown
  <2>. HIDE DEF list
  <2>4. new \in Requests /\ new.pc = "unpublish" /\ new.r = r /\ new.p = p /\ new.old = ref[r] /\ new.list = list
    BY <2>1, <2>2, ConstantFacts DEF NoOp, Requests, list
  <2>. HIDE DEF new
  <2>. QED
    BY <2>2, <2>3, <2>4 DEF Becomes, Only, list
<1>3. ASSUME Reset(o, r) PROVE Stops(o) /\ op[o].pc = "new"
  BY <1>3, MoveFacts DEF Reset, NextRequest
<1>. QED
  BY <1>1, <1>2, <1>3

\* A request goes on.
LEMMA GoOnFacts ==
    ASSUME TypeOK, NEW o \in Ops
    PROVE  /\ Unpublish(o) => Becomes(o, "unserve", op[o].r, op[o].p, op[o].old) /\ op'[o].list = None
           /\ Unserve(o) => \/ Becomes(o, "publish", op[o].r, op[o].p, None) /\ op[o].p \in exists
                            \/ Stops(o)
           /\ Published(o) => Becomes(o, "probe", op[o].r, op[o].p, op[o].old)
           /\ Probe(o) => \E pc \in {"serve", "post"} : Becomes(o, pc, op[o].r, op[o].p, op[o].old)
           /\ Serve(o) => Becomes(o, "post", op[o].r, op[o].p, op[o].old)
           /\ Probe(o) \/ Serve(o) => op'[o].port = op[o].port
           /\ CallFails(o) \/ Post(o) \/ ProviderDeleted(o) => Stops(o)
           /\ \A p \in Providers : DeleteProvider(o, p) =>
                 Becomes(o, "unload", None, p, None) /\ op[o].pc = "new"
<1>. op \in [Ops -> Requests] /\ op[o] \in Requests
  BY DEF TypeOK
<1>1. ASSUME Unpublish(o)
      PROVE  Becomes(o, "unserve", op[o].r, op[o].p, op[o].old) /\ op'[o].list = None
  BY <1>1, ConstantFacts DEF Unpublish, Becomes, Only, Requests
<1>2. ASSUME Unserve(o)
      PROVE  \/ Becomes(o, "publish", op[o].r, op[o].p, None) /\ op[o].p \in exists
             \/ Stops(o)
  <2>1. CASE op' = [op EXCEPT ![o].pc = "publish", ![o].old = None] /\ op[o].p \in exists
    BY <2>1, ConstantFacts DEF Becomes, Only, Requests
  <2>. QED
    BY <1>2, <2>1, MoveFacts DEF Unserve
<1>3. ASSUME Published(o)
      PROVE  Becomes(o, "probe", op[o].r, op[o].p, op[o].old)
  BY <1>3, ConstantFacts DEF Published, Becomes, Only, Requests
<1>4. ASSUME Probe(o)
      PROVE  \E pc \in {"serve", "post"} : Becomes(o, pc, op[o].r, op[o].p, op[o].old)
  BY <1>4, MoveFacts DEF Probe
<1>5. ASSUME Serve(o)
      PROVE  Becomes(o, "post", op[o].r, op[o].p, op[o].old)
  BY <1>5, MoveFacts DEF Serve
<1>8. ASSUME Probe(o) \/ Serve(o)
      PROVE  op'[o].port = op[o].port
  BY <1>8 DEF Probe, Serve, Goes, Requests
<1>6. ASSUME CallFails(o) \/ Post(o) \/ ProviderDeleted(o)
      PROVE  Stops(o)
  BY <1>6, MoveFacts DEF CallFails, Post, ProviderDeleted
<1>7. ASSUME NEW p \in Providers, DeleteProvider(o, p)
      PROVE  Becomes(o, "unload", None, p, None) /\ op[o].pc = "new"
  <2>. DEFINE new == [NoOp EXCEPT !.kind = "drop", !.p = p, !.pc = "unload"]
  <2>3. new.pc = "unload" /\ new.r = None /\ new.p = p /\ new.old = None
    BY DEF NoOp
  <2>1. new \in Requests
    BY DEF NoOp, Requests
  <2>2. op' = [op EXCEPT ![o] = new] /\ op[o].pc = "new"
    BY <1>7 DEF DeleteProvider, NextRequest
  <2>. HIDE DEF new
  <2>. QED
    BY <2>1, <2>2, <2>3 DEF Becomes, Only
<1>. QED
  BY <1>1, <1>2, <1>3, <1>4, <1>5, <1>6, <1>7, <1>8

\* The call to the provider: a port that is free, or the list of names.
LEMMA PublishFacts ==
    ASSUME TypeOK, RequestsFit, NEW o \in Ops, Publish(o)
    PROVE  \/ Stops(o) /\ names' = names
           \/ LET p == op[o].p
                  r == op[o].r
              IN  /\ p \in loaded /\ Becomes(o, "answer", r, p, op[o].old)
                  /\ IF TypeOf[p] = "cloudflare"
                     THEN op'[o].list = Known(p) \cup {r} /\ names' = [names EXCEPT ![p][r] = 0]
                     ELSE op'[o].list = None /\ names' = names
                  /\ TypeOf[p] = "tailscale" =>
                        \/ names[p][r] # None /\ op'[o].port = names[p][r]
                        \/ names[p][r] = None /\ op'[o].port \in FreePorts(p)
<1>. DEFINE p == op[o].p
            r == op[o].r
            ports == IF names[p][r] = None THEN FreePorts(p) ELSE {names[p][r]}
            port == IF TypeOf[p] = "tailscale" THEN Lowest(ports) ELSE 0
            list == IF TypeOf[p] = "cloudflare" THEN Known(p) \cup {r} ELSE None
<1>. /\ op \in [Ops -> Requests] /\ op[o] \in Requests
     /\ p \in Providers /\ r \in Routes
     /\ names \in [Providers -> [Routes -> Ports \cup {0, None}]]
  BY DEF TypeOK, RequestsFit, Publish, Up, Calls
<1>1. CASE p \notin loaded \/ (TypeOf[p] = "tailscale" /\ ports = {})
  BY <1>1, MoveFacts DEF Publish
<1>2. CASE ~(p \notin loaded \/ (TypeOf[p] = "tailscale" /\ ports = {}))
  <2>1. ports \subseteq Nat /\ ports \subseteq Ports \cup {0}
    <3>1. FreePorts(p) \subseteq Ports
      BY DEF FreePorts
    <3>2. names[p][r] # None => names[p][r] \in Ports \cup {0}
      OBVIOUS
    <3>3. ports = FreePorts(p) \/ (names[p][r] # None /\ ports = {names[p][r]})
      OBVIOUS
    <3>. HIDE DEF ports
    <3>4. ports \subseteq Ports \cup {0}
      BY <3>1, <3>2, <3>3
    <3>. QED
      BY <3>4
  <2>2. TypeOf[p] = "tailscale" => port \in ports
    BY <1>2, <2>1, LowestFacts
  <2>3. port \in Ports \cup {0} /\ list \in {None} \cup SUBSET Routes
    BY <2>1, <2>2 DEF Known
  <2>4. /\ op' = [op EXCEPT ![o].pc = "answer", ![o].port = port, ![o].list = list]
        /\ names' = IF TypeOf[p] = "cloudflare" THEN [names EXCEPT ![p][r] = 0] ELSE names
    BY <1>2 DEF Publish
  <2>. HIDE DEF ports, port, list
  <2>5. Becomes(o, "answer", r, p, op[o].old) /\ op'[o].port = port /\ op'[o].list = list
    BY <2>3, <2>4 DEF Becomes, Only, Requests
  <2>6. TypeOf[p] = "tailscale" =>
            \/ names[p][r] # None /\ port = names[p][r]
            \/ names[p][r] = None /\ port \in FreePorts(p)
    BY <2>2 DEF ports
  <2>. QED
    BY <1>2, <2>4, <2>5, <2>6 DEF list
<1>. QED
  BY <1>1, <1>2

\* The kinds of steps, by what they do to the requests and note of them.
Puts(o, r, p) ==
    /\ op[o].pc = "new" /\ Becomes(o, "publish", r, p, None)
    /\ r \in alive /\ p \in Providers
    /\ Notes(o, r, {p})

Takes(o, r, p) ==
    /\ op[o].pc = "new" /\ Becomes(o, "unpublish", r, p, ref[r])
    /\ ref[r] \in rows /\ p \in Providers \cup {None}
    /\ Notes(o, r, {p, op[ref[r]].p} \ {None})

Continues(o) ==
    /\ Calls(o) /\ UNCHANGED <<clash, raced>>
    /\ \/ Stops(o)
       \/ \E pc \in {"answer", "probe", "serve", "post"} :
              Up(o) /\ Becomes(o, pc, op[o].r, op[o].p, op[o].old)
       \/ op[o].pc = "unpublish" /\ Becomes(o, "unserve", op[o].r, op[o].p, op[o].old)
       \/ Down(o) /\ Becomes(o, "publish", op[o].r, op[o].p, None) /\ op[o].p \in Providers

Aside(o) ==
    /\ op[o].pc \in {"new", "unload"} /\ clash \subseteq clash' /\ raced \subseteq raced'
    /\ Stops(o) \/ \E p \in Providers : Becomes(o, "unload", None, p, None)

OpStep ==
    \/ \E o \in Ops, r \in Routes : \E p \in Providers \cup {None} : Puts(o, r, p) \/ Takes(o, r, p)
    \/ \E o \in Ops : Continues(o) \/ Aside(o)
    \/ UNCHANGED <<op, clash, raced>>
    \/ /\ op' = [o \in Ops |-> IF Runs(o) THEN Finished ELSE op[o]]
       /\ UNCHANGED <<clash, raced>>

LEMMA StepKinds == ASSUME Base, Next PROVE OpStep
<1>. TypeOK /\ RequestsFit /\ exists \subseteq Providers
  BY DEF Base, TypeOK
<1>1. ASSUME NEW o \in Ops, NEW r \in Routes, NEW p \in Providers, Enable(o, r, p) \/ Switch(o, r, p)
      PROVE  Puts(o, r, p)
  BY <1>1, ArriveFacts DEF Puts, Enable, Switch
<1>2. ASSUME NEW o \in Ops, NEW r \in Routes, NEW p \in Providers \cup {None}, NEW kind \in {"switch", "disable"},
             TakeDown(o, kind, r, p)
      PROVE  Takes(o, r, p)
  BY <1>2, ArriveFacts DEF Takes, TakeDown
<1>3. ASSUME NEW o \in Ops, NEW r \in Routes, Reset(o, r)
      PROVE  Aside(o)
  BY <1>3, ArriveFacts DEF Aside, Reset, Notes
<1>4. ASSUME NEW o \in Ops, NEW p \in Providers, DeleteProvider(o, p)
      PROVE  Aside(o)
  BY <1>4, GoOnFacts DEF Aside, DeleteProvider, history
<1>5. ASSUME NEW o \in Ops, ProviderDeleted(o)
      PROVE  Aside(o)
  BY <1>5, GoOnFacts DEF Aside, ProviderDeleted
<1>6. ASSUME NEW o \in Ops, Unpublish(o) \/ Unserve(o)
      PROVE  Continues(o)
  BY <1>6, GoOnFacts DEF Continues, Calls, Down, Unpublish, Unserve, history
<1>7. ASSUME NEW o \in Ops, CallFails(o) \/ Publish(o) \/ Published(o) \/ Probe(o) \/ Serve(o) \/ Post(o)
      PROVE  Continues(o)
  <2>1. Calls(o) /\ Up(o) /\ UNCHANGED <<clash, raced>>
    BY <1>7 DEF Calls, Up, CallFails, Publish, Published, Probe, Serve, Post, history
  <2>2. Stops(o) \/ \E pc \in {"answer", "probe", "serve", "post"} : Becomes(o, pc, op[o].r, op[o].p, op[o].old)
    BY <1>7, GoOnFacts, PublishFacts
  <2>. QED
    BY <2>1, <2>2 DEF Continues
<1>8. CASE \/ \E p \in Providers : DisableProvider(p) \/ StartProvider(p) \/ AgentRestarts(p)
           \/ \E r \in Routes : DeleteRoute(r)
           \/ CaddyRestarts \/ ApplicationRestarts
  BY <1>8 DEF OpStep, DisableProvider, StartProvider, AgentRestarts, DeleteRoute, CaddyRestarts, ApplicationRestarts, history
<1>. QED
  BY <1>1, <1>2, <1>3, <1>4, <1>5, <1>6, <1>7, <1>8 DEF Next, OpStep

\* A request that is over stays as it is.
LEMMA OverStays ==
    ASSUME OpStep
    PROVE  \A q \in Ops : Over(q) => op'[q] = op[q]
BY DEF OpStep, Puts, Takes, Continues, Aside, Becomes, Stops, Only, Over, Calls, Up, Down, Runs

LEMMA HistoryGrows == ASSUME OpStep PROVE clash \subseteq clash' /\ raced \subseteq raced'
BY DEF OpStep, Puts, Takes, Continues, Aside, Notes

LEMMA RequestsFitStays == ASSUME Base, OpStep PROVE RequestsFit'
<1>. op \in [Ops -> Requests] /\ RequestsFit /\ RefsFit /\ alive \subseteq Routes
  BY DEF Base, TypeOK
<1>. DEFINE Fit(o) ==
        /\ Calls(o) => op[o].r \in Routes
        /\ Up(o) => op[o].p \in Providers /\ op[o].old = None
        /\ Down(o) => Over(op[o].old) /\ op[op[o].old].r = op[o].r
        /\ op[o].pc = "unload" => op[o].p \in Providers /\ op[o].r = None
<1>1. ASSUME NEW q \in Ops, op'[q] = op[q]
      PROVE  Fit(q)'
  BY <1>1, OverStays DEF RequestsFit, Calls, Up, Down, Over
<1>2. ASSUME NEW o \in Ops, Only(o), Fit(o)'
      PROVE  RequestsFit'
  BY <1>1, <1>2 DEF Only, RequestsFit
<1>3. ASSUME NEW o \in Ops, NEW r \in Routes, NEW p, Puts(o, r, p)
      PROVE  RequestsFit'
  BY <1>2, <1>3 DEF Puts, Becomes, Calls, Up, Down
<1>4. ASSUME NEW o \in Ops, NEW r \in Routes, NEW p, Takes(o, r, p)
      PROVE  RequestsFit'
  <2>1. Over(ref[r]) /\ ref[r] \in Ops /\ op[ref[r]].r = r
    <3>1. ref[r] \in Ops
      BY <1>4 DEF Takes, TypeOK, Base
    <3>2. ref[r] # None
      BY <3>1, ConstantFacts
    <3>. QED
      BY <3>1, <3>2 DEF RefsFit, TunnelHasRow, Base
  <2>2. op'[ref[r]] = op[ref[r]]
    BY <2>1, OverStays
  <2>3. op'[o].pc = "unpublish" /\ op'[o].r = r /\ op'[o].old = ref[r] /\ Only(o)
    BY <1>4 DEF Takes, Becomes
  <2>4. Fit(o)'
    BY <2>1, <2>2, <2>3 DEF Calls, Up, Down, Over
  <2>. QED
    BY <1>2, <2>3, <2>4
<1>5. ASSUME NEW o \in Ops, Continues(o)
      PROVE  RequestsFit'
  <2>1. CASE Stops(o)
    BY <1>2, <2>1 DEF Stops, Calls, Up, Down
  <2>2. CASE \E pc \in {"answer", "probe", "serve", "post"} :
              Up(o) /\ Becomes(o, pc, op[o].r, op[o].p, op[o].old)
    BY <1>2, <2>2 DEF Becomes, RequestsFit, Calls, Up, Down
  <2>3. CASE op[o].pc = "unpublish" /\ Becomes(o, "unserve", op[o].r, op[o].p, op[o].old)
    <3>1. Over(op[o].old) /\ op[o].old \in Ops /\ op[op[o].old].r = op[o].r /\ op[o].r \in Routes
      BY <2>3 DEF RequestsFit, Calls, Down, Over
    <3>2. op'[op[o].old] = op[op[o].old]
      BY <3>1, OverStays
    <3>3. op'[o].pc = "unserve" /\ op'[o].r = op[o].r /\ op'[o].old = op[o].old /\ Only(o)
      BY <2>3 DEF Becomes
    <3>4. Fit(o)'
      BY <3>1, <3>2, <3>3 DEF Calls, Up, Down, Over
    <3>. QED
      BY <1>2, <3>3, <3>4
  <2>4. CASE Down(o) /\ Becomes(o, "publish", op[o].r, op[o].p, None) /\ op[o].p \in Providers
    BY <1>2, <2>4 DEF Becomes, RequestsFit, Calls, Up, Down
  <2>. QED
    BY <1>5, <2>1, <2>2, <2>3, <2>4 DEF Continues
<1>6. ASSUME NEW o \in Ops, Aside(o)
      PROVE  RequestsFit'
  BY <1>2, <1>6 DEF Aside, Stops, Becomes, Calls, Up, Down
<1>7. CASE UNCHANGED <<op, clash, raced>>
  BY <1>1, <1>7 DEF RequestsFit
<1>8. CASE op' = [o \in Ops |-> IF Runs(o) THEN Finished ELSE op[o]]
  <2>1. ASSUME NEW q \in Ops
        PROVE  Fit(q)'
    <3>1. CASE Runs(q)
      BY <1>8, <3>1, ConstantFacts DEF Calls, Up, Down
    <3>2. CASE ~Runs(q)
      BY <1>1, <1>8, <3>2
    <3>. QED
      BY <3>1, <3>2
  <2>. QED
    BY <2>1 DEF RequestsFit
<1>. QED
  BY <1>3, <1>4, <1>5, <1>6, <1>7, <1>8 DEF OpStep

------------------------------------------------------------------------------
(* The histories.                                                           *)

LEMMA ClashStays == ASSUME Base, ClashIsNoted, OpStep PROVE ClashIsNoted'
<1>. clash \subseteq clash'
  BY HistoryGrows
<1>1. ASSUME NEW o \in Ops, Only(o),
             Calls(o)' => \A q \in Ops \ {o} : Calls(q) /\ op[q].r = op'[o].r => op'[o].r \in clash'
      PROVE  ClashIsNoted'
  BY <1>1 DEF ClashIsNoted, Only, Calls, Up, Down
<1>2. ASSUME NEW o \in Ops, NEW r \in Routes, NEW p, Puts(o, r, p) \/ Takes(o, r, p)
      PROVE  ClashIsNoted'
  <2>1. Only(o) /\ op'[o].r = r
    BY <1>2 DEF Puts, Takes, Becomes
  <2>2. ASSUME NEW q \in Ops \ {o}, Calls(q), op[q].r = r
        PROVE  r \in clash'
    BY <1>2, <2>2 DEF Puts, Takes, Notes, Runs, Calls, Up, Down
  <2>. QED
    BY <1>1, <2>1, <2>2
<1>3. ASSUME NEW o \in Ops, Continues(o)
      PROVE  ClashIsNoted'
  <2>1. Calls(o) /\ Only(o) /\ (Calls(o)' => op'[o].r = op[o].r)
    BY <1>3 DEF Continues, Stops, Becomes, Calls, Up, Down
  <2>. QED
    BY <1>1, <2>1 DEF ClashIsNoted
<1>4. ASSUME NEW o \in Ops, Aside(o)
      PROVE  ClashIsNoted'
  BY <1>1, <1>4 DEF Aside, Stops, Becomes, Calls, Up, Down
<1>5. CASE UNCHANGED <<op, clash, raced>>
  BY <1>5 DEF ClashIsNoted, Calls, Up, Down
<1>6. CASE op' = [o \in Ops |-> IF Runs(o) THEN Finished ELSE op[o]]
  BY <1>6, ConstantFacts DEF ClashIsNoted, Calls, Up, Down, Runs
<1>. QED
  BY <1>2, <1>3, <1>4, <1>5, <1>6 DEF OpStep

LEMMA TouchesFacts ==
    ASSUME Base, NEW o \in Ops
    PROVE  /\ Up(o) => Touches(o) = {TypeOf[op[o].p]}
           /\ Down(o) => /\ TypeOf[op[op[o].old].p] \in Touches(o)
                         /\ op[o].p \in Providers => TypeOf[op[o].p] \in Touches(o)
<1>1. CASE Up(o)
  <2>1. op[o].old = None /\ op[o].p # None
    BY <1>1, ConstantFacts DEF Base, RequestsFit, Up, Down, Calls
  <2>. QED
    BY <1>1, <2>1 DEF Touches, Up, Down
<1>2. CASE Down(o)
  <2>1. op[o].old # None /\ op[op[o].old].p # None
    BY <1>2, ConstantFacts DEF Base, RequestsFit, Over
  <2>. QED
    BY <1>2, <2>1, ConstantFacts DEF Touches, Up, Down
<1>. QED
  BY <1>1, <1>2

LEMMA TouchesStay ==
    ASSUME Base, OpStep, NEW q \in Ops, Calls(q), op'[q] = op[q]
    PROVE  Touches(q)' = Touches(q)
<1>1. op[q].old # None => op'[op[q].old] = op[op[q].old]
  BY OverStays DEF Base, RequestsFit, Calls, Over
<1>. QED
  BY <1>1 DEF Touches

LEMMA RaceStays == ASSUME Base, RaceIsNoted, OpStep PROVE RaceIsNoted'
<1>. raced \subseteq raced'
  BY HistoryGrows
<1>1. ASSUME NEW o \in Ops, Only(o),
             Calls(o)' => \A q \in Ops \ {o} : Calls(q) => Touches(o)' \cap Touches(q) \subseteq raced'
      PROVE  RaceIsNoted'
  <2>1. ASSUME NEW q \in Ops \ {o}
        PROVE  Calls(q)' => Calls(q) /\ Touches(q)' = Touches(q)
    BY <1>1, TouchesStay DEF Only, Calls, Up, Down
  <2>. QED
    BY <1>1, <2>1 DEF RaceIsNoted
<1>2. ASSUME NEW o \in Ops, NEW r \in Routes, NEW p \in Providers, Puts(o, r, p)
      PROVE  RaceIsNoted'
  <2>1. Only(o) /\ op'[o].p = p /\ op'[o].old = None /\ op[o].pc = "new"
    BY <1>2 DEF Puts, Becomes
  <2>2. Touches(o)' = {TypeOf[x] : x \in {p}}
    BY <2>1, ConstantFacts DEF Touches
  <2>3. ASSUME NEW q \in Ops \ {o}, Calls(q)
        PROVE  Touches(o)' \cap Touches(q) \subseteq raced'
    BY <1>2, <2>2, <2>3 DEF Puts, Notes, Runs, Calls, Up, Down
  <2>. QED
    BY <1>1, <2>1, <2>3
<1>3. ASSUME NEW o \in Ops, NEW r \in Routes, NEW p \in Providers \cup {None}, Takes(o, r, p)
      PROVE  RaceIsNoted'
  <2>1. Only(o) /\ op'[o].p = p /\ op'[o].old = ref[r] /\ op[o].pc = "new"
    BY <1>3 DEF Takes, Becomes
  <2>2. ref[r] \in Ops /\ Over(ref[r])
    BY <1>3 DEF Takes, Base, TypeOK, RefsFit
  <2>3. ref[r] # None /\ op'[ref[r]] = op[ref[r]]
    BY <2>2, OverStays, ConstantFacts
  <2>4. Touches(o)' = {TypeOf[x] : x \in {p, op[ref[r]].p} \ {None}}
    BY <2>1, <2>3 DEF Touches
  <2>5. ASSUME NEW q \in Ops \ {o}, Calls(q)
        PROVE  Touches(o)' \cap Touches(q) \subseteq raced'
    BY <1>3, <2>4, <2>5 DEF Takes, Notes, Runs, Calls, Up, Down
  <2>. QED
    BY <1>1, <2>1, <2>5
<1>4. ASSUME NEW o \in Ops, Continues(o)
      PROVE  RaceIsNoted'
  <2>1. Calls(o) /\ Only(o)
    BY <1>4 DEF Continues, Stops, Becomes
  <2>2. Calls(o)' => Touches(o)' \subseteq Touches(o)
    <3>1. CASE Stops(o)
      BY <3>1 DEF Stops, Calls, Up, Down
    <3>2. CASE op'[o].p = op[o].p /\ op'[o].old = op[o].old
      <4>1. op[o].old # None => op[o].old \in Ops /\ op'[op[o].old] = op[op[o].old]
        BY <2>1, OverStays DEF Base, RequestsFit, Calls, Over
      <4>. QED
        BY <3>2, <4>1 DEF Touches
    <3>3. CASE op'[o].p = op[o].p /\ op'[o].old = None
      BY <3>3 DEF Touches
    <3>. QED
      BY <1>4, <3>1, <3>2, <3>3 DEF Continues, Becomes
  <2>. QED
    BY <1>1, <2>1, <2>2 DEF RaceIsNoted
<1>5. ASSUME NEW o \in Ops, Aside(o)
      PROVE  RaceIsNoted'
  BY <1>1, <1>5 DEF Aside, Stops, Becomes, Calls, Up, Down
<1>6. CASE UNCHANGED <<op, clash, raced>>
  BY <1>6 DEF RaceIsNoted, Calls, Up, Down, Touches
<1>7. CASE op' = [o \in Ops |-> IF Runs(o) THEN Finished ELSE op[o]]
  BY <1>7, ConstantFacts DEF RaceIsNoted, Calls, Up, Down, Runs
<1>. QED
  BY <1>2, <1>3, <1>4, <1>5, <1>6, <1>7, ConstantFacts DEF OpStep, Puts

------------------------------------------------------------------------------
(* The tables.                                                              *)

\* What Post writes.
Inserts(o) ==
    /\ op[o].pc = "post" /\ op[o].r \in alive /\ op[o].p \in exists
    /\ rows' = rows \cup {o} /\ ref' = [ref EXCEPT ![op[o].r] = o]
    /\ UNCHANGED <<alive, exists>>
    /\ Stops(o) /\ op'[o].r = op[o].r /\ op'[o].p = op[o].p /\ op'[o].port = op[o].port

LEMMA PostFacts ==
    ASSUME TypeOK, NEW o \in Ops, Post(o)
    PROVE  \/ UNCHANGED <<inner, tables>>
           \/ /\ inner[TypeOf[op[o].p]] # None
              /\ inner' = [inner EXCEPT ![TypeOf[op[o].p]] = @ \cup {op[o].r}]
              /\ UNCHANGED tables \/ Inserts(o)
<1>1. CASE UNCHANGED <<inner, tables>>
  BY <1>1
<1>2. CASE /\ inner[TypeOf[op[o].p]] # None
           /\ inner' = [inner EXCEPT ![TypeOf[op[o].p]] = @ \cup {op[o].r}]
           /\ IF op[o].r \in alive /\ op[o].p \in exists
              THEN rows' = rows \cup {o} /\ ref' = [ref EXCEPT ![op[o].r] = o] /\ Ends(o)
              ELSE UNCHANGED <<rows, ref>> /\ Finishes(o)
           /\ UNCHANGED <<alive, exists>>
  <2>1. UNCHANGED tables \/ Inserts(o)
    BY <1>2, MoveFacts DEF Inserts, tables, Post
  <2>. QED
    BY <1>2, <2>1
<1>. QED
  BY <1>1, <1>2 DEF Post

\* The ways in which the tables change.
Clears(r) ==
    /\ r \in alive /\ ~HasTunnel(r)
    /\ ref' = [ref EXCEPT ![r] = None] /\ UNCHANGED <<alive, rows, exists>>

Removes(o) ==
    /\ op[o].pc = "unserve" /\ UNCHANGED <<alive, exists>>
    /\ rows' = rows \ {op[o].old}
    /\ ref' = IF op[o].r \in alive THEN [ref EXCEPT ![op[o].r] = None] ELSE ref

DropsProvider(p) ==
    /\ exists' = exists \ {p} /\ rows' = {q \in rows : op[q].p # p} /\ UNCHANGED <<alive, ref>>

DropsRoute(r) ==
    /\ alive' = alive \ {r} /\ ref' = [ref EXCEPT ![r] = None]
    /\ rows' = {q \in rows : op[q].r # r} /\ UNCHANGED <<exists, op>>

TableStep ==
    \/ UNCHANGED tables
    \/ \E r \in Routes : Clears(r) \/ DropsRoute(r)
    \/ \E o \in Ops : Removes(o) \/ Inserts(o)
    \/ \E p \in Providers : DropsProvider(p)

LEMMA TableKinds == ASSUME Base, Next PROVE TableStep
<1>. TypeOK /\ RequestsFit
  BY DEF Base
<1>1. ASSUME NEW o \in Ops, NEW r \in Routes, NEW p, NEW kind,
             Enable(o, r, p) \/ TakeDown(o, kind, r, p) \/ Switch(o, r, p) \/ Reset(o, r)
      PROVE  TableStep
  BY <1>1 DEF Enable, TakeDown, Switch, Reset, TableStep, Clears
<1>2. ASSUME NEW o \in Ops, Unpublish(o) \/ CallFails(o) \/ Publish(o) \/ Published(o) \/ Probe(o) \/ Serve(o)
      PROVE  TableStep
  BY <1>2 DEF TableStep, Unpublish, CallFails, Publish, Published, Probe, Serve
<1>3. ASSUME NEW o \in Ops, Unserve(o)
      PROVE  TableStep
  BY <1>3 DEF TableStep, Removes, Unserve
<1>4. ASSUME NEW o \in Ops, Post(o)
      PROVE  TableStep
  BY <1>4, PostFacts DEF TableStep
<1>5. ASSUME NEW o \in Ops, ProviderDeleted(o)
      PROVE  TableStep
  BY <1>5 DEF TableStep, DropsProvider, ProviderDeleted, RequestsFit
<1>6. ASSUME NEW r \in Routes, DeleteRoute(r)
      PROVE  TableStep
  BY <1>6 DEF TableStep, DropsRoute, DeleteRoute
<1>7. CASE \/ \E o \in Ops, p \in Providers : DeleteProvider(o, p)
           \/ \E p \in Providers : DisableProvider(p) \/ StartProvider(p) \/ AgentRestarts(p)
           \/ CaddyRestarts \/ ApplicationRestarts
  BY <1>7 DEF TableStep, DeleteProvider, DisableProvider, StartProvider, AgentRestarts, CaddyRestarts, ApplicationRestarts
<1>. QED
  BY <1>1, <1>2, <1>3, <1>4, <1>5, <1>6, <1>7 DEF Next

\* Rows and references stay with requests that are over.
LEMMA RefsFitStays ==
    ASSUME Base, OpStep, TableStep
    PROVE  /\ RefsFit'
           /\ rows' \subseteq Ops /\ ref' \in [Routes -> Ops \cup {None}]
           /\ alive' \subseteq Routes /\ exists' \subseteq Providers
           /\ \A q \in rows' : op'[q].r \in alive' /\ op'[q].p \in exists'
<1>. /\ rows \subseteq Ops /\ ref \in [Routes -> Ops \cup {None}]
     /\ alive \subseteq Routes /\ exists \subseteq Providers
     /\ \A q \in rows : Over(q) /\ op'[q] = op[q] /\ op[q].r \in alive /\ op[q].p \in exists
     /\ \A r \in Routes : ref[r] # None => r \in alive /\ Over(ref[r]) /\ op'[ref[r]] = op[ref[r]]
  BY OverStays DEF Base, TypeOK, RefsFit, Over
<1>1. ASSUME rows' \subseteq rows, \A r \in Routes : ref'[r] \in {ref[r], None},
             \A r \in Routes : ref'[r] # None => r \in alive'
      PROVE  RefsFit'
  BY <1>1 DEF RefsFit, Over
<1>2. CASE UNCHANGED tables
  BY <1>1, <1>2 DEF tables
<1>3. ASSUME NEW r \in Routes, Clears(r)
      PROVE  /\ RefsFit'
             /\ rows' \subseteq Ops /\ ref' \in [Routes -> Ops \cup {None}]
             /\ \A q \in rows' : op'[q].r \in alive' /\ op'[q].p \in exists'
  BY <1>1, <1>3 DEF Clears
<1>4. ASSUME NEW r \in Routes, DropsRoute(r)
      PROVE  /\ RefsFit'
             /\ rows' \subseteq Ops /\ ref' \in [Routes -> Ops \cup {None}]
             /\ \A q \in rows' : op'[q].r \in alive' /\ op'[q].p \in exists'
  BY <1>1, <1>4 DEF DropsRoute
<1>5. ASSUME NEW o \in Ops, Removes(o)
      PROVE  /\ RefsFit'
             /\ rows' \subseteq Ops /\ ref' \in [Routes -> Ops \cup {None}]
             /\ \A q \in rows' : op'[q].r \in alive' /\ op'[q].p \in exists'
  BY <1>1, <1>5 DEF Removes
<1>6. ASSUME NEW o \in Ops, Inserts(o)
      PROVE  /\ RefsFit'
             /\ rows' \subseteq Ops /\ ref' \in [Routes -> Ops \cup {None}]
             /\ \A q \in rows' : op'[q].r \in alive' /\ op'[q].p \in exists'
  <2>1. op'[o].pc = "done" /\ op'[o].p \in Providers /\ op'[o].p \in exists /\ op'[o].r \in alive
    BY <1>6 DEF Inserts, Stops
  <2>2. /\ rows' = rows \cup {o} /\ ref' = [ref EXCEPT ![op[o].r] = o] /\ alive' = alive /\ exists' = exists
        /\ op[o].r \in alive
    BY <1>6 DEF Inserts
  <2>. QED
    BY <2>1, <2>2 DEF RefsFit, Over
<1>7. ASSUME NEW p \in Providers, DropsProvider(p)
      PROVE  /\ RefsFit'
             /\ \A q \in rows' : op'[q].r \in alive' /\ op'[q].p \in exists'
  BY <1>1, <1>7 DEF DropsProvider
<1>. QED
  BY <1>2, <1>3, <1>4, <1>5, <1>6, <1>7 DEF TableStep, tables, Clears, DropsRoute, Removes, Inserts, DropsProvider

\* Every reference has a row of its route, unless its provider is gone.
LEMMA TunnelHasRowStays == ASSUME Base, OpStep, TableStep PROVE TunnelHasRow'
<1>. /\ ref \in [Routes -> Ops \cup {None}] /\ alive \subseteq Routes
     /\ \A r \in Routes : ref[r] # None => /\ op[ref[r]].r = r /\ op'[ref[r]] = op[ref[r]]
                                           /\ ref[r] \in rows \/ op[ref[r]].p \notin exists
  BY OverStays DEF Base, TypeOK, RefsFit, Over, TunnelHasRow
<1>1. ASSUME \A r \in Routes : ref'[r] \in {ref[r], None}, exists' \subseteq exists,
             \A r \in Routes : ref'[r] # None /\ ref[r] \in rows => ref[r] \in rows' \/ op[ref[r]].p \notin exists'
      PROVE  TunnelHasRow'
  BY <1>1 DEF TunnelHasRow
<1>2. CASE UNCHANGED tables
  BY <1>1, <1>2 DEF tables
<1>3. ASSUME NEW r \in Routes, Clears(r) \/ DropsRoute(r)
      PROVE  TunnelHasRow'
  BY <1>1, <1>3 DEF Clears, DropsRoute
<1>4. ASSUME NEW o \in Ops, Removes(o)
      PROVE  TunnelHasRow'
  <2>1. op[o].r \in Routes /\ op[op[o].old].r = op[o].r
    BY <1>4 DEF Removes, Base, RequestsFit, Calls, Down
  <2>2. ASSUME NEW r \in Routes, ref'[r] # None
        PROVE  ref'[r] = ref[r] /\ ref[r] # op[o].old
    <3>1. ref[r] # None => r \in alive
      BY DEF Base, RefsFit
    <3>. QED
      BY <1>4, <2>1, <2>2, <3>1 DEF Removes
  <2>3. \A r \in Routes : ref'[r] \in {ref[r], None}
    BY <1>4 DEF Removes
  <2>. QED
    BY <1>1, <1>4, <2>2, <2>3 DEF Removes
<1>5. ASSUME NEW o \in Ops, Inserts(o)
      PROVE  TunnelHasRow'
  BY <1>5 DEF Inserts, TunnelHasRow
<1>6. ASSUME NEW p \in Providers, DropsProvider(p)
      PROVE  TunnelHasRow'
  BY <1>1, <1>6 DEF DropsProvider
<1>. QED
  BY <1>2, <1>3, <1>4, <1>5, <1>6 DEF TableStep

\* A row is the one its route refers to, unless requests for it overlapped.
LEMMA RowIsReferredStays ==
    ASSUME Base, RowIsReferred, RefIsMine, OpStep, TableStep
    PROVE  RowIsReferred'
<1>. clash \subseteq clash'
  BY HistoryGrows
<1>. /\ rows \subseteq Ops /\ ref \in [Routes -> Ops \cup {None}] /\ alive \subseteq Routes
     /\ \A q \in rows : op'[q] = op[q] /\ op[q].r \in Routes /\ op[q].r \in alive
     /\ \A q \in rows : op[q].r \notin clash' => ref[op[q].r] = q
  BY OverStays DEF Base, TypeOK, RefsFit, Over, RowIsReferred
<1>1. ASSUME rows' \subseteq rows, \A q \in rows' : op[q].r \notin clash' => ref'[op[q].r] = ref[op[q].r]
      PROVE  RowIsReferred'
  BY <1>1 DEF RowIsReferred
<1>2. CASE UNCHANGED tables
  BY <1>1, <1>2 DEF tables
<1>3. ASSUME NEW r \in Routes, Clears(r) \/ DropsRoute(r)
      PROVE  RowIsReferred'
  <2>1. \A q \in rows' : op[q].r = r => op[q].r \in clash'
    BY <1>3 DEF Clears, DropsRoute, HasTunnel
  <2>. QED
    BY <1>1, <1>3, <2>1 DEF Clears, DropsRoute
<1>4. ASSUME NEW o \in Ops, Removes(o)
      PROVE  RowIsReferred'
  <2>1. op[o].r \notin clash' => ref[op[o].r] \in {op[o].old, None}
    BY <1>4 DEF Removes, RefIsMine, Down
  <2>2. \A q \in rows' : op[q].r = op[o].r => op[q].r \in clash'
    BY <1>4, <2>1, ConstantFacts DEF Removes
  <2>. QED
    BY <1>1, <1>4, <2>2 DEF Removes
<1>5. ASSUME NEW o \in Ops, Inserts(o)
      PROVE  RowIsReferred'
  <2>1. op[o].r \notin clash' => ref[op[o].r] = None
    BY <1>5 DEF Inserts, RefIsMine, Up
  <2>2. \A q \in rows : op[q].r = op[o].r => op[q].r \in clash'
    BY <2>1, ConstantFacts
  <2>. QED
    BY <1>5, <2>2 DEF Inserts, RowIsReferred
<1>6. ASSUME NEW p \in Providers, DropsProvider(p)
      PROVE  RowIsReferred'
  BY <1>1, <1>6 DEF DropsProvider
<1>. QED
  BY <1>2, <1>3, <1>4, <1>5, <1>6 DEF TableStep

\* A request finds the reference as it left it, or nobody's.
LEMMA RefIsMineStays ==
    ASSUME Base, RefIsMine, ClashIsNoted, Next
    PROVE  RefIsMine'
<1>. /\ OpStep /\ TableStep /\ clash \subseteq clash'
     /\ ref \in [Routes -> Ops \cup {None}] /\ TypeOK /\ RequestsFit
  BY StepKinds, TableKinds, HistoryGrows DEF Base, TypeOK
<1>1. ASSUME NEW q \in Ops, Calls(q), op'[q] = op[q], op[q].r \notin clash'
      PROVE  ref'[op[q].r] \in {ref[op[q].r], None}
  <2>1. op[q].r \in Routes
    BY <1>1 DEF Base, RequestsFit
  <2>2. CASE UNCHANGED tables
    BY <2>2 DEF tables
  <2>3. ASSUME NEW r \in Routes, Clears(r) \/ DropsRoute(r)
        PROVE  ref'[op[q].r] \in {ref[op[q].r], None}
    BY <2>1, <2>3 DEF Clears, DropsRoute
  <2>4. ASSUME NEW o \in Ops, Removes(o)
        PROVE  ref'[op[q].r] \in {ref[op[q].r], None}
    BY <2>1, <2>4 DEF Removes
  <2>5. ASSUME NEW o \in Ops, Inserts(o)
        PROVE  ref'[op[q].r] \in {ref[op[q].r], None}
    <3>1. q # o /\ Calls(o)
      BY <1>1, <2>5 DEF Inserts, Stops, Calls, Up, Down
    <3>2. op[q].r # op[o].r
      BY <1>1, <3>1 DEF ClashIsNoted
    <3>. QED
      BY <2>1, <2>5, <3>2 DEF Inserts
  <2>6. ASSUME NEW p \in Providers, DropsProvider(p)
        PROVE  ref'[op[q].r] \in {ref[op[q].r], None}
    BY <2>6 DEF DropsProvider
  <2>. QED
    BY <2>2, <2>3, <2>4, <2>5, <2>6 DEF TableStep
<1>. DEFINE Mine(q) == op[q].r \notin clash =>
                          /\ Up(q)   => ref[op[q].r] = None
                          /\ Down(q) => ref[op[q].r] \in {op[q].old, None}
<1>2. ASSUME NEW q \in Ops, op'[q] = op[q]
      PROVE  Mine(q)'
  BY <1>1, <1>2 DEF RefIsMine, Calls, Up, Down
<1>3. ASSUME NEW o \in Ops, Only(o), Mine(o)'
      PROVE  RefIsMine'
  BY <1>2, <1>3 DEF RefIsMine, Only
<1>4. ASSUME NEW o \in Ops, Stops(o)
      PROVE  RefIsMine'
  BY <1>3, <1>4 DEF Stops, Up, Down
<1>5. ASSUME op' = op
      PROVE  RefIsMine'
  BY <1>2, <1>5 DEF RefIsMine
<1>6. ASSUME NEW o \in Ops, NEW r \in Routes, NEW p \in Providers, Enable(o, r, p) \/ Switch(o, r, p)
      PROVE  RefIsMine'
  <2>1. Becomes(o, "publish", r, p, None)
    BY <1>6, ArriveFacts
  <2>2. ref'[r] = None
    BY <1>6 DEF Enable, Switch, tables
  <2>. QED
    BY <1>3, <2>1, <2>2 DEF Becomes, Up, Down
<1>7. ASSUME NEW o \in Ops, NEW r \in Routes, NEW p \in Providers \cup {None}, NEW kind \in {"switch", "disable"},
             TakeDown(o, kind, r, p)
      PROVE  RefIsMine'
  <2>1. Becomes(o, "unpublish", r, p, ref[r]) /\ ref' = ref
    BY <1>7, ArriveFacts DEF TakeDown, tables
  <2>. QED
    BY <1>3, <2>1 DEF Becomes, Up, Down
<1>8. ASSUME NEW o \in Ops, NEW r \in Routes, Reset(o, r)
      PROVE  RefIsMine'
  BY <1>4, <1>8, ArriveFacts
<1>9. ASSUME NEW o \in Ops, NEW p \in Providers, DeleteProvider(o, p)
      PROVE  RefIsMine'
  <2>1. Becomes(o, "unload", None, p, None)
    BY <1>9, GoOnFacts
  <2>. QED
    BY <1>3, <2>1 DEF Becomes, Up, Down
<1>10. ASSUME NEW o \in Ops, Unpublish(o)
       PROVE  RefIsMine'
  <2>1. Becomes(o, "unserve", op[o].r, op[o].p, op[o].old) /\ ref' = ref /\ Down(o)
    BY <1>10, GoOnFacts DEF Unpublish, tables, Down
  <2>. QED
    BY <1>3, <2>1 DEF Becomes, RefIsMine, Up, Down
<1>11. ASSUME NEW o \in Ops, Unserve(o)
       PROVE  RefIsMine'
  <2>1. Becomes(o, "publish", op[o].r, op[o].p, None) \/ Stops(o)
    BY <1>11, GoOnFacts
  <2>2. op[o].r \in Routes
    BY <1>11 DEF Unserve, RequestsFit, Calls, Down
  <2>3. ref'[op[o].r] = None
    BY <1>11, <2>2 DEF Unserve, Base, RefsFit
  <2>. QED
    BY <1>3, <1>4, <2>1, <2>3 DEF Becomes, Up, Down
<1>12. ASSUME NEW o \in Ops, CallFails(o) \/ Post(o) \/ ProviderDeleted(o)
       PROVE  RefIsMine'
  BY <1>4, <1>12, GoOnFacts
<1>13. ASSUME NEW o \in Ops, Publish(o) \/ Published(o) \/ Probe(o) \/ Serve(o)
       PROVE  RefIsMine'
  <2>1. Up(o) /\ ref' = ref
    BY <1>13 DEF Publish, Published, Probe, Serve, Up, tables
  <2>2. Stops(o) \/ \E pc \in {"answer", "probe", "serve", "post"} : Becomes(o, pc, op[o].r, op[o].p, op[o].old)
    BY <1>13, GoOnFacts, PublishFacts
  <2>. QED
    BY <1>3, <1>4, <2>1, <2>2 DEF Becomes, RefIsMine, Up, Down
<1>14. CASE \/ \E p \in Providers : DisableProvider(p) \/ StartProvider(p) \/ AgentRestarts(p)
            \/ \E r \in Routes : DeleteRoute(r)
            \/ CaddyRestarts
  BY <1>5, <1>14 DEF DisableProvider, StartProvider, AgentRestarts, DeleteRoute, CaddyRestarts
<1>15. CASE ApplicationRestarts
  <2>1. ASSUME NEW q \in Ops
        PROVE  Mine(q)'
    BY <1>2, <1>15, ConstantFacts DEF ApplicationRestarts, Up, Down
  <2>. QED
    BY <2>1 DEF RefIsMine
<1>. QED
  BY <1>6, <1>7, <1>8, <1>9, <1>10, <1>11, <1>12, <1>13, <1>14, <1>15 DEF Next

\* The types.
LEMMA UnloadTypes ==
    ASSUME TypeOK, NEW p \in Providers, Unload(p)
    PROVE  /\ loaded' \subseteq Providers /\ reloaded' \subseteq Providers
           /\ names' \in [Providers -> [Routes -> Ports \cup {0, None}]]
           /\ published' \in [Providers -> SUBSET Routes]
BY DEF TypeOK, Unload, NoNames

LEMMA NotesTypes ==
    ASSUME TypeOK, NEW r \in Routes, NEW ps \in SUBSET Providers, NEW o, Notes(o, r, ps)
    PROVE  /\ clash' \subseteq Routes /\ raced' \subseteq Types
           /\ UNCHANGED <<hurt, reloaded, events>>
BY DEF TypeOK, Notes

LEMMA TypeStep == ASSUME Base, Next PROVE TypeOK'
<1>. /\ TypeOK /\ OpStep /\ TableStep /\ RequestsFit
     /\ rows' \subseteq Ops /\ ref' \in [Routes -> Ops \cup {None}]
     /\ alive' \subseteq Routes /\ exists' \subseteq Providers
     /\ \A q \in rows' : op'[q].r \in alive' /\ op'[q].p \in exists'
  BY StepKinds, TableKinds, RefsFitStays DEF Base
<1>. /\ loaded \subseteq Providers /\ names \in [Providers -> [Routes -> Ports \cup {0, None}]]
     /\ published \in [Providers -> SUBSET Routes] /\ inner \in [Types -> {None} \cup SUBSET Routes]
     /\ events \in 0 .. MaxEvents /\ clash \subseteq Routes /\ raced \subseteq Types /\ hurt \subseteq Types
     /\ reloaded \subseteq Providers /\ exists \subseteq Providers /\ op \in [Ops -> Requests]
     /\ alive \subseteq Routes
  BY DEF TypeOK
<1>. DEFINE Loads     == loaded' \subseteq Providers /\ reloaded' \subseteq Providers
            Outside   == /\ names' \in [Providers -> [Routes -> Ports \cup {0, None}]]
                         /\ published' \in [Providers -> SUBSET Routes]
            Served    == inner' \in [Types -> {None} \cup SUBSET Routes]
            Histories == clash' \subseteq Routes /\ raced' \subseteq Types /\ hurt' \subseteq Types
            Events    == events' \in 0 .. MaxEvents
            Rest      == Loads /\ Outside /\ Served /\ Histories /\ Events
<1>1. op' \in [Ops -> Requests]
  BY ConstantFacts DEF OpStep, Puts, Takes, Continues, Aside, Becomes, Stops, Only
<1>2. UNCHANGED <<loaded, outside, events, history>> => Rest
  BY DEF outside, history
<1>3. ASSUME NEW o \in Ops, NEW r \in Routes, NEW p \in Providers, Enable(o, r, p) \/ Switch(o, r, p)
      PROVE  Rest
  BY <1>3, NotesTypes DEF Enable, Switch, outside
<1>4. ASSUME NEW o \in Ops, NEW r \in Routes, NEW p \in Providers \cup {None}, 
             NEW kind \in {"switch", "disable"}, TakeDown(o, kind, r, p)
      PROVE  Rest
  <2>1. {p, op[ref[r]].p} \ {None} \in SUBSET Providers
    <3>1. ref[r] \in Ops
      BY <1>4 DEF TakeDown, HasTunnel, TypeOK
    <3>. QED
      BY <3>1 DEF Requests
  <2>. QED
    BY <1>4, <2>1, NotesTypes DEF TakeDown, outside
<1>5. ASSUME NEW o \in Ops, NEW r \in Routes, Reset(o, r)
      PROVE  Rest
  BY <1>5, NotesTypes DEF Reset, outside
<1>6. ASSUME NEW o \in Ops, Unpublish(o)
      PROVE  Rest
  <2>1. published' \in [Providers -> SUBSET Routes]
    <3>1. op[o].list # None => op[o].list \in SUBSET Routes
      BY DEF Requests
    <3>. QED
      BY <1>6, <3>1 DEF Unpublish
  <2>. QED
    BY <1>6, <2>1 DEF Unpublish, history
<1>7. ASSUME NEW o \in Ops, Unserve(o)
      PROVE  Rest
  BY <1>7 DEF Unserve, outside, history
<1>8. ASSUME NEW o \in Ops, Publish(o)
      PROVE  Rest
  <2>1. op[o].p \in Providers /\ op[o].r \in Routes
    BY <1>8 DEF Publish, RequestsFit, Up, Calls
  <2>2. names' = names \/ names' = [names EXCEPT ![op[o].p][op[o].r] = 0]
    BY <1>8, PublishFacts
  <2>3. [names EXCEPT ![op[o].p][op[o].r] = 0] \in [Providers -> [Routes -> Ports \cup {0, None}]]
    BY <2>1
  <2>4. names' \in [Providers -> [Routes -> Ports \cup {0, None}]]
    BY <2>2, <2>3
  <2>. QED
    BY <1>8, <2>4 DEF Publish, history
<1>9. ASSUME NEW o \in Ops, Published(o)
      PROVE  Rest
  <2>1. op[o].p \in Providers /\ op[o].r \in Routes
    BY <1>9 DEF Published, RequestsFit, Up, Calls
  <2>2. /\ op[o].list # None => op[o].list \in SUBSET Routes
        /\ op[o].port \in Ports \cup {0, None}
    BY DEF Requests
  <2>3. names' \in [Providers -> [Routes -> Ports \cup {0, None}]]
    BY <1>9, <2>1, <2>2 DEF Published
  <2>4. published' \in [Providers -> SUBSET Routes]
    BY <1>9, <2>1, <2>2 DEF Published
  <2>. QED
    BY <1>9, <2>3, <2>4 DEF Published, history
<1>10. ASSUME NEW o \in Ops, Probe(o)
       PROVE  Rest
  <2>1. TypeOf[op[o].p] \in Types
    BY <1>10 DEF Probe, RequestsFit, Up
  <2>. QED
    BY <1>10, <2>1 DEF Probe, outside
<1>11. ASSUME NEW o \in Ops, Serve(o)
       PROVE  Rest
  BY <1>11 DEF Serve, history
<1>12. ASSUME NEW o \in Ops, Post(o)
       PROVE  Rest
  <2>1. op[o].r \in Routes /\ TypeOf[op[o].p] \in Types
    BY <1>12 DEF Post, RequestsFit, Up, Calls
  <2>2. \/ inner' = inner
        \/ /\ inner[TypeOf[op[o].p]] # None
           /\ inner' = [inner EXCEPT ![TypeOf[op[o].p]] = @ \cup {op[o].r}]
    BY <1>12, PostFacts
  <2>3. inner' \in [Types -> {None} \cup SUBSET Routes]
    BY <2>1, <2>2
  <2>. QED
    BY <1>12, <2>3 DEF Post, history
<1>13. ASSUME NEW o \in Ops, CallFails(o) \/ \E p \in Providers : DeleteProvider(o, p)
       PROVE  Rest
  BY <1>2, <1>13 DEF CallFails, DeleteProvider
<1>14. ASSUME NEW o \in Ops, ProviderDeleted(o)
       PROVE  Rest
  <2>1. op[o].p \in Providers
    BY <1>14 DEF ProviderDeleted, RequestsFit
  <2>. QED
    BY <1>14, <2>1, UnloadTypes DEF ProviderDeleted
<1>15. ASSUME NEW p \in Providers, DisableProvider(p)
       PROVE  Rest
  BY <1>15, UnloadTypes DEF DisableProvider
<1>20. ASSUME NEW p \in Providers, StartProvider(p) \/ AgentRestarts(p)
       PROVE  Rest
  BY <1>20 DEF StartProvider, AgentRestarts, outside, history
<1>16. ASSUME NEW r \in Routes, DeleteRoute(r)
       PROVE  Rest
  BY <1>16 DEF DeleteRoute, outside, history
<1>17. ASSUME CaddyRestarts PROVE Rest
  <2>1. inner' = [t \in Types |-> None] /\ hurt' = Types /\ events' \in 0 .. MaxEvents
    BY <1>17 DEF CaddyRestarts
  <2>2. inner' \in [Types -> {None} \cup SUBSET Routes]
    BY <2>1
  <2>. QED
    BY <1>17, <2>1, <2>2 DEF CaddyRestarts
<1>18. ASSUME ApplicationRestarts PROVE Rest
  <2>1. names' \in [Providers -> [Routes -> Ports \cup {0, None}]]
    BY <1>18 DEF ApplicationRestarts, NoNames
  <2>2. loaded' \subseteq Providers /\ reloaded' \subseteq Providers /\ events' \in 0 .. MaxEvents
    BY <1>18 DEF ApplicationRestarts
  <2>. QED
    BY <1>18, <2>1, <2>2 DEF ApplicationRestarts
<1>. HIDE DEF Rest
<1>19. Rest
  BY <1>3, <1>4, <1>5, <1>6, <1>7, <1>8, <1>9, <1>10, <1>11, <1>12, <1>13, <1>14, <1>15, <1>16, <1>17, <1>18, <1>20
     DEF Next
<1>. QED
  BY <1>1, <1>19 DEF TypeOK, Rest

------------------------------------------------------------------------------
(* The servers of Caddy.                                                    *)

LEMMA ServedStays ==
    ASSUME Base, RaceIsNoted, RowIsServed, ServerIsNew, Next
    PROVE  RowIsServed' /\ ServerIsNew'
<1>. /\ TypeOK /\ OpStep /\ RequestsFit /\ raced \subseteq raced' /\ rows \subseteq Ops
     /\ inner \in [Types -> {None} \cup SUBSET Routes]
     /\ \A q \in rows : op'[q] = op[q] /\ op[q].p \in Providers /\ op[q].r \in Routes
  BY StepKinds, HistoryGrows, OverStays DEF Base, TypeOK, RefsFit, Over
<1>1. ASSUME rows' \subseteq rows, hurt \subseteq hurt',
             \A t \in Types \ (raced' \cup hurt') : inner'[t] = inner[t]
      PROVE  RowIsServed'
  BY <1>1 DEF RowIsServed
<1>2. ASSUME hurt \subseteq hurt',
             \A t \in Types \ (raced' \cup hurt') : inner[t] = None => inner'[t] = None,
             \A o \in Ops : op'[o].pc = "serve" => op[o].pc = "serve" /\ op'[o].p = op[o].p
      PROVE  ServerIsNew'
  BY <1>2 DEF ServerIsNew, RequestsFit, Up
\* Whoever else creates a server or adds a route to one was noted.
<1>3. ASSUME NEW o \in Ops, Up(o), NEW q \in Ops \ {o}, Up(q), TypeOf[op[q].p] = TypeOf[op[o].p]
      PROVE  TypeOf[op[o].p] \in raced
  BY <1>3, TouchesFacts DEF RaceIsNoted, Calls
<1>4. CASE \/ \E o \in Ops, r \in Routes, p \in Providers :
                 Enable(o, r, p) \/ TakeDown(o, "switch", r, p) \/ Switch(o, r, p)
           \/ \E o \in Ops, r \in Routes : TakeDown(o, "disable", r, None) \/ Reset(o, r)
           \/ \E o \in Ops : \/ Unpublish(o) \/ Unserve(o) \/ CallFails(o)
                             \/ Publish(o) \/ Published(o) \/ ProviderDeleted(o)
           \/ \E o \in Ops, p \in Providers : DeleteProvider(o, p)
           \/ \E p \in Providers : DisableProvider(p) \/ StartProvider(p) \/ AgentRestarts(p)
           \/ \E r \in Routes : DeleteRoute(r)
           \/ ApplicationRestarts
  <2>1. rows' \subseteq rows /\ hurt' = hurt /\ inner' = inner
    <3>1. ASSUME NEW o \in Ops, NEW r \in Routes, NEW p, NEW kind,
                 Enable(o, r, p) \/ TakeDown(o, kind, r, p) \/ Switch(o, r, p) \/ Reset(o, r)
          PROVE  rows' = rows /\ hurt' = hurt /\ inner' = inner
      BY <3>1 DEF Enable, TakeDown, Switch, Reset, Notes, tables, outside
    <3>2. ASSUME NEW o \in Ops, Unpublish(o) \/ Unserve(o) \/ CallFails(o) \/ Publish(o) \/ Published(o)
          PROVE  rows' \subseteq rows /\ hurt' = hurt /\ inner' = inner
      BY <3>2 DEF Unpublish, Unserve, CallFails, Publish, Published, tables, outside, history
    <3>3. CASE \/ \E o \in Ops : ProviderDeleted(o)
               \/ \E o \in Ops, p \in Providers : DeleteProvider(o, p)
               \/ \E p \in Providers : DisableProvider(p) \/ StartProvider(p) \/ AgentRestarts(p)
      BY <3>3 DEF ProviderDeleted, DeleteProvider, DisableProvider, StartProvider, AgentRestarts, tables, outside, history
    <3>4. CASE ApplicationRestarts \/ \E r \in Routes : DeleteRoute(r)
      BY <3>4 DEF ApplicationRestarts, DeleteRoute, tables, outside, history
    <3>. QED
      BY <1>4, <3>1, <3>2, <3>3, <3>4
  <2>2. \A q \in Ops : op'[q].pc = "serve" => op'[q] = op[q]
    <3>1. ASSUME NEW o \in Ops, Only(o), op'[o].pc # "serve"
          PROVE  \A q \in Ops : op'[q].pc = "serve" => op'[q] = op[q]
      BY <3>1 DEF Only
    <3>2. CASE \E o \in Ops, r \in Routes : \E p \in Providers \cup {None} : Puts(o, r, p) \/ Takes(o, r, p)
      BY <3>1, <3>2 DEF Puts, Takes, Becomes
    <3>3. CASE \E o \in Ops : Aside(o)
      BY <3>1, <3>3 DEF Aside, Becomes, Stops
    <3>4. CASE op' = op \/ op' = [o \in Ops |-> IF Runs(o) THEN Finished ELSE op[o]]
      BY <3>4, ConstantFacts
    <3>5. ASSUME NEW o \in Ops, Unpublish(o) \/ Unserve(o) \/ CallFails(o) \/ Publish(o) \/ Published(o)
          PROVE  \A q \in Ops : op'[q].pc = "serve" => op'[q] = op[q]
      BY <3>1, <3>5, GoOnFacts, PublishFacts DEF Becomes, Stops
    <3>6. CASE \E o \in Ops, r \in Routes, p \in Providers : Enable(o, r, p) \/ Switch(o, r, p)
      BY <3>1, <3>6, ArriveFacts DEF Becomes
    <3>7. CASE \E o \in Ops, r \in Routes, p \in Providers \cup {None}, kind \in {"switch", "disable"} :
                   TakeDown(o, kind, r, p)
      BY <3>1, <3>7, ArriveFacts DEF Becomes
    <3>8. CASE \E o \in Ops : ProviderDeleted(o) \/ (\E r \in Routes : Reset(o, r)) \/ \E p \in Providers : DeleteProvider(o, p)
      BY <3>1, <3>8, ArriveFacts, GoOnFacts DEF Becomes, Stops
    <3>9. CASE \/ \E p \in Providers : DisableProvider(p) \/ StartProvider(p) \/ AgentRestarts(p)
               \/ \E r \in Routes : DeleteRoute(r)
               \/ ApplicationRestarts
      BY <3>4, <3>9 DEF DisableProvider, StartProvider, AgentRestarts, DeleteRoute, ApplicationRestarts
    <3>. QED
      BY <1>4, <3>5, <3>6, <3>7, <3>8, <3>9
  <2>. QED
    BY <1>1, <1>2, <2>1, <2>2
<1>5. ASSUME NEW o \in Ops, Probe(o)
      PROVE  RowIsServed' /\ ServerIsNew'
  <2>. DEFINE t == TypeOf[op[o].p]
  <2>1. /\ rows' = rows /\ inner' = inner /\ hurt \subseteq hurt'
        /\ op'[o].pc = "serve" => inner[t] = None \/ t \in hurt'
        /\ Only(o) /\ op'[o].p = op[o].p
    <3>1. \E pc \in {"serve", "post"} : Becomes(o, pc, op[o].r, op[o].p, op[o].old)
      BY <1>5, GoOnFacts
    <3>2. ASSUME inner[t] # None, Goes(o, "post")
          PROVE  op'[o].pc = "post"
      BY <3>2, MoveFacts DEF Becomes
    <3>3. op'[o].pc = "serve" => inner[t] = None \/ t \in hurt'
      BY <1>5, <3>2 DEF Probe, Becomes
    <3>. QED
      BY <1>5, <3>1, <3>3 DEF Probe, Becomes, tables, outside
  <2>2. ServerIsNew'
    BY <2>1 DEF ServerIsNew, Only
  <2>. QED
    BY <1>1, <2>1, <2>2
<1>6. ASSUME NEW o \in Ops, Serve(o)
      PROVE  RowIsServed' /\ ServerIsNew'
  <2>. DEFINE t == TypeOf[op[o].p]
  <2>1. /\ rows' = rows /\ hurt' = hurt /\ raced' = raced /\ Up(o) /\ op[o].pc = "serve"
        /\ inner' = [inner EXCEPT ![t] = {}] /\ t \in Types
        /\ Only(o) /\ op'[o].pc = "post"
    BY <1>6, GoOnFacts DEF Serve, Becomes, tables, history, RequestsFit, Up
  <2>2. \A q \in rows : TypeOf[op[q].p] # t \/ t \in raced' \cup hurt'
    BY <2>1 DEF ServerIsNew, RowIsServed
  <2>3. RowIsServed'
    BY <2>1, <2>2 DEF RowIsServed
  <2>4. \A q \in Ops : op'[q].pc = "serve" =>
            q # o /\ op'[q] = op[q] /\ Up(q) /\ (TypeOf[op[q].p] = t => t \in raced')
    BY <1>3, <2>1 DEF Only, Up
  <2>5. ServerIsNew'
    BY <2>1, <2>4 DEF ServerIsNew
  <2>. QED
    BY <2>3, <2>5
<1>7. ASSUME NEW o \in Ops, Post(o)
      PROVE  RowIsServed' /\ ServerIsNew'
  <2>. DEFINE t == TypeOf[op[o].p]
  <2>1. /\ hurt' = hurt /\ raced' = raced /\ Up(o) /\ t \in Types /\ Only(o) /\ op'[o].pc = "done"
        /\ op[o].r \in Routes
    BY <1>7, GoOnFacts DEF Post, Stops, history, RequestsFit, Up, Calls
  <2>2. \A q \in Ops : op'[q].pc = "serve" =>
            q # o /\ op'[q] = op[q] /\ Up(q) /\ (TypeOf[op[q].p] = t => t \in raced')
    BY <1>3, <2>1 DEF Only, Up
  <2>3. CASE UNCHANGED <<inner, tables>>
    BY <1>1, <1>2, <2>1, <2>2, <2>3 DEF tables
  <2>4. CASE /\ inner[t] # None
             /\ inner' = [inner EXCEPT ![t] = @ \cup {op[o].r}]
             /\ UNCHANGED tables \/ Inserts(o)
    <3>1. inner'[t] \in SUBSET Routes /\ op[o].r \in inner'[t] /\ inner[t] \subseteq inner'[t]
          /\ inner'[t] # None /\ \A u \in Types \ {t} : inner'[u] = inner[u]
      BY <2>1, <2>4
    <3>2. ServerIsNew'
      BY <2>1, <2>2, <3>1 DEF ServerIsNew, RequestsFit, Up
    <3>3. RowIsServed'
      <4>1. rows' \subseteq rows \cup {o} /\ (o \in rows' => op'[o].p = op[o].p /\ op'[o].r = op[o].r)
        BY <2>4 DEF tables, Inserts
      <4>. QED
        BY <2>1, <3>1, <4>1 DEF RowIsServed
    <3>. QED
      BY <3>2, <3>3
  <2>. QED
    BY <1>7, <2>3, <2>4, PostFacts
<1>8. CASE CaddyRestarts
  <2>1. rows' = rows /\ hurt' = Types /\ op' = op
    BY <1>8 DEF CaddyRestarts, tables
  <2>. QED
    BY <1>1, <1>2, <2>1 DEF TypeOK
<1>. QED
  BY <1>4, <1>5, <1>6, <1>7, <1>8 DEF Next

------------------------------------------------------------------------------
(* What the providers publish.                                              *)

\* The request `o` is at the call that sends a list of names to `p`.
Sends(o, p) ==
    /\ op[o].list # None
    /\ \/ op[o].pc = "answer" /\ op[o].p = p
       \/ op[o].pc = "unpublish" /\ op[op[o].old].p = p

\* A provider that was loaded and is not reloaded only learns names, and
\* publishes more, or the list of some request.
Keeps(p) ==
    /\ \A r \in Routes : names[p][r] # None => names'[p][r] # None
    /\ \/ published[p] \subseteq published'[p]
       \/ \E o \in Ops : Sends(o, p) /\ published'[p] = op[o].list

KnownProviders == loaded \cup reloaded

WorldStep ==
    /\ reloaded \subseteq reloaded' /\ KnownProviders \subseteq loaded' \cup reloaded'
    /\ NamesAreLoaded'
    /\ \A p \in KnownProviders : p \notin reloaded' => Keeps(p)

LEMMA UnloadFacts ==
    ASSUME TypeOK, NamesAreLoaded, NEW p \in Providers, Unload(p)
    PROVE  WorldStep
<1>1. names' = [names EXCEPT ![p] = NoNames] /\ NoNames \in [Routes -> {None}]
  BY DEF Unload, NoNames
<1>2. NamesAreLoaded'
  BY <1>1 DEF NamesAreLoaded, Unload, TypeOK
<1>3. ASSUME NEW q \in Providers, q \notin reloaded'
      PROVE  names'[q] = names[q] /\ published'[q] = published[q]
  BY <1>1, <1>3 DEF Unload, TypeOK
<1>. QED
  BY <1>2, <1>3 DEF WorldStep, Keeps, KnownProviders, Unload, TypeOK

LEMMA WorldFacts == ASSUME Base, NamesAreLoaded, Next PROVE WorldStep
<1>. /\ TypeOK /\ RequestsFit /\ KnownProviders \subseteq Providers
     /\ names \in [Providers -> [Routes -> Ports \cup {0, None}]]
     /\ published \in [Providers -> SUBSET Routes] /\ op \in [Ops -> Requests]
  BY DEF Base, TypeOK, KnownProviders
<1>1. ASSUME UNCHANGED <<names, published, reloaded>>, loaded \subseteq loaded'
      PROVE  WorldStep
  BY <1>1 DEF WorldStep, Keeps, KnownProviders, NamesAreLoaded
<1>2. ASSUME NEW o \in Ops, NEW r \in Routes, NEW p, NEW kind,
             Enable(o, r, p) \/ TakeDown(o, kind, r, p) \/ Switch(o, r, p) \/ Reset(o, r)
      PROVE  WorldStep
  BY <1>1, <1>2 DEF Enable, TakeDown, Switch, Reset, Notes, outside
<1>3. ASSUME NEW o \in Ops, Unpublish(o)
      PROVE  WorldStep
  <2>. DEFINE x == op[op[o].old].p
  <2>1. x \in Providers /\ op[o].pc = "unpublish" /\ UNCHANGED <<names, loaded, reloaded>>
    BY <1>3 DEF Unpublish, RequestsFit, Calls, Down, Over, history
  <2>2. \/ published' = published
        \/ op[o].list # None /\ published' = [published EXCEPT ![x] = op[o].list]
    BY <1>3 DEF Unpublish
  <2>3. Sends(o, x) \/ published' = published
    BY <2>1, <2>2 DEF Sends
  <2>4. \A p \in Providers : Keeps(p)
    BY <2>1, <2>2, <2>3 DEF Keeps
  <2>. QED
    BY <2>1, <2>4 DEF WorldStep, KnownProviders, NamesAreLoaded
<1>4. ASSUME NEW o \in Ops, Publish(o)
      PROVE  WorldStep
  <2>. DEFINE x == op[o].p
  <2>1. x \in Providers /\ op[o].r \in Routes /\ UNCHANGED <<published, loaded, reloaded>>
    BY <1>4 DEF Publish, RequestsFit, Calls, Up, history
  <2>2. \/ names' = names
        \/ x \in loaded /\ names' = [names EXCEPT ![x][op[o].r] = 0]
    BY <1>4, PublishFacts
  <2>3. \A p \in Providers, r \in Routes : names'[p][r] # None =>
            names[p][r] # None \/ p \in loaded
    BY <2>1, <2>2
  <2>4. \A p \in Providers, r \in Routes : names[p][r] # None => names'[p][r] # None
    BY <2>1, <2>2
  <2>. QED
    BY <2>1, <2>3, <2>4 DEF WorldStep, Keeps, KnownProviders, NamesAreLoaded
<1>5. ASSUME NEW o \in Ops, Published(o)
      PROVE  WorldStep
  <2>. DEFINE x == op[o].p
  <2>1. /\ x \in Providers /\ op[o].r \in Routes /\ UNCHANGED <<loaded, reloaded>>
        /\ op[o].pc = "answer" /\ op[o] \in Requests
    BY <1>5 DEF Published, RequestsFit, Calls, Up, history
  <2>7. op[o].port \in Nat
    <3>1. op[o].port \in Ports \cup {0}
      BY <2>1 DEF Requests
    <3>2. \A n \in Ports \cup {0} : n \in Nat
      OBVIOUS
    <3>. QED
      BY <3>1, <3>2, Zenon
  <2>2. \/ names' = names
        \/ x \in loaded /\ names' = [names EXCEPT ![x][op[o].r] = op[o].port]
    BY <1>5 DEF Published
  <2>3. \A p \in Providers, r \in Routes : names'[p][r] # None =>
            names[p][r] # None \/ p \in loaded
    BY <2>1, <2>2, <2>7
  <2>4. \A p \in Providers, r \in Routes : names[p][r] # None => names'[p][r] # None
    BY <2>1, <2>2, <2>7
  <2>5. \/ Sends(o, x) /\ published' = [published EXCEPT ![x] = op[o].list]
        \/ published' = [published EXCEPT ![x] = @ \cup {op[o].r}]
    BY <1>5 DEF Published, Sends
  <2>6. \A p \in Providers : \/ published[p] \subseteq published'[p]
                             \/ \E q \in Ops : Sends(q, p) /\ published'[p] = op[q].list
    BY <2>1, <2>5
  <2>. QED
    BY <2>1, <2>3, <2>4, <2>6 DEF WorldStep, Keeps, KnownProviders, NamesAreLoaded
<1>6. ASSUME NEW o \in Ops, Unserve(o) \/ CallFails(o) \/ Probe(o) \/ Serve(o) \/ Post(o)
      PROVE  WorldStep
  BY <1>1, <1>6 DEF Unserve, CallFails, Probe, Serve, Post, outside, history
<1>7. ASSUME NEW o \in Ops, ProviderDeleted(o)
      PROVE  WorldStep
  BY <1>7, UnloadFacts DEF ProviderDeleted, RequestsFit
<1>8. ASSUME NEW p \in Providers, DisableProvider(p)
      PROVE  WorldStep
  BY <1>8, UnloadFacts DEF DisableProvider
<1>11. ASSUME NEW p \in Providers, StartProvider(p) \/ AgentRestarts(p)
       PROVE  WorldStep
  <2>1. CASE StartProvider(p)
    BY <1>1, <2>1 DEF StartProvider, outside, history
  <2>2. CASE AgentRestarts(p)
    <3>1. /\ UNCHANGED <<names, loaded>> /\ reloaded' = reloaded \cup {p}
          /\ \A q \in Providers : q # p => published'[q] = published[q]
      BY <2>2 DEF AgentRestarts
    <3>. QED
      BY <3>1 DEF WorldStep, Keeps, KnownProviders, NamesAreLoaded
  <2>. QED
    BY <1>11, <2>1, <2>2
<1>9. CASE \/ \E o \in Ops, p \in Providers : DeleteProvider(o, p)
           \/ \E r \in Routes : DeleteRoute(r)
           \/ CaddyRestarts
  BY <1>1, <1>9 DEF DeleteProvider, DeleteRoute, CaddyRestarts, outside, history
<1>10. CASE ApplicationRestarts
  <2>1. \A p \in Providers, r \in Routes : names'[p][r] = None
    BY <1>10 DEF ApplicationRestarts, NoNames
  <2>. QED
    BY <1>10, <2>1 DEF ApplicationRestarts, WorldStep, KnownProviders, NamesAreLoaded
<1>. QED
  BY <1>2, <1>3, <1>4, <1>5, <1>6, <1>7, <1>8, <1>9, <1>10, <1>11 DEF Next

\* Two requests that call the same type at a time were noted.
LEMMA RaceFacts ==
    ASSUME Base, RaceIsNoted, NEW o \in Ops, NEW q \in Ops \ {o}, NEW p \in Providers,
           Calls(o), Calls(q), TypeOf[p] \in Touches(o), TypeOf[p] \in Touches(q)
    PROVE  ~Steady(p)
BY DEF RaceIsNoted, Steady

LEMMA SendsFacts ==
    ASSUME Base, ListsAreComplete, NEW o \in Ops, NEW p, Sends(o, p)
    PROVE  /\ Calls(o) /\ TypeOf[p] \in Touches(o) /\ p \in Providers
           /\ Steady(p) => HasAll(p, op[o].list)
<1>1. CASE op[o].pc = "answer" /\ op[o].p = p
  BY <1>1, TouchesFacts DEF Sends, Calls, Up, Base, RequestsFit, ListsAreComplete
<1>2. CASE op[o].pc = "unpublish" /\ op[op[o].old].p = p
  BY <1>2, TouchesFacts DEF Sends, Calls, Down, Base, RequestsFit, Over, ListsAreComplete
<1>. QED
  BY <1>1, <1>2 DEF Sends

LEMMA HasStays ==
    ASSUME Base, RaceIsNoted, RowsAreLoaded, RowsArePublished, ListsAreComplete, WorldStep, OpStep,
           NEW q, q \in rows \/ Through(q), NEW p, p = op[q].p,
           p \notin reloaded', TypeOf[p] \notin raced'
    PROVE  /\ op[q].r \in published'[p]
           /\ TypeOf[p] = "cloudflare" => names'[p][op[q].r] # None
<1>1. Steady(p) /\ q \in Ops
  BY HistoryGrows DEF WorldStep, Steady, Base, TypeOK, Through
<1>2. p \in KnownProviders /\ Has(p, op[q].r) /\ op[q].r \in Routes
  <2>1. CASE q \in rows
    BY <1>1, <2>1 DEF RowsAreLoaded, RowsArePublished, KnownProviders, Base, TypeOK
  <2>2. CASE Through(q)
    BY <1>1, <2>2 DEF Through, ListsAreComplete, KnownProviders, Base, RequestsFit, Calls, Up
  <2>. QED
    BY <2>1, <2>2
<1>3. Keeps(p)
  BY <1>2 DEF WorldStep
<1>4. ASSUME NEW o \in Ops, Sends(o, p), published'[p] = op[o].list
      PROVE  op[q].r \in published'[p]
  <2>1. CASE q \in rows
    BY <1>1, <1>4, <2>1, SendsFacts DEF HasAll
  <2>2. CASE Through(q)
    <3>1. q # o /\ Calls(q) /\ Up(q)
      BY <1>4, <2>2 DEF Through, Sends, Calls, Up
    <3>. QED
      BY <1>1, <1>4, <3>1, RaceFacts, SendsFacts, TouchesFacts
  <2>. QED
    BY <2>1, <2>2
<1>. QED
  BY <1>2, <1>3, <1>4 DEF Keeps, Has

\* A row that is new is that of a request at its end.
LEMMA RowFacts ==
    ASSUME Base, OpStep, TableStep, NEW q \in rows'
    PROVE  /\ op'[q].p = op[q].p /\ op'[q].r = op[q].r /\ op'[q].pc = "done"
           /\ op'[q].port = op[q].port
           /\ q \in rows \/ Through(q)
<1>1. \A x \in rows : Over(x) /\ op'[x] = op[x]
  BY OverStays DEF Base, TypeOK, RefsFit, Over
<1>2. CASE q \in rows
  BY <1>1, <1>2 DEF Over
<1>3. CASE q \notin rows
  BY <1>3 DEF TableStep, tables, Clears, DropsRoute, Removes, DropsProvider, Inserts, Through, Stops
<1>. QED
  BY <1>2, <1>3

LEMMA RowsArePublishedStays ==
    ASSUME Base, RaceIsNoted, RowsAreLoaded, RowsArePublished, ListsAreComplete, WorldStep, OpStep, TableStep
    PROVE  RowsAreLoaded' /\ RowsArePublished'
<1>1. ASSUME NEW q \in rows'
      PROVE  op[q].p \in KnownProviders
  BY RowFacts DEF RowsAreLoaded, Through, ListsAreComplete, KnownProviders
<1>2. RowsAreLoaded'
  BY <1>1, RowFacts DEF RowsAreLoaded, WorldStep
<1>3. RowsArePublished'
  BY RowFacts, HasStays DEF RowsArePublished, Has, Steady
<1>. QED
  BY <1>2, <1>3

\* A list under way stays complete: the row of another request would be noted.
LEMMA HasAllStays ==
    ASSUME Base, RaceIsNoted, WorldStep, OpStep, TableStep,
           NEW o \in Ops, Calls(o), op'[o] = op[o],
           NEW p \in Providers, TypeOf[p] \in Touches(o), NEW list, HasAll(p, list),
           p \notin reloaded', TypeOf[p] \notin raced',
           NEW q \in rows', op'[q].p = p
    PROVE  op'[q].r \in list
<1>1. Steady(p)
  BY HistoryGrows DEF WorldStep, Steady
<1>2. CASE q \in rows
  BY <1>2, RowFacts DEF HasAll
<1>3. CASE Through(q)
  <2>1. q # o /\ Calls(q) /\ Up(q) /\ op[q].p = p /\ q \in Ops
    BY <1>3, RowFacts DEF Through, Calls, Up, Down
  <2>. QED
    BY <1>1, <2>1, RaceFacts, TouchesFacts
<1>. QED
  BY <1>2, <1>3, RowFacts

LEMMA ListsStay ==
    ASSUME Base, RaceIsNoted, NamesAreLoaded, RowsAreLoaded, RowsArePublished, ListsAreComplete, Next
    PROVE  ListsAreComplete'
<1>. /\ TypeOK /\ RequestsFit /\ OpStep /\ TableStep /\ WorldStep /\ RequestsFit'
     /\ op \in [Ops -> Requests] /\ names \in [Providers -> [Routes -> Ports \cup {0, None}]]
     /\ published \in [Providers -> SUBSET Routes]
  BY StepKinds, TableKinds, WorldFacts, RequestsFitStays DEF Base, TypeOK
<1>. DEFINE Asked(o)    == op[o].pc \in {"answer", "probe", "serve", "post"} => op[o].p \in loaded \cup reloaded
            Answered(o) == op[o].pc \in {"probe", "serve", "post"} /\ Steady(op[o].p) => Has(op[o].p, op[o].r)
            Listed(o)   == op[o].pc = "answer" => (op[o].list = None <=> TypeOf[op[o].p] # "cloudflare")
            PutsAll(o) == op[o].pc = "answer" /\ op[o].list # None /\ Steady(op[o].p) =>
                              /\ op[o].r \in op[o].list /\ names[op[o].p][op[o].r] # None
                              /\ HasAll(op[o].p, op[o].list)
            TakesAll(o) == op[o].pc = "unpublish" /\ op[o].list # None /\ Steady(op[op[o].old].p) =>
                              HasAll(op[op[o].old].p, op[o].list)
            Whole(o)    == Asked(o) /\ Answered(o) /\ Listed(o) /\ PutsAll(o) /\ TakesAll(o)
<1>1. ASSUME NEW o \in Ops, op'[o] = op[o]
      PROVE  Whole(o)'
  <2>1. Whole(o)
    BY DEF ListsAreComplete
  <2>2. Asked(o)'
    BY <1>1, <2>1 DEF WorldStep, KnownProviders
  <2>3. Answered(o)'
    BY <1>1, HasStays DEF Through, Steady, Has
  <2>4. Listed(o)'
    BY <1>1, <2>1
  <2>5. PutsAll(o)'
    <3>. SUFFICES ASSUME op[o].pc = "answer", op[o].list # None,
                         op[o].p \notin reloaded', TypeOf[op[o].p] \notin raced'
                  PROVE  /\ op[o].r \in op[o].list /\ names'[op[o].p][op[o].r] # None
                         /\ \A q \in rows' : op'[q].p = op[o].p => op'[q].r \in op[o].list
      BY <1>1 DEF Steady, HasAll
    <3>1. /\ op[o].p \in Providers /\ op[o].r \in Routes /\ Calls(o) /\ Up(o) /\ Steady(op[o].p)
          /\ op[o].p \in KnownProviders
      BY <2>1, HistoryGrows DEF RequestsFit, Calls, Up, WorldStep, Steady, KnownProviders
    <3>2. op[o].r \in op[o].list /\ names[op[o].p][op[o].r] # None /\ HasAll(op[o].p, op[o].list)
      BY <2>1, <3>1
    <3>3. names'[op[o].p][op[o].r] # None
      BY <3>1, <3>2 DEF WorldStep, Keeps
    <3>4. TypeOf[op[o].p] \in Touches(o)
      BY <3>1, TouchesFacts
    <3>. QED
      BY <1>1, <3>1, <3>2, <3>3, <3>4, HasAllStays
  <2>6. TakesAll(o)'
    <3>1. CASE op[o].pc = "unpublish"
      <4>1. /\ Calls(o) /\ Down(o) /\ op[o].old \in Ops /\ op[op[o].old].p \in Providers
            /\ op'[op[o].old] = op[op[o].old]
        BY <3>1, OverStays DEF Calls, Down, RequestsFit, Over
      <4>. SUFFICES ASSUME op[o].list # None, op[op[o].old].p \notin reloaded', TypeOf[op[op[o].old].p] \notin raced'
                    PROVE  \A q \in rows' : op'[q].p = op[op[o].old].p => op'[q].r \in op[o].list
        BY <1>1, <4>1 DEF Steady, HasAll
      <4>2. Steady(op[op[o].old].p)
        BY HistoryGrows DEF WorldStep, Steady
      <4>3. HasAll(op[op[o].old].p, op[o].list) /\ TypeOf[op[op[o].old].p] \in Touches(o)
        BY <2>1, <3>1, <4>1, <4>2, TouchesFacts
      <4>. QED
        BY <1>1, <4>1, <4>3, HasAllStays
    <3>. QED
      BY <1>1, <3>1
  <2>. QED
    BY <2>2, <2>3, <2>4, <2>5, <2>6
<1>2. ASSUME NEW o \in Ops, Only(o), Whole(o)'
      PROVE  ListsAreComplete'
  <2>1. \A q \in Ops : Whole(q)'
    BY <1>1, <1>2 DEF Only
  <2>. QED
    BY <2>1 DEF ListsAreComplete
<1>3. ASSUME NEW o \in Ops, Only(o), op'[o].pc \notin {"answer", "probe", "serve", "post", "unpublish"}
      PROVE  ListsAreComplete'
  BY <1>2, <1>3
<1>4. ASSUME op' = op
      PROVE  ListsAreComplete'
  BY <1>1, <1>4 DEF ListsAreComplete
<1>5. ASSUME NEW o \in Ops, NEW r \in Routes, NEW p \in Providers, Enable(o, r, p) \/ Switch(o, r, p)
      PROVE  ListsAreComplete'
  BY <1>3, <1>5, ArriveFacts DEF Becomes
<1>6. ASSUME NEW o \in Ops, NEW r \in Routes, NEW p \in Providers \cup {None}, NEW kind \in {"switch", "disable"},
             TakeDown(o, kind, r, p)
      PROVE  ListsAreComplete'
  <2>. DEFINE x == op[ref[r]].p
  <2>1. /\ Only(o) /\ op'[o].pc = "unpublish" /\ op'[o].list = RemoveRoute(x) /\ op'[o].old = ref[r]
        /\ ref[r] \in rows /\ rows' = rows
        /\ UNCHANGED <<names, published, loaded, reloaded>>
    BY <1>6, ArriveFacts DEF Becomes, TakeDown, tables, outside, Notes
  <2>2. \A q \in rows : op'[q] = op[q] /\ op[q].r \in Routes /\ q \in Ops
    BY OverStays DEF Base, RefsFit, TypeOK, Over
  <2>3. ASSUME op'[o].list # None, x \notin reloaded', TypeOf[x] \notin raced'
        PROVE  \A q \in rows : op[q].p = x => op[q].r \in op'[o].list
    <3>1. TypeOf[x] = "cloudflare" /\ op'[o].list = Known(x) /\ Steady(x)
      BY <2>1, <2>3, HistoryGrows DEF RemoveRoute, Steady
    <3>. QED
      BY <2>2, <3>1 DEF RowsArePublished, Has, Known
  <2>4. TakesAll(o)'
    BY <2>1, <2>2, <2>3 DEF Steady, HasAll
  <2>5. Whole(o)'
    BY <2>1, <2>4
  <2>. QED
    BY <1>2, <2>1, <2>5
<1>7. ASSUME NEW o \in Ops, Publish(o)
      PROVE  ListsAreComplete'
  <2>. DEFINE p == op[o].p
              r == op[o].r
  <2>1. CASE Stops(o)
    BY <1>3, <2>1 DEF Stops
  <2>2. CASE /\ p \in loaded /\ Becomes(o, "answer", r, p, op[o].old)
             /\ IF TypeOf[p] = "cloudflare"
                THEN op'[o].list = Known(p) \cup {r} /\ names' = [names EXCEPT ![p][r] = 0]
                ELSE op'[o].list = None /\ names' = names
    <3>1. /\ Only(o) /\ op'[o].pc = "answer" /\ op'[o].p = p /\ op'[o].r = r
          /\ p \in Providers /\ r \in Routes /\ UNCHANGED <<loaded, reloaded>> /\ rows' = rows
      BY <1>7, <2>2 DEF Becomes, Publish, RequestsFit, Calls, Up, tables, history
    <3>2. Asked(o)' /\ Answered(o)' /\ TakesAll(o)'
      BY <2>2, <3>1
    <3>3. Known(p) \cup {r} # None
      BY <3>1 DEF Known
    <3>4. Listed(o)'
      BY <2>2, <3>1, <3>3
    <3>5. ASSUME op'[o].list # None, p \notin reloaded', TypeOf[p] \notin raced'
          PROVE  /\ r \in op'[o].list /\ names'[p][r] # None
                 /\ \A q \in rows : op[q].p = p => op[q].r \in op'[o].list
      <4>1. TypeOf[p] = "cloudflare" /\ Steady(p)
        BY <2>2, <3>5, HistoryGrows, WorldFacts DEF Steady, WorldStep
      <4>2. op'[o].list = Known(p) \cup {r} /\ names' = [names EXCEPT ![p][r] = 0]
        BY <2>2, <4>1
      <4>3. \A q \in rows : op[q].p = p => op[q].r \in Known(p)
        BY <4>1 DEF RowsArePublished, Has, Known, Base, TypeOK
      <4>. QED
        BY <3>1, <4>2, <4>3
    <3>6. \A q \in rows : op'[q] = op[q] /\ q \in Ops
      BY OverStays DEF Base, RefsFit, TypeOK, Over
    <3>7. PutsAll(o)'
      BY <3>1, <3>5, <3>6 DEF Steady, HasAll
    <3>. QED
      BY <1>2, <3>1, <3>2, <3>4, <3>7
  <2>. QED
    BY <1>7, <2>1, <2>2, PublishFacts
<1>8. ASSUME NEW o \in Ops, Published(o)
      PROVE  ListsAreComplete'
  <2>. DEFINE p == op[o].p
              r == op[o].r
  <2>1. /\ Only(o) /\ op'[o].pc = "probe" /\ op'[o].p = p /\ op'[o].r = r
        /\ p \in Providers /\ r \in Routes /\ UNCHANGED <<loaded, reloaded>> /\ op[o].pc = "answer"
    BY <1>8, GoOnFacts DEF Becomes, Published, RequestsFit, Calls, Up, history
  <2>2. Asked(o)' /\ Listed(o)' /\ PutsAll(o)' /\ TakesAll(o)'
    BY <2>1 DEF ListsAreComplete
  <2>3. ASSUME p \notin reloaded', TypeOf[p] \notin raced'
        PROVE  r \in published'[p] /\ (TypeOf[p] = "cloudflare" => names'[p][r] # None)
    <3>1. Steady(p)
      BY <2>1, <2>3, HistoryGrows DEF Steady
    <3>2. CASE op[o].list = None
      <4>1. TypeOf[p] # "cloudflare" /\ published' = [published EXCEPT ![p] = @ \cup {r}]
        BY <1>8, <2>1, <3>2 DEF Published, ListsAreComplete
      <4>. QED
        BY <2>1, <4>1
    <3>3. CASE op[o].list # None
      <4>1. /\ TypeOf[p] = "cloudflare" /\ published' = [published EXCEPT ![p] = op[o].list] /\ names' = names
            /\ r \in op[o].list /\ names[p][r] # None
        BY <1>8, <2>1, <3>1, <3>3 DEF Published, ListsAreComplete
      <4>. QED
        BY <2>1, <4>1
    <3>. QED
      BY <3>2, <3>3
  <2>4. Answered(o)'
    BY <2>1, <2>3 DEF Steady, Has
  <2>. QED
    BY <1>2, <2>1, <2>2, <2>4
<1>9. ASSUME NEW o \in Ops, Probe(o) \/ Serve(o)
      PROVE  ListsAreComplete'
  <2>1. /\ Only(o) /\ op'[o].pc \in {"serve", "post"} /\ op'[o].p = op[o].p /\ op'[o].r = op[o].r
        /\ op[o].pc \in {"probe", "serve"}
        /\ UNCHANGED <<loaded, reloaded, names, published>>
    BY <1>9, GoOnFacts DEF Becomes, Probe, Serve, outside, history
  <2>2. Whole(o)'
    BY <2>1, HistoryGrows DEF ListsAreComplete, Steady, Has
  <2>. QED
    BY <1>2, <2>1, <2>2
<1>10. ASSUME NEW o \in Ops, Unpublish(o) \/ Unserve(o) \/ CallFails(o) \/ Post(o) \/ ProviderDeleted(o)
       PROVE  ListsAreComplete'
  BY <1>3, <1>10, GoOnFacts DEF Becomes, Stops
<1>11. ASSUME NEW o \in Ops, (\E p \in Providers : DeleteProvider(o, p)) \/ \E r \in Routes : Reset(o, r)
       PROVE  ListsAreComplete'
  BY <1>3, <1>11, GoOnFacts, ArriveFacts DEF Becomes, Stops
<1>12. CASE \/ \E p \in Providers : DisableProvider(p) \/ StartProvider(p) \/ AgentRestarts(p)
            \/ \E r \in Routes : DeleteRoute(r)
            \/ CaddyRestarts
  BY <1>4, <1>12 DEF DisableProvider, StartProvider, AgentRestarts, DeleteRoute, CaddyRestarts
<1>13. CASE ApplicationRestarts
  <2>1. ASSUME NEW o \in Ops
        PROVE  Whole(o)'
    <3>1. op'[o].pc \in {"new", "done"}
      BY <1>13, ConstantFacts DEF ApplicationRestarts, Runs
    <3>. QED
      BY <3>1
  <2>. QED
    BY <2>1 DEF ListsAreComplete
<1>. QED
  BY <1>5, <1>6, <1>7, <1>8, <1>9, <1>10, <1>11, <1>12, <1>13 DEF Next

------------------------------------------------------------------------------
(* The ports of Tailscale.                                                  *)

\* The request `o` writes down the port it has chosen.
Notices(o, p) ==
    /\ op[o].pc = "answer" /\ op[o].p = p /\ op[o].r \in Routes /\ op[o].port \in Nat
    /\ names'[p] = [names[p] EXCEPT ![op[o].r] = op[o].port]
    /\ op'[o].pc = "probe"

Forgets(p) == \A r \in Routes : names'[p][r] = None

LEMMA PortFacts ==
    ASSUME Base, Next, NEW p \in Providers, TypeOf[p] = "tailscale"
    PROVE  names'[p] = names[p] \/ Forgets(p) \/ \E o \in Ops : Notices(o, p)
<1>. DEFINE Goal == names'[p] = names[p] \/ Forgets(p) \/ \E o \in Ops : Notices(o, p)
<1>. TypeOK /\ RequestsFit /\ names \in [Providers -> [Routes -> Ports \cup {0, None}]] /\ op \in [Ops -> Requests]
  BY DEF Base, TypeOK
<1>1. ASSUME NEW o \in Ops, NEW r \in Routes, NEW q, NEW kind,
             Enable(o, r, q) \/ TakeDown(o, kind, r, q) \/ Switch(o, r, q) \/ Reset(o, r)
      PROVE  Goal
  BY <1>1 DEF Enable, TakeDown, Switch, Reset, outside
<1>2. ASSUME NEW o \in Ops, Publish(o)
      PROVE  Goal
  <2>1. op[o].p \in Providers /\ op[o].r \in Routes
    BY <1>2 DEF Publish, RequestsFit, Calls, Up
  <2>2. \/ names' = names
        \/ TypeOf[op[o].p] = "cloudflare" /\ names' = [names EXCEPT ![op[o].p][op[o].r] = 0]
    BY <1>2, PublishFacts
  <2>. QED
    BY <2>1, <2>2
<1>3. ASSUME NEW o \in Ops, Published(o)
      PROVE  Goal
  <2>1. /\ op[o].p \in Providers /\ op[o].r \in Routes /\ op[o].pc = "answer" /\ op'[o].pc = "probe"
        /\ op[o] \in Requests
    BY <1>3, GoOnFacts DEF Published, RequestsFit, Calls, Up, Becomes
  <2>2. op[o].port \in Nat
    <3>1. op[o].port \in Ports \cup {0}
      BY <2>1 DEF Requests
    <3>2. \A n \in Ports \cup {0} : n \in Nat
      OBVIOUS
    <3>. QED
      BY <3>1, <3>2, Zenon
  <2>3. names' = names \/ names' = [names EXCEPT ![op[o].p][op[o].r] = op[o].port]
    BY <1>3 DEF Published
  <2>4. CASE names' = [names EXCEPT ![op[o].p][op[o].r] = op[o].port] /\ op[o].p = p
    <3>1. names'[p] = [names[p] EXCEPT ![op[o].r] = op[o].port]
      BY <2>1, <2>4
    <3>. QED
      BY <2>1, <2>2, <2>4, <3>1 DEF Notices
  <2>5. CASE names' = [names EXCEPT ![op[o].p][op[o].r] = op[o].port] /\ op[o].p # p
    BY <2>1, <2>5
  <2>. QED
    BY <2>3, <2>4, <2>5
<1>4. ASSUME NEW o \in Ops, Unpublish(o) \/ Unserve(o) \/ CallFails(o) \/ Probe(o) \/ Serve(o) \/ Post(o)
      PROVE  Goal
  BY <1>4 DEF Unpublish, Unserve, CallFails, Probe, Serve, Post, outside
<1>5. ASSUME NEW q \in Providers, Unload(q)
      PROVE  Goal
  BY <1>5 DEF Unload, NoNames, Forgets
<1>6. ASSUME NEW o \in Ops, ProviderDeleted(o)
      PROVE  Goal
  BY <1>5, <1>6 DEF ProviderDeleted, RequestsFit
<1>7. ASSUME NEW q \in Providers, DisableProvider(q)
      PROVE  Goal
  BY <1>5, <1>7 DEF DisableProvider
<1>8. ASSUME ApplicationRestarts
      PROVE  Goal
  BY <1>8 DEF ApplicationRestarts, NoNames, Forgets
<1>9. ASSUME \/ \E o \in Ops, q \in Providers : DeleteProvider(o, q)
             \/ \E r \in Routes : DeleteRoute(r)
             \/ CaddyRestarts
      PROVE  Goal
  BY <1>9 DEF DeleteProvider, DeleteRoute, CaddyRestarts, outside
<1>11. ASSUME NEW q \in Providers, StartProvider(q) \/ AgentRestarts(q)
       PROVE  Goal
  BY <1>11 DEF StartProvider, AgentRestarts, outside
<1>. HIDE DEF Goal
<1>10. Goal
  BY <1>1, <1>2, <1>3, <1>4, <1>6, <1>7, <1>8, <1>9, <1>11 DEF Next
<1>. QED
  BY <1>10 DEF Goal

LEMMA NamesStayDifferent ==
    ASSUME Base, NamesDiffer, PortIsFree, Next
    PROVE  NamesDiffer'
<1>. SUFFICES ASSUME "tailscale" \notin raced', NEW p \in Providers, TypeOf[p] = "tailscale"
              PROVE  \A r, s \in Routes : names'[p][r] = names'[p][s] /\ names'[p][r] # None => r = s
  BY DEF NamesDiffer
<1>1. "tailscale" \notin raced
  BY StepKinds, HistoryGrows
<1>2. \A r, s \in Routes : names[p][r] = names[p][s] /\ names[p][r] # None => r = s
  BY <1>1 DEF NamesDiffer
<1>3. ASSUME NEW o \in Ops, Notices(o, p)
      PROVE  \A r, s \in Routes : names'[p][r] = names'[p][s] /\ names'[p][r] # None => r = s
  <2>1. \A s \in Routes : s # op[o].r => names[p][s] # op[o].port
    BY <1>1, <1>3 DEF Notices, PortIsFree
  <2>2. names[p] \in [Routes -> Ports \cup {0, None}] /\ names'[p] = [names[p] EXCEPT ![op[o].r] = op[o].port]
    BY <1>3 DEF Base, TypeOK, Notices
  <2>. QED
    BY <1>2, <2>1, <2>2
<1>. QED
  BY <1>2, <1>3, PortFacts DEF Forgets

\* A request that waits for the answer has waited before, or has just called.
LEMMA AnswerFacts ==
    ASSUME Base, Next, NEW o \in Ops, op'[o].pc = "answer"
    PROVE  Publish(o) \/ op'[o] = op[o]
<1>. /\ TypeOK /\ RequestsFit /\ OpStep /\ op \in [Ops -> Requests]
  BY StepKinds DEF Base, TypeOK
<1>1. ASSUME NEW q \in Ops, Only(q), op'[q].pc # "answer"
      PROVE  op'[o] = op[o]
  BY <1>1 DEF Only
<1>2. ASSUME NEW q \in Ops, NEW r \in Routes, NEW p \in Providers, Enable(q, r, p) \/ Switch(q, r, p)
      PROVE  op'[o] = op[o]
  BY <1>1, <1>2, ArriveFacts DEF Becomes
<1>3. ASSUME NEW q \in Ops, NEW r \in Routes, NEW p \in Providers \cup {None}, NEW kind \in {"switch", "disable"},
             TakeDown(q, kind, r, p)
      PROVE  op'[o] = op[o]
  BY <1>1, <1>3, ArriveFacts DEF Becomes
<1>4. ASSUME NEW q \in Ops, \/ Unpublish(q) \/ Unserve(q) \/ CallFails(q) \/ Published(q) \/ Probe(q) \/ Serve(q)
                            \/ Post(q) \/ ProviderDeleted(q)
      PROVE  op'[o] = op[o]
  BY <1>1, <1>4, GoOnFacts DEF Becomes, Stops
<1>5. ASSUME NEW q \in Ops, (\E p \in Providers : DeleteProvider(q, p)) \/ \E r \in Routes : Reset(q, r)
      PROVE  op'[o] = op[o]
  BY <1>1, <1>5, GoOnFacts, ArriveFacts DEF Becomes, Stops
<1>6. ASSUME NEW q \in Ops, Publish(q), q # o
      PROVE  op'[o] = op[o]
  BY <1>6, PublishFacts DEF Becomes, Stops, Only
<1>7. CASE \/ \E p \in Providers : DisableProvider(p) \/ StartProvider(p) \/ AgentRestarts(p)
           \/ \E r \in Routes : DeleteRoute(r)
           \/ CaddyRestarts
  BY <1>7 DEF DisableProvider, StartProvider, AgentRestarts, DeleteRoute, CaddyRestarts
<1>8. CASE ApplicationRestarts
  BY <1>8, ConstantFacts DEF ApplicationRestarts
<1>. QED
  BY <1>2, <1>3, <1>4, <1>5, <1>6, <1>7, <1>8 DEF Next

\* A request past it has been there before, with its port, or has just got it.
LEMMA ThroughFacts ==
    ASSUME Base, Next, NEW o \in Ops, op'[o].pc \in {"probe", "serve", "post"}
    PROVE  /\ op'[o].p = op[o].p /\ op'[o].r = op[o].r /\ Calls(o)
           /\ \/ Through(o) /\ op'[o].port = op[o].port
              \/ Published(o)
<1>. /\ TypeOK /\ RequestsFit /\ OpStep /\ op \in [Ops -> Requests]
  BY StepKinds DEF Base, TypeOK
<1>. DEFINE Goal == /\ op'[o].p = op[o].p /\ op'[o].r = op[o].r /\ Calls(o)
                    /\ \/ Through(o) /\ op'[o].port = op[o].port
                       \/ Published(o)
<1>1. ASSUME op'[o] = op[o]
      PROVE  Goal
  BY <1>1 DEF Through, Calls, Up
<1>2. ASSUME NEW q \in Ops, Only(q), op'[q].pc \notin {"probe", "serve", "post"}
      PROVE  Goal
  BY <1>1, <1>2 DEF Only
<1>3. ASSUME NEW q \in Ops, NEW r \in Routes, NEW p \in Providers, Enable(q, r, p) \/ Switch(q, r, p)
      PROVE  Goal
  BY <1>2, <1>3, ArriveFacts DEF Becomes
<1>4. ASSUME NEW q \in Ops, NEW r \in Routes, NEW p \in Providers \cup {None}, NEW kind \in {"switch", "disable"},
             TakeDown(q, kind, r, p)
      PROVE  Goal
  BY <1>2, <1>4, ArriveFacts DEF Becomes
<1>5. ASSUME NEW q \in Ops, Unpublish(q) \/ Unserve(q) \/ CallFails(q) \/ Post(q) \/ ProviderDeleted(q)
      PROVE  Goal
  BY <1>2, <1>5, GoOnFacts DEF Becomes, Stops
<1>6. ASSUME NEW q \in Ops, (\E p \in Providers : DeleteProvider(q, p)) \/ \E r \in Routes : Reset(q, r)
      PROVE  Goal
  BY <1>2, <1>6, GoOnFacts, ArriveFacts DEF Becomes, Stops
<1>7. ASSUME NEW q \in Ops, Publish(q)
      PROVE  Goal
  BY <1>2, <1>7, PublishFacts DEF Becomes, Stops
<1>8. ASSUME NEW q \in Ops, Published(q) \/ Probe(q) \/ Serve(q)
      PROVE  Goal
  <2>1. /\ Only(q) /\ op[q].pc \in {"answer", "probe", "serve"}
        /\ op'[q].p = op[q].p /\ op'[q].r = op[q].r
        /\ Probe(q) \/ Serve(q) => op'[q].port = op[q].port
    BY <1>8, GoOnFacts DEF Becomes, Published, Probe, Serve
  <2>2. CASE q = o
    BY <1>8, <2>1, <2>2 DEF Calls, Up, Through, Probe, Serve
  <2>3. CASE q # o
    BY <1>1, <2>1, <2>3 DEF Only
  <2>. QED
    BY <2>2, <2>3
<1>9. ASSUME \/ \E p \in Providers : DisableProvider(p) \/ StartProvider(p) \/ AgentRestarts(p)
             \/ \E r \in Routes : DeleteRoute(r)
             \/ CaddyRestarts
      PROVE  Goal
  BY <1>1, <1>9 DEF DisableProvider, StartProvider, AgentRestarts, DeleteRoute, CaddyRestarts
<1>10. ASSUME ApplicationRestarts
       PROVE  Goal
  BY <1>1, <1>10, ConstantFacts DEF ApplicationRestarts
<1>. HIDE DEF Goal
<1>12. ASSUME NEW q \in Ops, \/ Unpublish(q) \/ Unserve(q) \/ CallFails(q) \/ Publish(q) \/ Published(q)
                             \/ Probe(q) \/ Serve(q) \/ Post(q) \/ ProviderDeleted(q)
       PROVE  Goal
  BY <1>5, <1>7, <1>8, <1>12
<1>11. Goal
  BY <1>3, <1>4, <1>6, <1>9, <1>10, <1>12 DEF Next
<1>. QED
  BY <1>11 DEF Goal

LEMMA PortIsFreeStays ==
    ASSUME Base, RaceIsNoted, NamesDiffer, PortIsFree, Next
    PROVE  PortIsFree'
<1>. /\ TypeOK /\ RequestsFit /\ OpStep /\ op \in [Ops -> Requests]
     /\ names \in [Providers -> [Routes -> Ports \cup {0, None}]]
  BY StepKinds DEF Base, TypeOK
<1>. DEFINE Fits(p, r, n, s) == IF s # r THEN names[p][s] # n ELSE names[p][s] \in {None, n}
<1>. SUFFICES ASSUME "tailscale" \notin raced', NEW o \in Ops, op'[o].pc = "answer", TypeOf[op'[o].p] = "tailscale",
                     NEW s \in Routes
              PROVE  IF s # op'[o].r THEN names'[op'[o].p][s] # op'[o].port
                                     ELSE names'[op'[o].p][s] \in {None, op'[o].port}
  BY DEF PortIsFree
<1>1. "tailscale" \notin raced
  BY HistoryGrows
<1>2. CASE op'[o] = op[o]
  <2>. DEFINE p == op[o].p
  <2>1. p \in Providers /\ TypeOf[p] = "tailscale" /\ Calls(o) /\ Up(o)
    BY <1>2 DEF RequestsFit, Calls, Up
  <2>2. Fits(p, op[o].r, op[o].port, s)
    BY <1>1, <1>2 DEF PortIsFree
  <2>3. CASE Forgets(p)
    <3>1. op[o].port \in Ports \cup {0}
      BY DEF Requests
    <3>2. \A n \in Ports \cup {0} : n # None
      OBVIOUS
    <3>. QED
      BY <1>2, <2>3, <3>1, <3>2 DEF Forgets
  <2>4. ASSUME NEW q \in Ops, Notices(q, p)
        PROVE  FALSE
    <3>1. q # o /\ Calls(q) /\ Up(q)
      BY <1>2, <2>4 DEF Notices, Calls, Up
    <3>. QED
      BY <1>1, <2>1, <2>4, <3>1, TouchesFacts DEF RaceIsNoted, Notices
  <2>. QED
    BY <1>2, <2>1, <2>2, <2>3, <2>4, PortFacts
<1>3. CASE Publish(o) /\ op'[o] # op[o]
  <2>. DEFINE p == op[o].p
              r == op[o].r
  <2>1. p \in Providers /\ r \in Routes
    BY <1>3 DEF Publish, RequestsFit, Calls, Up
  <2>2. /\ op'[o].p = p /\ op'[o].r = r /\ TypeOf[p] = "tailscale"
        /\ names' = names
        /\ \/ names[p][r] # None /\ op'[o].port = names[p][r]
           \/ names[p][r] = None /\ op'[o].port \in FreePorts(p)
    BY <1>3, PublishFacts DEF Stops, Becomes
  <2>. QED
    BY <1>1, <2>1, <2>2 DEF FreePorts, NamesDiffer
<1>. QED
  BY <1>2, <1>3, AnswerFacts

\* The port of a row stays the one its route has, unless the provider forgets.
LEMMA PortsStayNamed ==
    ASSUME Base, RaceIsNoted, NamesAreLoaded, RowsAreLoaded, ListsAreComplete, PortIsFree, PortsAreNamed, Next
    PROVE  PortsAreNamed'
<1>. /\ TypeOK /\ RequestsFit /\ OpStep /\ TableStep /\ WorldStep /\ op \in [Ops -> Requests]
     /\ names \in [Providers -> [Routes -> Ports \cup {0, None}]]
  BY StepKinds, TableKinds, WorldFacts DEF Base, TypeOK
<1>. SUFFICES ASSUME NEW o \in Ops, o \in rows' \/ op'[o].pc \in {"probe", "serve", "post"},
                     TypeOf[op'[o].p] = "tailscale", op'[o].p \notin reloaded', TypeOf[op'[o].p] \notin raced'
              PROVE  names'[op'[o].p][op'[o].r] = op'[o].port
  BY DEF PortsAreNamed, HasPort, Through, Steady
<1>. DEFINE p == op[o].p
            r == op[o].r
<1>1. /\ op'[o].p = p /\ op'[o].r = r
      /\ \/ (o \in rows \/ Through(o)) /\ op'[o].port = op[o].port
         \/ Published(o)
  BY RowFacts, ThroughFacts DEF Through
<1>2. Steady(p) /\ p \notin reloaded'
  BY <1>1, HistoryGrows DEF WorldStep, Steady
<1>3. CASE (o \in rows \/ Through(o)) /\ op'[o].port = op[o].port
  <2>1. /\ p \in KnownProviders /\ p \in Providers /\ r \in Routes
        /\ names[p][r] = op[o].port
    <3>1. CASE o \in rows
      BY <1>1, <1>2, <3>1 DEF RowsAreLoaded, PortsAreNamed, HasPort, KnownProviders, TypeOK
    <3>2. CASE Through(o)
      BY <1>1, <1>2, <3>2 DEF Through, ListsAreComplete, PortsAreNamed, HasPort, KnownProviders, RequestsFit,
         Calls, Up
    <3>. QED
      BY <1>3, <3>1, <3>2
  <2>2. op[o].port # None
    <3>1. op[o].port \in Ports \cup {0}
      BY DEF Requests
    <3>2. \A n \in Ports \cup {0} : n # None
      OBVIOUS
    <3>. QED
      BY <3>1, <3>2
  <2>3. ~Forgets(p)
    BY <1>2, <2>1, <2>2 DEF WorldStep, Keeps, Forgets
  <2>4. ASSUME NEW q \in Ops, Notices(q, p)
        PROVE  names'[p][r] = names[p][r]
    <3>1. CASE op[q].r # r
      BY <2>1, <2>4, <3>1 DEF Notices
    <3>2. CASE op[q].r = r
      <4>1. "tailscale" \notin raced /\ TypeOf[p] = "tailscale" /\ op[q].pc = "answer"
        BY <1>1, <1>2, <2>4 DEF Steady, Notices
      <4>2. names[p][r] = op[q].port
        BY <2>1, <2>2, <2>4, <3>2, <4>1 DEF PortIsFree, Notices
      <4>. QED
        BY <2>1, <2>4, <3>2, <4>2 DEF Notices
    <3>. QED
      BY <3>1, <3>2
  <2>. QED
    BY <1>1, <1>3, <2>1, <2>3, <2>4, PortFacts
<1>4. CASE Published(o)
  <2>1. /\ op[o].pc = "answer" /\ p \in Providers /\ r \in Routes /\ TypeOf[p] = "tailscale"
    BY <1>1, <1>4 DEF Published, RequestsFit, Calls, Up
  <2>2. p \in loaded
    BY <1>2, <2>1 DEF ListsAreComplete, Steady
  <2>3. names' = [names EXCEPT ![p][r] = op[o].port] /\ op'[o].port = op[o].port
    BY <1>4, <2>1, <2>2 DEF Published, Requests
  <2>. QED
    BY <1>1, <2>1, <2>3
<1>. QED
  BY <1>1, <1>3, <1>4

------------------------------------------------------------------------------
(* The theorems.                                                            *)

LEMMA InitIInv == Init => IInv
<1>. SUFFICES ASSUME Init PROVE IInv
  OBVIOUS
<1>1. TypeOK
  <2>1. op \in [Ops -> Requests]
    BY ConstantFacts DEF Init
  <2>. QED
    BY <2>1 DEF Init, TypeOK, NoNames
<1>2. \A o \in Ops : op[o].pc = "new"
  BY DEF Init, NoOp
<1>3. RequestsFit /\ RefsFit /\ TunnelHasRow
  BY <1>2 DEF Init, RequestsFit, RefsFit, TunnelHasRow, Calls, Up, Down
<1>4. ClashIsNoted /\ RaceIsNoted /\ RefIsMine /\ ServerIsNew /\ ListsAreComplete
      /\ PortIsFree /\ PortsAreNamed
  BY <1>2 DEF Init, ClashIsNoted, RaceIsNoted, RefIsMine, ServerIsNew, ListsAreComplete, PortIsFree, PortsAreNamed,
     Through, Calls, Up, Down
<1>5. RowIsReferred /\ RowIsServed /\ RowsAreLoaded /\ RowsArePublished
  BY DEF Init, RowIsReferred, RowIsServed, RowsAreLoaded, RowsArePublished
<1>6. NamesAreLoaded /\ NamesDiffer
  BY DEF Init, NoNames, NamesAreLoaded, NamesDiffer
<1>. QED
  BY <1>1, <1>3, <1>4, <1>5, <1>6 DEF IInv, Base

LEMMA NextIInv == ASSUME IInv, [Next]_vars PROVE IInv'
<1>1. CASE Next
  <2>1. OpStep /\ TableStep /\ WorldStep
    BY <1>1, StepKinds, TableKinds, WorldFacts DEF IInv
  <2>2. Base'
    BY <1>1, <2>1, TypeStep, RequestsFitStays, RefsFitStays, TunnelHasRowStays DEF IInv, Base
  <2>3. RowIsReferred' /\ ClashIsNoted' /\ RefIsMine' /\ RaceIsNoted'
    BY <1>1, <2>1, RowIsReferredStays, ClashStays, RefIsMineStays, RaceStays DEF IInv
  <2>4. RowIsServed' /\ ServerIsNew'
    BY <1>1, ServedStays DEF IInv
  <2>5. NamesAreLoaded' /\ RowsAreLoaded' /\ RowsArePublished' /\ ListsAreComplete'
    BY <1>1, <2>1, RowsArePublishedStays, ListsStay DEF IInv, WorldStep
  <2>6. NamesDiffer' /\ PortIsFree' /\ PortsAreNamed'
    BY <1>1, NamesStayDifferent, PortIsFreeStays, PortsStayNamed DEF IInv
  <2>. QED
    BY <2>2, <2>3, <2>4, <2>5, <2>6 DEF IInv
<1>2. CASE UNCHANGED vars
  <2>1. /\ UNCHANGED <<alive, ref, rows, exists, loaded, names, published, inner, op, events>>
        /\ UNCHANGED <<clash, raced, hurt, reloaded>>
    BY <1>2 DEF vars, tables, outside, history
  <2>2. Base'
    BY <2>1 DEF IInv, Base, TypeOK, RequestsFit, RefsFit, TunnelHasRow, Calls, Up, Down, Over
  <2>3. RowIsReferred' /\ ClashIsNoted' /\ RefIsMine' /\ RaceIsNoted'
    BY <2>1 DEF IInv, RowIsReferred, ClashIsNoted, RefIsMine, RaceIsNoted, Calls, Up, Down, Touches
  <2>4. RowIsServed' /\ ServerIsNew' /\ NamesAreLoaded' /\ RowsAreLoaded' /\ RowsArePublished'
    BY <2>1 DEF IInv, RowIsServed, ServerIsNew, NamesAreLoaded, RowsAreLoaded, RowsArePublished, Steady, Has
  <2>5. ListsAreComplete'
    BY <2>1 DEF IInv, ListsAreComplete, Steady, Has, HasAll
  <2>6. NamesDiffer' /\ PortIsFree' /\ PortsAreNamed'
    BY <2>1 DEF IInv, NamesDiffer, PortIsFree, PortsAreNamed, Through, HasPort, Steady
  <2>. QED
    BY <2>2, <2>3, <2>4, <2>5, <2>6 DEF IInv
<1>. QED
  BY <1>1, <1>2

THEOREM Inductive == Spec => []IInv
<1>1. IInv /\ [Next]_vars => IInv'
  BY NextIInv
<1>. QED
  BY InitIInv, <1>1, PTL DEF Spec

(* Every variable keeps its type, and every tunnel row has its route and    *)
(* its provider: the tables' foreign keys are never violated.               *)
THEOREM TypeCorrect == Spec => []TypeOK
<1>1. IInv => TypeOK
  BY DEF IInv, Base
<1>. QED
  BY <1>1, Inductive, PTL

(* A route that says it has a tunnel has a row of its own, unless its       *)
(* provider was deleted, and a row is the one its route refers to, unless   *)
(* requests for the route overlapped: however enable, disable, switch, the  *)
(* deletion of routes and providers and restarts interleave.                *)
THEOREM RowsStayMatched == Spec => []RowsMatchRoutes
<1>1. IInv => RowsMatchRoutes
  BY DEF IInv, Base, RowsMatchRoutes
<1>. QED
  BY <1>1, Inductive, PTL

(* The route of a tunnel row is served by Caddy and published by its        *)
(* provider, as long as no fault, restart or overlapping request hit them.  *)
THEOREM TunnelsAreUp == Spec => []TunnelIsUp
<1>1. IInv => TunnelIsUp
  BY DEF IInv, TunnelIsUp, RowIsPublished, RowsArePublished, Steady, Has
<1>. QED
  BY <1>1, Inductive, PTL

(* The rows of two routes never name the same port of a Tailscale device,   *)
(* unless requests for Tailscale overlapped (a port is taken only after the *)
(* call it was chosen for) or the provider was unloaded at some time (it    *)
(* remembers the ports that are taken in its memory alone).                 *)
THEOREM PortsStayDistinct == Spec => []PortsAreDistinct
<1>1. IInv => PortsAreDistinct
  <2>. SUFFICES ASSUME IInv, NEW o \in rows, NEW q \in rows,
                       TypeOf[op[o].p] = "tailscale", "tailscale" \notin raced, op[o].p \notin reloaded,
                       op[q].p = op[o].p, op[q].port = op[o].port
                PROVE  op[q].r = op[o].r
    BY DEF PortsAreDistinct
  <2>1. /\ o \in Ops /\ q \in Ops /\ op[o].p \in Providers /\ op[o].r \in Routes /\ op[q].r \in Routes
        /\ op[o].port \in Ports \cup {0}
    BY DEF IInv, Base, TypeOK, RefsFit, Over, Requests
  <2>2. HasPort(o) /\ HasPort(q)
    BY <2>1 DEF IInv, PortsAreNamed, Steady
  <2>3. \A n \in Ports \cup {0} : n # None
    OBVIOUS
  <2>. DEFINE p == op[o].p
  <2>4. names[p][op[o].r] = names[p][op[q].r] /\ names[p][op[o].r] # None
    BY <2>1, <2>2, <2>3 DEF HasPort
  <2>5. \A r, s \in Routes : names[p][r] = names[p][s] /\ names[p][r] # None => r = s
    BY <2>1 DEF IInv, NamesDiffer
  <2>. QED
    BY <2>1, <2>4, <2>5
<1>. QED
  BY <1>1, Inductive, PTL
==============================================================================
