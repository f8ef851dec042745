----------------------- MODULE FederationConfig_proofs -----------------------
(****************************************************************************)
(* Safety of FederationConfig for any routes, domains and numbers of        *)
(* operations, faults and overlapping applyConfigs.                         *)
(****************************************************************************)
EXTENDS FederationConfig, TLAPS

USE DomainAssumption, NoneAssumption, BoundsAssumption

\* No two routes of a table have one domain.
Unique(t) == \A r, q \in Rows(t) : Domain[r] = Domain[q] => r = q

\* A configuration the central instance can have computed.
Good(t) == t \in Tables /\ Unique(t)

TablesOK ==
    /\ Good(central) /\ archived \subseteq Rows(central)
    /\ Good(rows) /\ local \subseteq Rows(rows)
    /\ caddy \in Tables /\ creating \in Tables

\* What will be applied, now or at the next start, is good.
AppliesOK ==
    /\ apply \in [Slots -> Applies]
    /\ \A s \in Slots :
          /\ apply[s].pc = "push" <=> apply[s].snap # None
          /\ apply[s].cfg # None => Good(apply[s].cfg)
    /\ cache # None => Good(cache)

\* The bootstrap of a start runs alone, before the node has dialled.
Starting(s) == apply[s].pc # "idle" /\ apply[s].cfg = None
StartAlone ==
    \A s \in Slots : Starting(s) =>
        life = "booting" /\ \A t \in Slots \ {s} : apply[t].pc = "idle"

LinkOK ==
    /\ life \in {"booting", "caching", "running"}
    /\ link \in {"down", "up", "deaf"} /\ (life # "running" => link = "down")
    /\ link = "down" => toNode = <<>> /\ toCentral = <<>>

FramesOK ==
    /\ toNode \in Seq(Configs) /\ \A i \in 1..Len(toNode) : Good(toNode[i].routes)
    /\ toCentral \in Seq(Updates)
    /\ \A i \in 1..Len(toCentral) : toCentral[i].op = "upsert" => toCentral[i].d # None

\* Nothing is known anywhere of an id before it is handed out.
Known(t) == t # None => Rows(t) \subseteq born
BornOK ==
    /\ born \subseteq Routes
    /\ Known(central) /\ Known(rows) /\ Known(caddy) /\ Known(creating) /\ Known(cache)
    /\ \A s \in Slots : Known(apply[s].cfg) /\ Known(apply[s].snap)
    /\ \A i \in 1..Len(toNode) : Known(toNode[i].routes)
    /\ \A i \in 1..Len(toCentral) : toCentral[i].r \in born

\* Configurations are on their way in the order of the table's changes.
InOrder ==
    /\ epoch \in Nat /\ seen \in 0..epoch
    /\ \A i \in 1..Len(toNode) : toNode[i].epoch \in seen..epoch
    /\ \A i, j \in 1..Len(toNode) : i <= j => toNode[i].epoch <= toNode[j].epoch

BudgetsOK ==
    changes \in 0..MaxChanges /\ locals \in 0..MaxLocal /\ faults \in 0..MaxFaults

\* The inductive invariant.
ConfigInv ==
    /\ TablesOK /\ AppliesOK /\ StartAlone /\ LinkOK /\ FramesOK
    /\ BornOK /\ InOrder /\ BudgetsOK

\* None is no table.
LEMMA NoneIsNoTable == None \notin Tables
BY DEF Tables

LEMMA ConfigInit == Init => ConfigInv
<1>. SUFFICES ASSUME Init PROVE ConfigInv
  OBVIOUS
<1>1. NoRoutes \in Tables /\ Rows(NoRoutes) = {}
  BY DEF NoRoutes, Tables, Rows
<1>2. Good(NoRoutes)
  BY <1>1 DEF Good, Unique
<1>3. TablesOK /\ BornOK
  BY <1>1, <1>2 DEF Init, TablesOK, Good, BornOK, Known, Idle
<1>4. AppliesOK /\ StartAlone
  BY DEF Init, AppliesOK, StartAlone, Starting, Applies, Idle
<1>5. LinkOK /\ FramesOK /\ InOrder /\ BudgetsOK
  BY DEF Init, LinkOK, FramesOK, InOrder, BudgetsOK
<1>. QED
  BY <1>3, <1>4, <1>5 DEF ConfigInv

LEMMA InvTypes == ConfigInv => TypeOK
<1>. SUFFICES ASSUME ConfigInv PROVE TypeOK
  OBVIOUS
<1>1. Rows(central) \cup Rows(rows) \cup Rows(caddy) \cup Rows(creating) \subseteq born
  BY NoneIsNoTable DEF ConfigInv, TablesOK, Good, BornOK, Known
<1>. QED
  BY <1>1 DEF ConfigInv, TypeOK, TablesOK, AppliesOK, LinkOK, FramesOK, BornOK, InOrder, BudgetsOK, Good

------------------------------------------------------------------------------
(* Sequences and tables.                                                    *)

\* What a sequence holds once an element is appended.
LEMMA LastAdded ==
    ASSUME NEW S, NEW q \in Seq(S), NEW e \in S
    PROVE  LET a == Append(q, e)
           IN  /\ a \in Seq(S) /\ Len(a) = Len(q) + 1 /\ Len(q) \in Nat /\ Len(a) \in Nat
               /\ \A i \in 1..Len(a) :
                     (i \in 1..Len(q) /\ a[i] = q[i]) \/ (i = Len(q) + 1 /\ a[i] = e)
<1>1. Append(q, e) \in Seq(S) /\ Len(Append(q, e)) = Len(q) + 1 /\ Len(q) \in Nat
  OBVIOUS
<1>2. /\ \A i \in 1..Len(q) : Append(q, e)[i] = q[i]
      /\ Append(q, e)[Len(q) + 1] = e
  OBVIOUS
<1>3. \A i \in 1..(Len(q) + 1) : i \in 1..Len(q) \/ i = Len(q) + 1
  BY <1>1
<1>. QED
  BY <1>1, <1>2, <1>3

LEMMA PutRow ==
    ASSUME NEW t \in Tables, NEW r \in Routes, NEW d \in Data \cup {None}
    PROVE  /\ [t EXCEPT ![r] = d] \in Tables
           /\ Rows([t EXCEPT ![r] = d]) = IF d = None THEN Rows(t) \ {r} ELSE Rows(t) \cup {r}
BY DEF Tables, Rows

\* A row is put into a table of unique domains.
LEMMA PutKeepsGood ==
    ASSUME NEW t, Good(t), NEW r \in Routes, NEW d \in Data \cup {None},
           d # None => r \in Rows(t) \/ ~Taken(t, r)
    PROVE  Good([t EXCEPT ![r] = d])
<1>. DEFINE u == [t EXCEPT ![r] = d]
<1>1. u \in Tables /\ Rows(u) = IF d = None THEN Rows(t) \ {r} ELSE Rows(t) \cup {r}
  BY PutRow DEF Good
<1>2. Unique(u)
  <2>. SUFFICES ASSUME NEW a \in Rows(u), NEW b \in Rows(u), Domain[a] = Domain[b] PROVE a = b
    BY DEF Unique
  <2>1. CASE a \in Rows(t) /\ b \in Rows(t)
    BY <2>1 DEF Good, Unique
  <2>2. CASE a \notin Rows(t) \/ b \notin Rows(t)
    BY <1>1, <2>2 DEF Taken
  <2>. QED
    BY <2>1, <2>2
<1>. QED
  BY <1>1, <1>2 DEF Good

\* The statements of an applyConfig keep the table good and every local row.
LEMMA ApplyRowsKeeps ==
    ASSUME TablesOK, NEW cfg, Good(cfg), Blocked(cfg) = {}, ApplyRows(cfg)
    PROVE  Good(rows') /\ Rows(rows') \subseteq Rows(cfg) \cup Rows(rows) /\ local \subseteq Rows(rows')
<1>1. rows' \in Tables /\ rows \in Tables /\ cfg \in Tables
  BY DEF ApplyRows, TablesOK, Good, Tables
<1>2. Rows(rows') \subseteq Rows(cfg) \cup Rows(rows)
  BY DEF ApplyRows, Rows
<1>3. local \subseteq Rows(rows')
  BY <1>1 DEF ApplyRows, Rows, TablesOK
<1>4. \A a, b \in Rows(rows') : Domain[a] = Domain[b] => a = b
  <2>. SUFFICES ASSUME NEW a \in Rows(rows'), NEW b \in Rows(rows'), Domain[a] = Domain[b],
                       b \in Rows(cfg) \/ a \notin Rows(cfg)
                PROVE  a = b
    OBVIOUS
  <2>1. CASE a \in Rows(cfg)
    BY <2>1 DEF Good, Unique
  <2>2. CASE a \notin Rows(cfg) /\ b \in Rows(cfg)
    <3>1. a \in Rows(rows)
      BY <1>2, <2>2
    <3>2. b \in Rows(rows)
      BY <2>2, <3>1 DEF Blocked, Taken
    <3>. QED
      BY <3>1, <3>2 DEF TablesOK, Good, Unique
  <2>3. CASE a \notin Rows(cfg) /\ b \notin Rows(cfg)
    BY <1>2, <2>3 DEF TablesOK, Good, Unique
  <2>. QED
    BY <2>1, <2>2, <2>3
<1>. QED
  BY <1>1, <1>2, <1>3, <1>4 DEF Good, Unique, TablesOK, Rows, Tables

LEMMA ApplyRowsStopKeeps ==
    ASSUME TablesOK, NEW cfg, Good(cfg), ApplyRowsStop(cfg)
    PROVE  Good(rows') /\ Rows(rows') \subseteq Rows(cfg) \cup Rows(rows) /\ local \subseteq Rows(rows')
<1>1. PICK done \in SUBSET (Rows(cfg) \ Blocked(cfg)) :
         rows' = [r \in Routes |-> IF r \in done THEN cfg[r] ELSE rows[r]]
  BY DEF ApplyRowsStop
<1>2. rows' \in Tables /\ Rows(rows') = done \cup Rows(rows) /\ done \subseteq Rows(cfg)
  BY <1>1 DEF Rows, TablesOK, Good, Tables
<1>3. \A a, b \in Rows(rows') : Domain[a] = Domain[b] => a = b
  <2>. SUFFICES ASSUME NEW a \in Rows(rows'), NEW b \in Rows(rows'), Domain[a] = Domain[b]
                PROVE  a = b
    OBVIOUS
  <2>1. CASE a \in Rows(rows) /\ b \in Rows(rows)
    BY <2>1 DEF TablesOK, Good, Unique
  <2>2. CASE a \notin Rows(rows) /\ b \notin Rows(rows)
    BY <1>2, <2>2 DEF Good, Unique
  <2>3. CASE a \in Rows(rows) /\ b \notin Rows(rows)
    BY <1>2, <2>3 DEF Blocked, Taken
  <2>4. CASE a \notin Rows(rows) /\ b \in Rows(rows)
    BY <1>2, <2>4 DEF Blocked, Taken
  <2>. QED
    BY <2>1, <2>2, <2>3, <2>4
<1>. QED
  BY <1>2, <1>3 DEF Good, Unique, TablesOK, Rows, Tables

\* An applyConfig that starts, in a free slot, leaves it free or ready to bootstrap.
LEMMA StartApplyKeeps ==
    ASSUME TablesOK, NEW s \in Slots, NEW cfg, Good(cfg), StartApply(s, cfg)
    PROVE  /\ Good(rows') /\ Rows(rows') \subseteq Rows(cfg) \cup Rows(rows) /\ local \subseteq Rows(rows')
           /\ \E a \in {Idle, [Idle EXCEPT !.pc = "boot", !.cfg = cfg]} :
                 apply' = [apply EXCEPT ![s] = a]
<1>1. CASE Blocked(cfg) = {}
  <2>1. ApplyRows(cfg)
    BY <1>1 DEF StartApply
  <2>. QED
    BY <1>1, <2>1, ApplyRowsKeeps DEF StartApply
<1>2. CASE Blocked(cfg) # {}
  <2>1. ApplyRowsStop(cfg)
    BY <1>2 DEF StartApply
  <2>. QED
    BY <1>2, <2>1, ApplyRowsStopKeeps DEF StartApply
<1>. QED
  BY <1>1, <1>2

------------------------------------------------------------------------------
(* The central instance and the link.                                       *)

\* An operation on the central table, with a notification or without.
LEMMA ChangeKeeps ==
    ASSUME ConfigInv, NEW r \in Routes, NEW d \in Data \cup {None}, Change(r, d),
           d # None => r \in Rows(central) \/ ~Taken(central, r),
           born \subseteq born', born' \subseteq Routes, r \in born',
           archived' \subseteq Rows(central'),
           toNode' = toNode \/ NotifyConfigChange
    PROVE  ConfigInv'
<1>. USE DEF ConfigInv
<1>1. /\ central' = [central EXCEPT ![r] = d] /\ epoch' = epoch + 1
      /\ UNCHANGED <<rows, local, caddy, cache, apply, creating, life, link, toCentral, seen>>
      /\ UNCHANGED <<locals, faults>> /\ changes < MaxChanges /\ changes' = changes + 1
  BY DEF Change, nodeVars
<1>2. Good(central') /\ Rows(central') \subseteq Rows(central) \cup {r}
  <2>1. Good(central) /\ central \in Tables
    BY DEF TablesOK, Good
  <2>2. Good([central EXCEPT ![r] = d])
    BY <2>1, PutKeepsGood
  <2>3. Rows([central EXCEPT ![r] = d])
           = IF d = None THEN Rows(central) \ {r} ELSE Rows(central) \cup {r}
    BY <2>1, PutRow
  <2>. QED
    BY <1>1, <2>2, <2>3
<1>3. toNode' = toNode \/ (link = "up" /\ toNode' = Append(toNode, Computed))
  BY DEF NotifyConfigChange
<1>4. Computed = [routes |-> central', epoch |-> epoch'] /\ Computed \in Configs
  BY <1>1, <1>2 DEF Computed, Configs, Good, InOrder
<1>5. TablesOK' /\ AppliesOK' /\ StartAlone' /\ LinkOK' /\ BudgetsOK'
  BY <1>1, <1>2, <1>3
     DEF TablesOK, AppliesOK, StartAlone, Starting, LinkOK, BudgetsOK, Good, Unique, Rows
<1>6. /\ toNode' \in Seq(Configs) /\ Len(toNode) \in Nat /\ Len(toNode') \in Nat
      /\ \A i \in 1..Len(toNode') :
            \/ i \in 1..Len(toNode) /\ toNode'[i] = toNode[i]
            \/ i = Len(toNode) + 1 /\ toNode'[i] = Computed
  <2>1. toNode \in Seq(Configs) /\ Len(toNode) \in Nat
    BY DEF FramesOK
  <2>2. CASE toNode' = toNode
    BY <2>1, <2>2
  <2>3. CASE toNode' = Append(toNode, Computed)
    BY <1>4, <2>1, <2>3, LastAdded
  <2>. QED
    BY <1>3, <2>2, <2>3
<1>7. FramesOK'
  <2>1. toNode' \in Seq(Configs)
    BY <1>6
  <2>2. \A i \in 1..Len(toNode') : Good(toNode'[i].routes)
    BY <1>2, <1>4, <1>6 DEF FramesOK
  <2>. QED
    BY <1>1, <2>1, <2>2 DEF FramesOK, Good, Unique, Rows
<1>8. BornOK'
  <2>1. \A t : Known(t) => (t # None => Rows(t) \subseteq born')
    BY DEF Known
  <2>2. Rows(central') \subseteq born'
    BY <1>2, NoneIsNoTable DEF BornOK, Known, TablesOK, Good
  <2>3. \A i \in 1..Len(toNode') : Rows(toNode'[i].routes) \subseteq born'
    BY <1>4, <1>6, <2>2, NoneIsNoTable DEF BornOK, Known, FramesOK, Good
  <2>. QED
    BY <1>1, <2>1, <2>2, <2>3 DEF BornOK, Known, Rows
<1>9. InOrder'
  <2>1. Len(toNode') \in Nat /\ Len(toNode) \in Nat
    BY <1>6
  <2>2. epoch' \in Nat /\ seen' \in 0..epoch'
    BY <1>1 DEF InOrder
  <2>3. \A i \in 1..Len(toNode') :
           \/ i \in 1..Len(toNode) /\ toNode'[i].epoch = toNode[i].epoch
           \/ i = Len(toNode) + 1 /\ toNode'[i].epoch = epoch + 1
    BY <1>1, <1>4, <1>6
  <2>4. \A i \in 1..Len(toNode') : toNode'[i].epoch \in seen'..epoch'
    BY <1>1, <2>1, <2>3 DEF InOrder
  <2>5. ASSUME NEW i \in 1..Len(toNode'), NEW j \in 1..Len(toNode'), i <= j
        PROVE  toNode'[i].epoch <= toNode'[j].epoch
    <3>1. CASE j \in 1..Len(toNode)
      <4>1. i \in 1..Len(toNode) /\ j # Len(toNode) + 1 /\ i # Len(toNode) + 1
        BY <2>1, <2>5, <3>1
      <4>2. toNode'[i].epoch = toNode[i].epoch /\ toNode'[j].epoch = toNode[j].epoch
        BY <2>3, <2>5, <4>1
      <4>3. toNode[i].epoch <= toNode[j].epoch
        BY <2>5, <3>1, <4>1 DEF InOrder
      <4>. QED
        BY <4>2, <4>3
    <3>2. CASE j = Len(toNode) + 1
      BY <1>1, <2>1, <2>3, <2>4, <3>2 DEF InOrder
    <3>. QED
      BY <2>3, <3>1, <3>2
  <2>. QED
    BY <2>2, <2>4, <2>5 DEF InOrder
<1>. QED
  BY <1>5, <1>7, <1>8, <1>9

LEMMA CentralKeeps ==
    ASSUME ConfigInv,
           NEW r \in Routes, NEW d \in Data,
           CentralCreate(r, d) \/ CentralUpdate(r, d) \/ CentralDelete(r)
    PROVE  ConfigInv'
<1>. /\ born \subseteq Routes /\ central \in Tables /\ archived \subseteq Rows(central)
     /\ Rows(central) \subseteq born
  BY NoneIsNoTable DEF ConfigInv, TablesOK, BornOK, Good, Known
<1>1. CASE CentralCreate(r, d)
  <2>1. Rows(central') = Rows(central) \cup {r}
    BY <1>1, PutRow DEF CentralCreate, Change
  <2>. QED
    BY <1>1, <2>1, ChangeKeeps DEF CentralCreate
<1>2. CASE CentralUpdate(r, d)
  <2>1. Rows(central') = Rows(central) \cup {r}
    BY <1>2, PutRow DEF CentralUpdate, Change
  <2>. QED
    BY <1>2, <2>1, ChangeKeeps DEF CentralUpdate, Rows
<1>3. CASE CentralDelete(r)
  <2>1. Rows(central') = Rows(central) \ {r}
    BY <1>3, PutRow DEF CentralDelete, Change
  <2>. QED
    BY <1>3, <2>1, ChangeKeeps DEF CentralDelete, Rows
<1>. QED
  BY <1>1, <1>2, <1>3

LEMMA RecvLocalUpdateKeeps ==
    ASSUME ConfigInv, RecvLocalUpdate
    PROVE  ConfigInv'
<1>. USE DEF ConfigInv
<1>. DEFINE m == Head(toCentral)
            mirrored == m.op = "upsert" /\ (m.r \in Rows(central) \/ ~Taken(central, m.r))
<1>1. /\ toCentral # <<>> /\ toCentral' = Tail(toCentral)
      /\ central' = IF mirrored THEN [central EXCEPT ![m.r] = m.d] ELSE central
      /\ epoch' = IF mirrored THEN epoch + 1 ELSE epoch
      /\ archived' = IF m.op = "delete" /\ m.r \in Rows(central)
                     THEN archived \cup {m.r} ELSE archived
      /\ UNCHANGED <<rows, local, caddy, cache, apply, creating, life, link, toNode, born>>
      /\ UNCHANGED <<changes, locals, faults, seen>>
  BY DEF RecvLocalUpdate, nodeVars, budgets
<1>2. /\ m \in Updates /\ m.r \in born /\ (m.op = "upsert" => m.d \in Data)
      /\ toCentral' \in Seq(Updates)
      /\ \A i \in 1..Len(toCentral') : i + 1 \in 1..Len(toCentral) /\ toCentral'[i] = toCentral[i + 1]
  <2>1. toCentral \in Seq(Updates) /\ 1 \in 1..Len(toCentral) /\ m = toCentral[1]
    BY <1>1 DEF FramesOK
  <2>2. m \in Updates /\ m.r \in born /\ (m.op = "upsert" => m.d # None)
    BY <2>1 DEF FramesOK, BornOK
  <2>3. m.d \in Data \cup {None}
    BY <2>2 DEF Updates
  <2>4. /\ toCentral' \in Seq(Updates)
        /\ \A i \in 1..Len(toCentral') :
              i + 1 \in 1..Len(toCentral) /\ toCentral'[i] = toCentral[i + 1]
    BY <1>1, <2>1
  <2>. QED
    BY <2>2, <2>3, <2>4
<1>3. /\ Good(central') /\ Rows(central') \subseteq Rows(central) \cup {m.r}
      /\ Rows(central) \subseteq Rows(central')
  <2>1. CASE mirrored
    <3>1. m.r \in Routes /\ m.d \in Data /\ m.d # None
      BY <1>2, <2>1 DEF Updates
    <3>2. Good(central) /\ central \in Tables
      BY DEF TablesOK, Good
    <3>3. Good([central EXCEPT ![m.r] = m.d])
      BY <2>1, <3>1, <3>2, PutKeepsGood
    <3>4. Rows([central EXCEPT ![m.r] = m.d]) = Rows(central) \cup {m.r}
      BY <3>1, <3>2, PutRow
    <3>. HIDE DEF m
    <3>. QED
      BY <1>1, <2>1, <3>3, <3>4
  <2>. QED
    BY <1>1, <2>1 DEF TablesOK
<1>4. TablesOK'
  BY <1>1, <1>3 DEF TablesOK, Good, Unique, Rows
<1>5. AppliesOK' /\ StartAlone' /\ LinkOK' /\ BudgetsOK'
  BY <1>1 DEF AppliesOK, StartAlone, Starting, LinkOK, BudgetsOK, Good, Unique, Rows
<1>6. FramesOK' /\ InOrder'
  BY <1>1, <1>2 DEF FramesOK, InOrder, Good, Unique, Rows
<1>7. BornOK'
  <2>1. Known(central)'
    BY <1>1, <1>2, <1>3, NoneIsNoTable DEF BornOK, Known, TablesOK, Good
  <2>2. \A i \in 1..Len(toCentral') : toCentral'[i].r \in born'
    BY <1>1, <1>2 DEF BornOK
  <2>. QED
    BY <1>1, <2>1, <2>2 DEF BornOK, Known, Rows
<1>. QED
  BY <1>4, <1>5, <1>6, <1>7

LEMMA LinkKeeps ==
    ASSUME ConfigInv, LinkStep
    PROVE  ConfigInv'
<1>. USE DEF ConfigInv
<1>1. UNCHANGED <<central, archived, rows, local, caddy, cache, apply, creating, life, born>>
  BY DEF LinkStep, Connect, Deafen, ReadDeadline, LinkCut, LinkDown, tables, nodeVars
<1>2. UNCHANGED <<epoch, seen, changes, locals>>
  BY DEF LinkStep, Connect, Deafen, ReadDeadline, LinkCut, LinkDown, budgets
<1>3. faults' \in 0..MaxFaults
  BY DEF LinkStep, Connect, Deafen, ReadDeadline, LinkCut, LinkDown, budgets, Fault, BudgetsOK
<1>4. \/ toNode' = toNode /\ toCentral' = toCentral /\ link = "up" /\ link' = "deaf"
      \/ toNode' = <<>> /\ toCentral' = <<>> /\ link' \in {"down", "up", "deaf"}
      \/ toNode' = <<[routes |-> central, epoch |-> epoch]>> /\ toCentral' = <<>> /\ link' \in {"up", "deaf"}
  BY DEF LinkStep, Connect, Deafen, ReadDeadline, LinkCut, LinkDown, Session!Begin, Session!Deafen,
         Session!End
<1>5. link' # "down" => life = "running"
  BY DEF LinkStep, Connect, Deafen, ReadDeadline, LinkCut, LinkDown, LinkOK, Session!Begin,
         Session!Deafen, Session!End
<1>6. TablesOK' /\ AppliesOK' /\ StartAlone' /\ BudgetsOK'
  BY <1>1, <1>2, <1>3 DEF TablesOK, AppliesOK, StartAlone, Starting, BudgetsOK, Good, Unique, Rows
<1>7. LinkOK'
  BY <1>1, <1>4, <1>5 DEF LinkOK
<1>8. CASE toNode' = toNode /\ toCentral' = toCentral
  BY <1>1, <1>2, <1>6, <1>7, <1>8 DEF FramesOK, BornOK, InOrder, Known, Good, Unique, Rows
<1>9. CASE toNode' = <<>> /\ toCentral' = <<>>
  BY <1>1, <1>2, <1>6, <1>7, <1>9 DEF FramesOK, BornOK, InOrder, Known, Good, Unique, Rows
<1>10. CASE toNode' = <<[routes |-> central, epoch |-> epoch]>> /\ toCentral' = <<>>
  <2>1. /\ [routes |-> central, epoch |-> epoch] \in Configs
        /\ Good(central) /\ Rows(central) \subseteq born
    BY NoneIsNoTable DEF Configs, TablesOK, Good, InOrder, BornOK, Known
  <2>2. Len(toNode') = 1 /\ toNode'[1] = [routes |-> central, epoch |-> epoch]
    BY <1>10
  <2>3. FramesOK' /\ InOrder'
    BY <1>1, <1>2, <1>10, <2>1, <2>2 DEF FramesOK, InOrder, Good, Unique, Rows
  <2>4. BornOK'
    BY <1>1, <1>10, <2>1, <2>2 DEF BornOK, Known, Rows
  <2>. QED
    BY <1>6, <1>7, <2>3, <2>4
<1>. QED
  BY <1>4, <1>8, <1>9, <1>10

------------------------------------------------------------------------------
(* applyConfig.                                                             *)

\* A slot gets a record of the right kind.
LEMMA SlotKeeps ==
    ASSUME AppliesOK, NEW s \in Slots, NEW a \in Applies,
           apply' = [apply EXCEPT ![s] = a],
           a.pc = "push" <=> a.snap # None, a.cfg # None => Good(a.cfg),
           cache' # None => Good(cache')
    PROVE  AppliesOK'
<1>1. apply \in [Slots -> Applies] /\ apply' \in [Slots -> Applies]
  BY DEF AppliesOK
<1>2. \A t \in Slots : apply'[t] = IF t = s THEN a ELSE apply[t]
  BY <1>1
<1>3. \A t \in Slots :
         (apply'[t].pc = "push" <=> apply'[t].snap # None) /\ (apply'[t].cfg # None => Good(apply'[t].cfg))
  BY <1>2 DEF AppliesOK
<1>. QED
  BY <1>1, <1>3 DEF AppliesOK, Good, Unique, Rows

\* An applyConfig that starts in a free slot of a running node, or in the slot of the
\* bootstrap of the start.
LEMMA BeginApply ==
    ASSUME ConfigInv, NEW s \in Slots, NEW cfg, Good(cfg), Rows(cfg) \subseteq born,
           StartApply(s, cfg), ~Starting(s) => life = "running",
           UNCHANGED <<central, archived, local, caddy, cache, creating, born>>
    PROVE  TablesOK' /\ AppliesOK' /\ StartAlone' /\ Rows(rows') \subseteq born
           /\ \A t \in Slots : Known(apply'[t].cfg) /\ Known(apply'[t].snap)
<1>. USE DEF ConfigInv
<1>. cfg \in Tables /\ cfg # None
  BY NoneIsNoTable DEF Good
<1>1. /\ Good(rows') /\ Rows(rows') \subseteq Rows(cfg) \cup Rows(rows) /\ local \subseteq Rows(rows')
      /\ \E a \in {Idle, [Idle EXCEPT !.pc = "boot", !.cfg = cfg]} : apply' = [apply EXCEPT ![s] = a]
  BY StartApplyKeeps
<1>2. PICK a \in {Idle, [Idle EXCEPT !.pc = "boot", !.cfg = cfg]} : apply' = [apply EXCEPT ![s] = a]
  BY <1>1
<1>3. /\ a \in Applies /\ a.pc # "push" /\ a.snap = None /\ a.cfg \in {None, cfg}
      /\ a.pc # "idle" => a.cfg # None
  <2>1. CASE a = Idle
    BY <2>1 DEF Idle, Applies
  <2>2. CASE a = [Idle EXCEPT !.pc = "boot", !.cfg = cfg]
    <3>1. a = [pc |-> "boot", cfg |-> cfg, snap |-> None]
      BY <2>2 DEF Idle
    <3>. QED
      BY <3>1 DEF Applies
  <2>. QED
    BY <2>1, <2>2
<1>4. Rows(rows') \subseteq born
  BY <1>1, NoneIsNoTable DEF TablesOK, Good, BornOK, Known
<1>5. TablesOK'
  BY <1>1 DEF TablesOK, Good, Unique, Rows
<1>6. AppliesOK'
  <2>1. cache' # None => Good(cache')
    BY DEF AppliesOK
  <2>. QED
    BY <1>2, <1>3, <2>1, SlotKeeps
<1>7. \A t \in Slots : apply'[t] = IF t = s THEN a ELSE apply[t]
  BY <1>2 DEF AppliesOK
<1>8. \A t \in Slots : Known(apply'[t].cfg) /\ Known(apply'[t].snap)
  BY <1>3, <1>7 DEF BornOK, Known
<1>9. \A t \in Slots : ~(apply'[t].pc # "idle" /\ apply'[t].cfg = None)
  BY <1>3, <1>7 DEF StartAlone, Starting
<1>. QED
  BY <1>4, <1>5, <1>6, <1>8, <1>9 DEF StartAlone, Starting

LEMMA ReceiveKeeps ==
    ASSUME ConfigInv, Receive
    PROVE  ConfigInv'
<1>. USE DEF ConfigInv
<1>. DEFINE m == Head(toNode)
<1>1. /\ life = "running" /\ toNode # <<>> /\ toNode' = Tail(toNode) /\ seen' = m.epoch
      /\ StartApply(Free, m.routes)
      /\ UNCHANGED <<central, archived, local, caddy, cache, creating, life, link, toCentral>>
      /\ UNCHANGED <<born, changes, locals, faults, epoch>>
  BY DEF Receive, budgets
<1>2. Free \in Slots /\ apply[Free].pc = "idle"
  BY DEF Receive, Free
<1>3. toNode \in Seq(Configs) /\ 1 \in 1..Len(toNode) /\ m = toNode[1]
  BY <1>1 DEF FramesOK
<1>4. /\ toNode' \in Seq(Configs)
      /\ \A i \in 1..Len(toNode') : i + 1 \in 1..Len(toNode) /\ toNode'[i] = toNode[i + 1]
  BY <1>1, <1>3
<1>5. Good(m.routes) /\ Rows(m.routes) \subseteq born
  BY <1>3, NoneIsNoTable DEF FramesOK, BornOK, Known, Good
<1>6. /\ TablesOK' /\ AppliesOK' /\ StartAlone' /\ Rows(rows') \subseteq born
      /\ \A t \in Slots : Known(apply'[t].cfg) /\ Known(apply'[t].snap)
  <2>1. ~Starting(Free)
    BY <1>2 DEF Starting
  <2>. HIDE DEF m
  <2>. QED
    BY <1>1, <1>2, <1>5, BeginApply
<1>7. LinkOK' /\ BudgetsOK'
  BY <1>1, <1>3 DEF LinkOK, BudgetsOK
<1>8. FramesOK'
  BY <1>1, <1>4 DEF FramesOK, Good, Unique, Rows
<1>9. BornOK'
  <2>1. \A i \in 1..Len(toNode') : Known(toNode'[i].routes)
    BY <1>4 DEF BornOK
  <2>. QED
    BY <1>1, <1>6, <2>1 DEF BornOK, Known, Rows
<1>10. InOrder'
  <2>1. Len(toNode) \in Nat /\ Len(toNode') \in Nat /\ m.epoch \in seen..epoch
    BY <1>3, <1>4 DEF InOrder
  <2>. HIDE DEF m
  <2>2. \A i \in 1..Len(toNode') : toNode'[i].epoch \in m.epoch..epoch
    <3>. SUFFICES ASSUME NEW i \in 1..Len(toNode') PROVE toNode'[i].epoch \in m.epoch..epoch
      OBVIOUS
    <3>1. i + 1 \in 1..Len(toNode) /\ 1 <= i + 1 /\ toNode'[i] = toNode[i + 1]
      BY <1>4, <2>1
    <3>2. toNode[i + 1].epoch \in seen..epoch /\ toNode[1].epoch <= toNode[i + 1].epoch
      BY <1>3, <3>1 DEF InOrder
    <3>. QED
      BY <1>3, <2>1, <3>1, <3>2 DEF InOrder
  <2>3. \A i, j \in 1..Len(toNode') : i <= j => toNode'[i].epoch <= toNode'[j].epoch
    <3>. SUFFICES ASSUME NEW i \in 1..Len(toNode'), NEW j \in 1..Len(toNode'), i <= j
                  PROVE  toNode'[i].epoch <= toNode'[j].epoch
      OBVIOUS
    <3>1. /\ i + 1 \in 1..Len(toNode) /\ j + 1 \in 1..Len(toNode) /\ i + 1 <= j + 1
          /\ toNode'[i] = toNode[i + 1] /\ toNode'[j] = toNode[j + 1]
      BY <1>4, <2>1
    <3>. QED
      BY <3>1 DEF InOrder
  <2>. QED
    BY <1>1, <2>1, <2>2, <2>3 DEF InOrder
<1>. QED
  BY <1>6, <1>7, <1>8, <1>9, <1>10

\* A step of an applyConfig after the statements on the table.
LEMMA ApplyStepKeeps ==
    ASSUME ConfigInv, NEW s \in Slots,
           BootRead(s) \/ Replace(s) \/ BootFails(s) \/ Save(s)
    PROVE  ConfigInv'
<1>. USE DEF ConfigInv
<1>1. UNCHANGED <<central, archived, local, rows, creating, link, toNode, toCentral, born>>
      /\ UNCHANGED <<changes, locals, epoch, seen>>
  BY DEF BootRead, Replace, BootFails, Save, ApplyStep, linkVars
<1>2. apply[s] \in Applies /\ apply \in [Slots -> Applies] /\ rows \in Tables /\ rows # None
  BY NoneIsNoTable DEF AppliesOK, TablesOK, Good
<1>3. faults' \in 0..MaxFaults
  BY DEF BootRead, Replace, BootFails, Save, Fault, BudgetsOK
<1>4. /\ caddy' = caddy \/ (apply[s].snap # None /\ caddy' = apply[s].snap)
      /\ cache' = cache \/ (apply[s].cfg # None /\ cache' = apply[s].cfg)
  BY DEF BootRead, Replace, BootFails, Save, AppliesOK
<1>5. caddy' \in Tables /\ Known(caddy)' /\ Known(cache)' /\ (cache' # None => Good(cache'))
  BY <1>1, <1>2, <1>4 DEF TablesOK, AppliesOK, Applies, BornOK, Known, Rows
<1>6. \E a \in Applies :
         /\ apply' = [apply EXCEPT ![s] = a]
         /\ a.pc = "push" <=> a.snap # None
         /\ a.cfg \in {None, apply[s].cfg} /\ a.snap \in {None, rows}
         /\ \/ a.pc = "idle" /\ apply[s].cfg # None /\ life' = "running"
            \/ a.pc # "idle" /\ apply[s].pc # "idle" /\ a.cfg = apply[s].cfg /\ life' = life
  <2>1. CASE BootRead(s)
    <3>. DEFINE a == [apply[s] EXCEPT !.pc = "push", !.snap = rows]
    <3>1. a \in Applies /\ a.pc = "push" /\ a.snap = rows /\ a.cfg = apply[s].cfg
      BY <1>2 DEF Applies
    <3>2. apply' = [apply EXCEPT ![s] = a] /\ apply[s].pc = "boot" /\ life' = life
      BY <1>2, <2>1 DEF BootRead
    <3>. HIDE DEF a
    <3>. QED
      BY <1>2, <3>1, <3>2
  <2>2. CASE Replace(s) \/ BootFails(s)
    <3>. DEFINE a == [apply[s] EXCEPT !.pc = "save", !.snap = None]
    <3>1. a \in Applies /\ a.pc = "save" /\ a.snap = None /\ a.cfg = apply[s].cfg
      BY <1>2 DEF Applies
    <3>2. apply' = [apply EXCEPT ![s] = a] /\ apply[s].pc \in {"boot", "push"} /\ life' = life
      BY <1>2, <2>2 DEF Replace, BootFails
    <3>. HIDE DEF a
    <3>. QED
      BY <1>2, <3>1, <3>2
  <2>3. CASE Save(s)
    <3>1. Idle \in Applies /\ Idle.pc = "idle" /\ Idle.snap = None /\ Idle.cfg = None
      BY DEF Idle, Applies
    <3>2. apply' = [apply EXCEPT ![s] = Idle] /\ apply[s].cfg # None /\ life' = "running"
      BY <2>3 DEF Save
    <3>. QED
      BY <3>1, <3>2
  <2>. QED
    BY <2>1, <2>2, <2>3
<1>7. PICK a \in Applies :
         /\ apply' = [apply EXCEPT ![s] = a]
         /\ a.pc = "push" <=> a.snap # None
         /\ a.cfg \in {None, apply[s].cfg} /\ a.snap \in {None, rows}
         /\ \/ a.pc = "idle" /\ apply[s].cfg # None /\ life' = "running"
            \/ a.pc # "idle" /\ apply[s].pc # "idle" /\ a.cfg = apply[s].cfg /\ life' = life
  BY <1>6
<1>8. \A t \in Slots : apply'[t] = IF t = s THEN a ELSE apply[t]
  BY <1>2, <1>7
<1>9. AppliesOK'
  <2>1. a.cfg # None => Good(a.cfg)
    BY <1>7 DEF AppliesOK
  <2>. QED
    BY <1>5, <1>7, <2>1, SlotKeeps
<1>10. TablesOK'
  BY <1>1, <1>5 DEF TablesOK, Good, Unique, Rows
<1>11. StartAlone'
  <2>. SUFFICES ASSUME NEW t \in Slots, apply'[t].pc # "idle", apply'[t].cfg = None
                PROVE  life' = "booting" /\ \A u \in Slots \ {t} : apply'[u].pc = "idle"
    BY DEF StartAlone, Starting
  <2>1. CASE t = s
    BY <1>7, <1>8, <2>1 DEF StartAlone, Starting
  <2>2. CASE t # s
    <3>1. apply[t].pc # "idle" /\ apply[t].cfg = None
      BY <1>8, <2>2
    <3>2. apply[s].pc = "idle"
      BY <2>2, <3>1 DEF StartAlone, Starting
    <3>3. a.pc = "idle" /\ apply[s].cfg # None
      BY <1>7, <3>2
    <3>. QED
      BY <1>2, <3>2, <3>3 DEF BootRead, Replace, BootFails, Save
  <2>. QED
    BY <2>1, <2>2
<1>12. LinkOK'
  BY <1>1, <1>7 DEF LinkOK
<1>13. FramesOK' /\ InOrder' /\ BudgetsOK'
  BY <1>1, <1>3 DEF FramesOK, InOrder, BudgetsOK, Good, Unique, Rows
<1>14. BornOK'
  <2>1. \A t \in Slots : Known(apply'[t].cfg) /\ Known(apply'[t].snap)
    BY <1>7, <1>8 DEF BornOK, Known
  <2>. QED
    BY <1>1, <1>5, <2>1 DEF BornOK, Known, Rows
<1>. QED
  BY <1>9, <1>10, <1>11, <1>12, <1>13, <1>14

LEMMA ApplyFromCacheKeeps ==
    ASSUME ConfigInv, NEW s \in Slots, ApplyFromCache(s)
    PROVE  ConfigInv'
<1>. USE DEF ConfigInv
<1>1. /\ apply[s].pc = "save" /\ apply[s].cfg = None
      /\ life' = IF apply'[s].pc = "idle" THEN "running" ELSE "caching"
      /\ UNCHANGED <<central, archived, local, caddy, cache, creating, link, toNode, toCentral, born>>
      /\ UNCHANGED <<changes, locals, faults, epoch, seen>>
  BY DEF ApplyFromCache, ApplyStep, linkVars
<1>2. life = "booting" /\ Starting(s) /\ apply \in [Slots -> Applies]
  BY <1>1 DEF StartAlone, Starting, AppliesOK
<1>3. /\ TablesOK' /\ AppliesOK' /\ StartAlone' /\ Rows(rows') \subseteq born
      /\ \A t \in Slots : Known(apply'[t].cfg) /\ Known(apply'[t].snap)
  <2>1. CASE cache = None
    <3>1. apply' = [apply EXCEPT ![s] = Idle] /\ rows' = rows
      BY <2>1 DEF ApplyFromCache
    <3>2. Idle \in Applies /\ Idle.pc = "idle" /\ Idle.cfg = None /\ Idle.snap = None
      BY DEF Idle, Applies
    <3>3. \A t \in Slots : apply'[t] = IF t = s THEN Idle ELSE apply[t]
      BY <1>2, <3>1
    <3>4. AppliesOK'
      BY <1>1, <2>1, <3>1, <3>2, SlotKeeps
    <3>5. StartAlone'
      BY <1>2, <3>2, <3>3 DEF StartAlone, Starting
    <3>6. TablesOK' /\ Rows(rows') \subseteq born
      BY <1>1, <3>1, NoneIsNoTable DEF TablesOK, Good, Unique, Rows, BornOK, Known
    <3>7. \A t \in Slots : Known(apply'[t].cfg) /\ Known(apply'[t].snap)
      BY <3>2, <3>3 DEF BornOK, Known
    <3>. QED
      BY <3>4, <3>5, <3>6, <3>7
  <2>2. CASE cache # None
    <3>1. StartApply(s, cache)
      BY <2>2 DEF ApplyFromCache
    <3>2. Good(cache) /\ Rows(cache) \subseteq born
      BY <2>2 DEF AppliesOK, BornOK, Known
    <3>. QED
      BY <1>1, <1>2, <3>1, <3>2, BeginApply
  <2>. QED
    BY <2>1, <2>2
<1>4. LinkOK'
  BY <1>1, <1>2 DEF LinkOK
<1>5. FramesOK' /\ InOrder' /\ BudgetsOK'
  BY <1>1 DEF FramesOK, InOrder, BudgetsOK, Good, Unique, Rows
<1>6. BornOK'
  BY <1>1, <1>3 DEF BornOK, Known, Rows
<1>. QED
  BY <1>3, <1>4, <1>5, <1>6

LEMMA NodeRestartKeeps ==
    ASSUME ConfigInv, NodeRestart
    PROVE  ConfigInv'
<1>. USE DEF ConfigInv
<1>. DEFINE c == CHOOSE s \in Slots : TRUE
<1>1. /\ UNCHANGED <<central, archived, rows, born, changes, locals, epoch, seen>>
      /\ local' = Rows(rows) /\ caddy' \in {caddy, NoRoutes} /\ cache' \in {cache, None} /\ creating' = NoRoutes
      /\ life' = "booting" /\ link' = "down" /\ toNode' = <<>> /\ toCentral' = <<>>
      /\ apply' = [[s \in Slots |-> Idle] EXCEPT ![c].pc = "boot"]
  BY DEF NodeRestart
<1>2. faults' \in 0..MaxFaults
  BY DEF NodeRestart, Fault, BudgetsOK
<1>3. NoRoutes \in Tables /\ Rows(NoRoutes) = {}
  BY DEF NoRoutes, Tables, Rows
<1>4. /\ apply' = [s \in Slots |-> IF s = c THEN [Idle EXCEPT !.pc = "boot"] ELSE Idle]
  BY <1>1
<1>5. /\ Idle \in Applies /\ Idle.pc = "idle" /\ Idle.cfg = None /\ Idle.snap = None
      /\ [Idle EXCEPT !.pc = "boot"] \in Applies
      /\ \A a \in {[Idle EXCEPT !.pc = "boot"]} : a.pc = "boot" /\ a.cfg = None /\ a.snap = None
  BY DEF Idle, Applies
<1>. HIDE DEF c
<1>6. \A s \in Slots : apply'[s].cfg = None /\ apply'[s].snap = None /\ apply'[s].pc # "push"
  BY <1>4, <1>5
<1>7. AppliesOK'
  <2>1. apply' \in [Slots -> Applies]
    BY <1>4, <1>5
  <2>2. cache' # None => Good(cache')
    BY <1>1 DEF AppliesOK
  <2>. QED
    BY <1>6, <2>1, <2>2 DEF AppliesOK, Good, Unique, Rows
<1>8. StartAlone'
  BY <1>1, <1>4, <1>5 DEF StartAlone, Starting
<1>9. TablesOK'
  BY <1>1, <1>3 DEF TablesOK, Good, Unique, Rows
<1>10. LinkOK' /\ FramesOK' /\ InOrder' /\ BudgetsOK'
  BY <1>1, <1>2 DEF LinkOK, FramesOK, InOrder, BudgetsOK
<1>11. BornOK'
  BY <1>1, <1>3, <1>6 DEF BornOK, Known, Rows
<1>. QED
  BY <1>7, <1>8, <1>9, <1>10, <1>11

------------------------------------------------------------------------------
(* The users of the node.                                                   *)

\* An operation of the node changes tables and may send an update.
LEMMA NodeFrame ==
    ASSUME ConfigInv, TablesOK',
           UNCHANGED <<central, cache, apply, life, link, toNode, changes, faults, epoch, seen>>,
           born \subseteq born', born' \subseteq Routes, locals' \in 0..MaxLocal,
           Rows(rows') \cup Rows(caddy') \cup Rows(creating') \subseteq born',
           NEW u \in Updates, u.r \in born', u.op = "upsert" => u.d # None,
           toCentral' = toCentral \/ (link # "down" /\ toCentral' = Append(toCentral, u))
    PROVE  ConfigInv'
<1>. USE DEF ConfigInv
<1>1. AppliesOK' /\ StartAlone' /\ LinkOK' /\ InOrder' /\ BudgetsOK'
  BY DEF AppliesOK, StartAlone, Starting, LinkOK, InOrder, BudgetsOK, Good, Unique, Rows
<1>2. /\ toCentral' \in Seq(Updates)
      /\ \A i \in 1..Len(toCentral') :
            (i \in 1..Len(toCentral) /\ toCentral'[i] = toCentral[i]) \/ toCentral'[i] = u
  <2>1. toCentral \in Seq(Updates)
    BY DEF FramesOK
  <2>2. CASE toCentral' = toCentral
    BY <2>1, <2>2
  <2>3. CASE toCentral' = Append(toCentral, u)
    BY <2>1, <2>3, LastAdded
  <2>. QED
    BY <2>2, <2>3
<1>3. FramesOK'
  BY <1>2 DEF FramesOK, Good, Unique, Rows
<1>4. BornOK'
  <2>1. \A i \in 1..Len(toCentral') : toCentral'[i].r \in born'
    BY <1>2 DEF BornOK
  <2>2. \A t : Known(t) => (t # None => Rows(t) \subseteq born')
    BY DEF Known
  <2>. QED
    BY <2>1, <2>2 DEF BornOK, Known, Rows
<1>. QED
  BY <1>1, <1>3, <1>4

LEMMA NodeOpKeeps ==
    ASSUME ConfigInv, NEW r \in Routes, NEW d \in Data,
           LocalCreate(r, d) \/ LocalCreateReturns(r) \/ LocalUpdate(r, d) \/ LocalDelete(r)
    PROVE  ConfigInv'
<1>. USE DEF ConfigInv
<1>1. /\ Good(rows) /\ rows \in Tables /\ caddy \in Tables /\ creating \in Tables
      /\ Rows(rows) \cup Rows(caddy) \cup Rows(creating) \subseteq born /\ born \subseteq Routes
      /\ local \subseteq Rows(rows) /\ d # None
  BY NoneIsNoTable DEF TablesOK, BornOK, Good, Known
<1>2. UNCHANGED <<central, archived, cache, apply, life, link, toNode, changes, faults, epoch, seen>>
  BY DEF LocalCreate, LocalCreateReturns, LocalUpdate, LocalDelete, LocalOp, tables, budgets
<1>3. locals' \in 0..MaxLocal
  BY DEF LocalCreate, LocalCreateReturns, LocalUpdate, LocalDelete, LocalOp, budgets, BudgetsOK
<1>4. \A op \in {"upsert", "delete"}, e \in Data \cup {None} :
         /\ [op |-> op, r |-> r, d |-> e] \in Updates
         /\ SendLocalUpdate(op, r, e) =>
               \/ toCentral' = toCentral
               \/ link # "down" /\ toCentral' = Append(toCentral, [op |-> op, r |-> r, d |-> e])
  BY DEF Updates, SendLocalUpdate
<1>5. /\ \A t \in Tables, e \in Data :
            [t EXCEPT ![r] = e] \in Tables /\ Rows([t EXCEPT ![r] = e]) = Rows(t) \cup {r}
      /\ \A t \in Tables :
            [t EXCEPT ![r] = None] \in Tables /\ Rows([t EXCEPT ![r] = None]) = Rows(t) \ {r}
  <2>1. ASSUME NEW t \in Tables, NEW e \in Data
        PROVE  [t EXCEPT ![r] = e] \in Tables /\ Rows([t EXCEPT ![r] = e]) = Rows(t) \cup {r}
    BY PutRow, e # None
  <2>2. ASSUME NEW t \in Tables
        PROVE  [t EXCEPT ![r] = None] \in Tables /\ Rows([t EXCEPT ![r] = None]) = Rows(t) \ {r}
    BY PutRow
  <2>. QED
    BY <2>1, <2>2
<1>6. CASE LocalCreate(r, d)
  <2>1. /\ r \notin born /\ born' = born \cup {r} /\ rows' = [rows EXCEPT ![r] = d]
        /\ local' = local \cup {r} /\ creating' = [creating EXCEPT ![r] = d]
        /\ caddy' = caddy /\ toCentral' = toCentral /\ ~Taken(rows, r)
    BY <1>6 DEF LocalCreate, NewId
  <2>2. Good([rows EXCEPT ![r] = d])
    BY <1>1, <2>1, PutKeepsGood
  <2>3. /\ rows' \in Tables /\ Rows(rows') = Rows(rows) \cup {r}
        /\ creating' \in Tables /\ Rows(creating') = Rows(creating) \cup {r}
    BY <1>1, <1>5, <2>1
  <2>4. TablesOK'
    BY <1>1, <1>2, <2>1, <2>2, <2>3 DEF TablesOK, Good, Unique, Rows
  <2>. QED
    <3>. DEFINE u == [op |-> "upsert", r |-> r, d |-> d]
    <3>1. u \in Updates /\ u.r \in born' /\ (u.op = "upsert" => u.d # None)
      BY <1>1, <1>4, <2>1
    <3>2. /\ born \subseteq born' /\ born' \subseteq Routes
          /\ Rows(rows') \cup Rows(caddy') \cup Rows(creating') \subseteq born'
      BY <1>1, <2>1, <2>3
    <3>. HIDE DEF u
    <3>. QED
      BY <1>2, <1>3, <2>1, <2>4, <3>1, <3>2, NodeFrame
<1>7. CASE LocalCreateReturns(r)
  <2>. DEFINE e == creating[r]
  <2>1. /\ e # None /\ UNCHANGED <<rows, local, born>>
        /\ creating' = [creating EXCEPT ![r] = None]
        /\ caddy' = caddy \/ (caddy[r] # None /\ caddy' = [caddy EXCEPT ![r] = e])
        /\ SendLocalUpdate("upsert", r, e)
    BY <1>7 DEF LocalCreateReturns, tables
  <2>2. e \in Data /\ r \in Rows(creating) /\ (caddy[r] # None => r \in Rows(caddy))
    BY <1>1, <2>1 DEF Tables, Rows
  <2>. HIDE DEF e
  <2>3. /\ creating' \in Tables /\ Rows(creating') = Rows(creating) \ {r}
        /\ caddy' \in Tables /\ Rows(caddy') = Rows(caddy)
    <3>1. creating' \in Tables /\ Rows(creating') = Rows(creating) \ {r}
      BY <1>1, <1>5, <2>1
    <3>2. CASE caddy' = caddy
      BY <1>1, <3>1, <3>2
    <3>3. CASE caddy[r] # None /\ caddy' = [caddy EXCEPT ![r] = e]
      <4>1. caddy' \in Tables /\ Rows(caddy') = Rows(caddy) \cup {r}
        BY <1>1, <1>5, <2>2, <3>3
      <4>. QED
        BY <2>2, <3>1, <3>3, <4>1
    <3>. QED
      BY <2>1, <3>2, <3>3
  <2>4. TablesOK'
    BY <1>1, <1>2, <2>1, <2>3 DEF TablesOK, Good, Unique, Rows
  <2>5. [op |-> "upsert", r |-> r, d |-> e] \in Updates
    BY <1>4, <2>2
  <2>6. \/ toCentral' = toCentral
        \/ link # "down" /\ toCentral' = Append(toCentral, [op |-> "upsert", r |-> r, d |-> e])
    BY <1>4, <2>1, <2>2
  <2>. QED
    <3>. DEFINE u == [op |-> "upsert", r |-> r, d |-> e]
    <3>1. u \in Updates /\ u.r \in born' /\ (u.op = "upsert" => u.d # None)
      BY <1>1, <2>1, <2>2, <2>5
    <3>2. /\ born \subseteq born' /\ born' \subseteq Routes
          /\ Rows(rows') \cup Rows(caddy') \cup Rows(creating') \subseteq born'
      BY <1>1, <2>1, <2>3
    <3>3. toCentral' = toCentral \/ (link # "down" /\ toCentral' = Append(toCentral, u))
      BY <2>6
    <3>. HIDE DEF u
    <3>. QED
      BY <1>2, <1>3, <2>4, <3>1, <3>2, <3>3, NodeFrame
<1>8. CASE LocalUpdate(r, d)
  <2>1. /\ r \in Rows(rows) /\ rows' = [rows EXCEPT ![r] = d]
        /\ caddy' = caddy \/ (caddy[r] # None /\ caddy' = [caddy EXCEPT ![r] = d])
        /\ UNCHANGED <<local, creating, toCentral, born>>
    BY <1>8 DEF LocalUpdate
  <2>2. Good([rows EXCEPT ![r] = d])
    BY <1>1, <2>1, PutKeepsGood
  <2>3. /\ rows' \in Tables /\ Rows(rows') = Rows(rows)
        /\ caddy' \in Tables /\ Rows(caddy') = Rows(caddy)
    <3>1. rows' \in Tables /\ Rows(rows') = Rows(rows)
      <4>1. rows' \in Tables /\ Rows(rows') = Rows(rows) \cup {r}
        BY <1>1, <1>5, <2>1
      <4>2. r \in Rows(rows)
        BY <2>1
      <4>. QED
        BY <4>1, <4>2
    <3>2. CASE caddy' = caddy
      BY <1>1, <3>1, <3>2
    <3>3. CASE caddy[r] # None /\ caddy' = [caddy EXCEPT ![r] = d]
      <4>1. caddy' \in Tables /\ Rows(caddy') = Rows(caddy) \cup {r}
        BY <1>1, <1>5, <3>3
      <4>2. r \in Rows(caddy)
        BY <3>3 DEF Rows
      <4>. QED
        BY <3>1, <4>1, <4>2
    <3>. QED
      BY <2>1, <3>2, <3>3
  <2>4. TablesOK'
    BY <1>1, <1>2, <2>1, <2>2, <2>3 DEF TablesOK, Good, Unique, Rows
  <2>. QED
    <3>. DEFINE u == [op |-> "delete", r |-> r, d |-> None]
    <3>1. u \in Updates /\ u.r \in born' /\ (u.op = "upsert" => u.d # None)
      BY <1>1, <1>4, <2>1
    <3>2. /\ born \subseteq born' /\ born' \subseteq Routes
          /\ Rows(rows') \cup Rows(caddy') \cup Rows(creating') \subseteq born'
      BY <1>1, <2>1, <2>3
    <3>3. toCentral' = toCentral \/ (link # "down" /\ toCentral' = Append(toCentral, u))
      BY <2>1
    <3>. HIDE DEF u
    <3>. QED
      BY <1>2, <1>3, <2>4, <3>1, <3>2, <3>3, NodeFrame
<1>9. CASE LocalDelete(r)
  <2>1. /\ r \in Rows(rows) /\ rows' = [rows EXCEPT ![r] = None]
        /\ caddy' = [caddy EXCEPT ![r] = None] /\ local' = local \ {r}
        /\ UNCHANGED <<creating, born>>
        /\ SendLocalUpdate("delete", r, None) \/ toCentral' = toCentral
    BY <1>9 DEF LocalDelete
  <2>2. Good([rows EXCEPT ![r] = None])
    BY <1>1, PutKeepsGood
  <2>3. /\ rows' \in Tables /\ Rows(rows') = Rows(rows) \ {r}
        /\ caddy' \in Tables /\ Rows(caddy') = Rows(caddy) \ {r}
    BY <1>1, <1>5, <2>1
  <2>4. TablesOK'
    BY <1>1, <1>2, <2>1, <2>2, <2>3 DEF TablesOK, Good, Unique, Rows
  <2>5. \/ toCentral' = toCentral
        \/ link # "down" /\ toCentral' = Append(toCentral, [op |-> "delete", r |-> r, d |-> None])
    BY <1>4, <2>1
  <2>. QED
    <3>. DEFINE u == [op |-> "delete", r |-> r, d |-> None]
    <3>1. u \in Updates /\ u.r \in born' /\ (u.op = "upsert" => u.d # None)
      BY <1>1, <1>4, <2>1
    <3>2. /\ born \subseteq born' /\ born' \subseteq Routes
          /\ Rows(rows') \cup Rows(caddy') \cup Rows(creating') \subseteq born'
      BY <1>1, <2>1, <2>3
    <3>3. toCentral' = toCentral \/ (link # "down" /\ toCentral' = Append(toCentral, u))
      BY <2>5
    <3>. HIDE DEF u
    <3>. QED
      BY <1>2, <1>3, <2>4, <3>1, <3>2, <3>3, NodeFrame
<1>. QED
  BY <1>6, <1>7, <1>8, <1>9

------------------------------------------------------------------------------
(* The theorems.                                                            *)

LEMMA ConfigStep == ConfigInv /\ [Next]_vars => ConfigInv'
<1>. SUFFICES ASSUME ConfigInv, [Next]_vars PROVE ConfigInv'
  OBVIOUS
<1>1. CASE \E r \in Routes, d \in Data : CentralCreate(r, d) \/ CentralUpdate(r, d)
  BY <1>1, CentralKeeps
<1>2. CASE \E r \in Routes : CentralDelete(r)
  <2>1. PICK r \in Routes : CentralDelete(r)
    BY <1>2
  <2>2. central[r] \in Data
    BY <2>1 DEF CentralDelete, Rows, ConfigInv, TablesOK, Good, Tables
  <2>. QED
    BY <2>1, <2>2, CentralKeeps
<1>3. CASE RecvLocalUpdate
  BY <1>3, RecvLocalUpdateKeeps
<1>4. CASE LinkStep
  BY <1>4, LinkKeeps
<1>5. CASE \E r \in Routes, d \in Data : LocalCreate(r, d) \/ LocalUpdate(r, d)
  BY <1>5, NodeOpKeeps
<1>6. CASE \E r \in Routes : LocalCreateReturns(r) \/ LocalDelete(r)
  <2>1. PICK r \in Routes : LocalCreateReturns(r) \/ LocalDelete(r)
    BY <1>6
  <2>2. Data # {}
    BY <2>1 DEF LocalCreateReturns, LocalDelete, Rows, ConfigInv, TablesOK, Good, Tables
  <2>. QED
    BY <2>1, <2>2, NodeOpKeeps
<1>7. CASE Receive
  BY <1>7, ReceiveKeeps
<1>8. CASE NodeRestart
  BY <1>8, NodeRestartKeeps
<1>9. CASE \E s \in Slots : ApplyConfig(s)
  BY <1>9, ApplyStepKeeps, ApplyFromCacheKeeps DEF ApplyConfig
<1>10. CASE UNCHANGED vars
  <2>. UNCHANGED <<central, archived, rows, local, caddy, cache, apply, creating, life, link>>
       /\ UNCHANGED <<toNode, toCentral, born, changes, locals, faults, epoch, seen>>
    BY <1>10 DEF vars, tables, nodeVars, linkVars, budgets
  <2>1. TablesOK' /\ AppliesOK' /\ StartAlone' /\ LinkOK'
    BY DEF ConfigInv, TablesOK, AppliesOK, StartAlone, Starting, LinkOK, Good, Unique, Rows
  <2>2. FramesOK' /\ BornOK' /\ InOrder' /\ BudgetsOK'
    BY DEF ConfigInv, FramesOK, BornOK, InOrder, BudgetsOK, Known, Good, Unique, Rows
  <2>. QED
    BY <2>1, <2>2 DEF ConfigInv
<1>. QED
  BY <1>1, <1>2, <1>3, <1>4, <1>5, <1>6, <1>7, <1>8, <1>9, <1>10 DEF Next, CentralOp, NodeOp

LEMMA ConfigAlways == Spec => []ConfigInv
BY ConfigInit, ConfigStep, PTL DEF Spec

\* The variables of a site, its link and its configurations keep their types, and an
\* applyConfig that pushes has read the table, whatever starts and failures overlap
\* (applyConfig, applyFromCache, the start of a node).
THEOREM TypeCorrect == Spec => []TypeOK
<1>1. ConfigInv => TypeOK
  BY InvTypes
<1>. QED
  BY <1>1, ConfigAlways, PTL

\* No configuration, restart or cache removes a route that was created on the node
\* (the deletion of rows of origin "central" in applyConfig).
THEOREM LocalRoutesStay == Spec => []LocalRoutesSurvive
<1>1. ConfigInv => LocalRoutesSurvive
  BY DEF ConfigInv, TablesOK, LocalRoutesSurvive
<1>. QED
  BY <1>1, ConfigAlways, PTL

\* Neither table ever holds two routes of one domain (the inserts of applyConfig,
\* handleLocalUpdate, create and createLocal), and no configuration has two to apply.
THEOREM DomainsStayUnique == Spec => []DomainsAreUnique
<1>1. ConfigInv => DomainsAreUnique
  BY DEF ConfigInv, TablesOK, DomainsAreUnique, Good, Unique
<1>. QED
  BY <1>1, ConfigAlways, PTL

\* Configurations reach a node in the order in which the central instance computed
\* them, through notifications, reconnections and restarts.
THEOREM ConfigurationsInOrder == Spec => NeverBackwards
<1>1. ConfigInv /\ [Next]_vars => [seen' >= seen]_vars
  <2>. SUFFICES ASSUME ConfigInv, Next PROVE seen' >= seen
    BY DEF vars
  <2>1. seen \in Nat /\ (toNode # <<>> => Head(toNode).epoch \in Nat /\ Head(toNode).epoch >= seen)
    <3>1. seen \in Nat /\ epoch \in Nat /\ toNode \in Seq(Configs)
      BY DEF ConfigInv, InOrder, FramesOK
    <3>2. ASSUME toNode # <<>>
          PROVE  1 \in 1..Len(toNode) /\ Head(toNode) = toNode[1]
      BY <3>1, <3>2
    <3>. QED
      BY <3>1, <3>2 DEF ConfigInv, InOrder
  <2>2. CASE Receive
    BY <2>1, <2>2 DEF Receive
  <2>3. CASE ~Receive
    <3>1. seen' = seen
      BY <2>3 DEF Next, CentralOp, CentralCreate, CentralUpdate, CentralDelete, Change, RecvLocalUpdate,
         LinkStep, Connect, Deafen, ReadDeadline, LinkCut, LinkDown, NodeOp, LocalCreate, LocalUpdate,
         LocalCreateReturns, LocalDelete, LocalOp, NodeRestart, ApplyConfig, BootRead, Replace,
         BootFails, Save, ApplyFromCache, ApplyStep
    <3>. QED
      BY <2>1, <3>1
  <2>. QED
    BY <2>2, <2>3
<1>. QED
  BY <1>1, ConfigAlways, PTL DEF Spec, NeverBackwards

------------------------------------------------------------------------------
(* What was received last.                                                  *)

\* What a node that never restarted, whose users changed nothing, has.
FirstRun     == faults = 0 => life = "running" /\ \A s \in Slots : ~Starting(s)
NoLocals     == locals = 0 /\ faults = 0 => local = {}
FramesLatest == \A i \in 1..Len(toNode) : toNode[i].epoch = epoch => toNode[i].routes = central

LatestInv == FirstRun /\ NoLocals /\ FramesLatest /\ LatestIsFollowed

LEMMA LatestInit == Init => LatestInv
<1>. SUFFICES ASSUME Init PROVE LatestInv
  OBVIOUS
<1>1. Rows(central) = {}
  BY DEF Init, NoRoutes, Rows
<1>2. FirstRun /\ NoLocals /\ FramesLatest
  BY DEF Init, FirstRun, NoLocals, FramesLatest, Starting, Idle
<1>. QED
  BY <1>1, <1>2 DEF LatestInv, LatestIsFollowed

\* The central table changes and with it its epoch: nothing on its way is of the new
\* epoch but what is computed then.
LEMMA NewEpochKeeps ==
    ASSUME ConfigInv, LatestInv, epoch' = epoch + 1,
           toNode' = toNode \/ toNode' = Append(toNode, Computed), central' \in Tables,
           UNCHANGED <<rows, local, apply, life, locals, faults, seen>>
    PROVE  LatestInv'
<1>1. epoch \in Nat /\ seen \in Nat /\ seen <= epoch /\ seen' # epoch'
  BY DEF ConfigInv, InOrder
<1>2. toNode \in Seq(Configs) /\ \A i \in 1..Len(toNode) : toNode[i].epoch # epoch'
  BY <1>1 DEF ConfigInv, InOrder, FramesOK
<1>3. Computed \in Configs /\ Computed.routes = central' /\ Computed.epoch = epoch'
  BY <1>1 DEF Computed, Configs
<1>. HIDE DEF Computed
<1>4. FramesLatest'
  <2>1. CASE toNode' = toNode
    BY <1>2, <2>1 DEF FramesLatest
  <2>2. CASE toNode' = Append(toNode, Computed)
    <3>1. \A i \in 1..Len(toNode') :
             (i \in 1..Len(toNode) /\ toNode'[i] = toNode[i]) \/ toNode'[i] = Computed
      BY <1>2, <1>3, <2>2, LastAdded
    <3>. QED
      BY <1>2, <1>3, <3>1 DEF FramesLatest
  <2>. QED
    BY <2>1, <2>2
<1>. QED
  BY <1>1, <1>4 DEF LatestInv, LatestIsFollowed, FirstRun, NoLocals, Starting

\* A configuration is taken up.  If it is the one of the moment, the table becomes the
\* central table, or a domain is in the way and stays there.
LEMMA ReceiveFollows ==
    ASSUME ConfigInv, LatestInv, Receive
    PROVE  LatestInv'
<1>. DEFINE m == Head(toNode)
<1>1. /\ life = "running" /\ toNode # <<>> /\ toNode' = Tail(toNode) /\ seen' = m.epoch
      /\ StartApply(Free, m.routes) /\ Free \in Slots
      /\ UNCHANGED <<central, local, life, locals, faults, epoch>>
  BY DEF Receive, budgets, Free
<1>2. toNode \in Seq(Configs) /\ 1 \in 1..Len(toNode) /\ m = toNode[1]
  BY <1>1 DEF ConfigInv, FramesOK
<1>3. \A i \in 1..Len(toNode') : i + 1 \in 1..Len(toNode) /\ toNode'[i] = toNode[i + 1]
  BY <1>1, <1>2
<1>4. m.epoch = epoch => m.routes = central
  BY <1>2 DEF LatestInv, FramesLatest
<1>5. Good(m.routes) /\ m.routes # None /\ central \in Tables /\ rows \in Tables
  BY <1>2, NoneIsNoTable DEF ConfigInv, FramesOK, TablesOK, Good
<1>. HIDE DEF m
<1>6. FramesLatest'
  BY <1>1, <1>3 DEF LatestInv, FramesLatest
<1>7. NoLocals'
  BY <1>1 DEF LatestInv, NoLocals
<1>8. FirstRun'
  <2>1. apply \in [Slots -> Applies]
    BY DEF ConfigInv, AppliesOK
  <2>. DEFINE started == [Idle EXCEPT !.pc = "boot", !.cfg = m.routes]
  <2>2. apply' = [apply EXCEPT ![Free] = Idle] \/ apply' = [apply EXCEPT ![Free] = started]
    BY <1>1 DEF StartApply
  <2>3. Idle.pc = "idle" /\ started.cfg = m.routes
    BY DEF Idle
  <2>. HIDE DEF started
  <2>4. \A s \in Slots : apply'[s] = apply[s] \/ apply'[s].pc = "idle" \/ apply'[s].cfg = m.routes
    BY <1>1, <2>1, <2>2, <2>3
  <2>. QED
    BY <1>1, <1>5, <2>4 DEF LatestInv, FirstRun, Starting
<1>9. LatestIsFollowed'
  <2>. SUFFICES ASSUME m.epoch = epoch, locals = 0, faults = 0, Unblocked', Rows(central) # {}
                PROVE  Follows'
    BY <1>1 DEF LatestIsFollowed, Rows
  <2>1. m.routes = central /\ local = {} /\ central # NoRoutes
    BY <1>4 DEF LatestInv, NoLocals, NoRoutes, Rows
  <2>2. CASE Blocked(central) = {}
    <3>1. rows' = [r \in Routes |-> IF r \in Rows(central) THEN central[r] ELSE None]
      BY <1>1, <2>1, <2>2 DEF StartApply, ApplyRows
    <3>2. \A r \in Rows(central) : rows'[r] = central[r]
      BY <3>1 DEF Rows
    <3>3. Rows(rows') \subseteq Rows(central)
      BY <3>1 DEF Rows
    <3>. QED
      BY <1>1, <3>2, <3>3 DEF Follows, Rows
  <2>3. CASE Blocked(central) # {}
    <3>1. PICK r \in Routes : r \in Blocked(central)
      BY <2>3 DEF Blocked, Rows
    <3>2. PICK q \in Rows(rows) : Domain[q] = Domain[r]
      BY <3>1 DEF Blocked, Taken
    <3>3. PICK done \in SUBSET (Rows(central) \ Blocked(central)) :
             rows' = [p \in Routes |-> IF p \in done THEN central[p] ELSE rows[p]]
      BY <1>1, <2>1, <2>3 DEF StartApply, ApplyRowsStop
    <3>4. r \in Rows(central) /\ r \notin Rows(rows) /\ r \notin done
      BY <3>1, <3>3 DEF Blocked
    <3>5. r \notin Rows(rows')
      BY <3>3, <3>4 DEF Rows
    <3>6. q \in Rows(rows')
      BY <3>2, <3>3 DEF Rows
    <3>7. Taken(rows', r)
      BY <3>2, <3>6 DEF Taken
    <3>8. r \in Rows(rows') \/ ~Taken(rows', r)
      BY <1>1, <3>4 DEF Unblocked, Rows, Taken
    <3>. QED
      BY <3>5, <3>7, <3>8
  <2>. QED
    BY <2>2, <2>3
<1>. QED
  BY <1>6, <1>7, <1>8, <1>9 DEF LatestInv

\* Any other step leaves the central table alone and sends nothing but the configuration
\* of the moment, and leaves the node's table alone unless it counts as a user's or as a
\* fault.
LEMMA ApartKeeps ==
    ASSUME ConfigInv, LatestInv, UNCHANGED <<central, epoch, seen>>,
           \/ toNode' \in {toNode, <<>>}
           \/ toNode' = <<[routes |-> central, epoch |-> epoch]>>,
           \/ locals' = locals + 1 /\ UNCHANGED <<faults, life, apply>>
           \/ faults' = faults + 1
           \/ UNCHANGED <<locals, faults, rows, local>> /\ (faults = 0 => FirstRun')
    PROVE  LatestInv'
<1>1. locals \in Nat /\ faults \in Nat
  BY DEF ConfigInv, BudgetsOK
<1>2. FramesLatest'
  BY DEF LatestInv, FramesLatest
<1>. QED
  BY <1>1, <1>2 DEF LatestInv, FirstRun, NoLocals, LatestIsFollowed, Unblocked, Follows, Taken, Rows, Starting

LEMMA LatestStep == ConfigInv /\ LatestInv /\ [Next]_vars => LatestInv'
<1>. SUFFICES ASSUME ConfigInv, LatestInv, [Next]_vars PROVE LatestInv'
  OBVIOUS
<1>1. CASE \E r \in Routes, d \in Data : CentralCreate(r, d) \/ CentralUpdate(r, d)
  <2>1. PICK r \in Routes, d \in Data : CentralCreate(r, d) \/ CentralUpdate(r, d)
    BY <1>1
  <2>2. Change(r, d) /\ (toNode' = toNode \/ toNode' = Append(toNode, Computed))
    BY <2>1 DEF CentralCreate, CentralUpdate, NotifyConfigChange
  <2>3. central' \in Tables
    BY <2>2, PutRow DEF Change, ConfigInv, TablesOK, Good
  <2>. QED
    BY <2>2, <2>3, NewEpochKeeps DEF Change, nodeVars
<1>2. CASE \E r \in Routes : CentralDelete(r)
  <2>1. PICK r \in Routes : CentralDelete(r)
    BY <1>2
  <2>2. central' \in Tables
    BY <2>1, PutRow DEF CentralDelete, Change, ConfigInv, TablesOK, Good
  <2>. QED
    BY <2>1, <2>2, NewEpochKeeps DEF CentralDelete, Change, nodeVars
<1>3. CASE RecvLocalUpdate
  <2>1. CASE epoch' = epoch + 1
    <3>1. ConfigInv'
      BY <1>3, RecvLocalUpdateKeeps
    <3>2. central' \in Tables
      BY <3>1 DEF ConfigInv, TablesOK, Good
    <3>. QED
      BY <1>3, <2>1, <3>2, NewEpochKeeps DEF RecvLocalUpdate, nodeVars, budgets
  <2>2. CASE epoch' # epoch + 1
    <3>1. UNCHANGED <<central, epoch>>
      BY <1>3, <2>2 DEF RecvLocalUpdate
    <3>. QED
      BY <1>3, <3>1, ApartKeeps DEF RecvLocalUpdate, nodeVars, budgets, LatestInv, FirstRun, Starting
  <2>. QED
    BY <2>1, <2>2
<1>4. CASE LinkStep
  <2>1. UNCHANGED <<central, rows, local, apply, life, epoch, seen, locals>>
    BY <1>4 DEF LinkStep, Connect, Deafen, ReadDeadline, LinkCut, LinkDown, tables, nodeVars, budgets
  <2>2. \/ toNode' \in {toNode, <<>>}
        \/ toNode' = <<[routes |-> central, epoch |-> epoch]>>
    BY <1>4 DEF LinkStep, Connect, Deafen, ReadDeadline, LinkCut, LinkDown
  <2>3. faults' \in {faults, faults + 1}
    BY <1>4 DEF LinkStep, Connect, Deafen, ReadDeadline, LinkCut, LinkDown, budgets, Fault
  <2>. QED
    BY <2>1, <2>2, <2>3, ApartKeeps DEF LatestInv, FirstRun, Starting
<1>5. CASE \E r \in Routes, d \in Data : LocalCreate(r, d) \/ LocalUpdate(r, d)
  BY <1>5, ApartKeeps DEF LocalCreate, LocalUpdate, LocalOp
<1>6. CASE \E r \in Routes : LocalCreateReturns(r)
  BY <1>6, ApartKeeps DEF LocalCreateReturns, tables, budgets, LatestInv, FirstRun, Starting
<1>7. CASE \E r \in Routes : LocalDelete(r)
  BY <1>7, ApartKeeps DEF LocalDelete, LocalOp
<1>8. CASE Receive
  BY <1>8, ReceiveFollows
<1>9. CASE NodeRestart
  BY <1>9, ApartKeeps DEF NodeRestart, Fault
<1>10. CASE \E s \in Slots : ApplyConfig(s)
  <2>1. PICK s \in Slots : ApplyConfig(s)
    BY <1>10
  <2>. UNCHANGED <<central, local, toNode, locals, epoch, seen>>
    BY <2>1 DEF ApplyConfig, BootRead, Replace, BootFails, Save, ApplyFromCache, ApplyStep, linkVars
  <2>2. CASE BootFails(s)
    BY <2>2, ApartKeeps DEF BootFails, Fault
  <2>3. CASE ApplyFromCache(s)
    <3>1. faults' = faults /\ Starting(s) /\ faults # 0
      BY <2>3 DEF ApplyFromCache, Starting, LatestInv, FirstRun
    <3>. QED
      BY <3>1 DEF LatestInv, FirstRun, NoLocals, FramesLatest, LatestIsFollowed
  <2>4. CASE BootRead(s) \/ Replace(s) \/ Save(s)
    <3>1. apply \in [Slots -> Applies] /\ UNCHANGED <<rows, faults>> /\ life' \in {life, "running"}
      BY <2>4 DEF BootRead, Replace, Save, ConfigInv, AppliesOK
    <3>2. \A t \in Slots : apply'[t].pc = "idle" \/ (apply[t].pc # "idle" /\ apply'[t].cfg = apply[t].cfg)
                         \/ apply'[t] = apply[t]
      BY <2>4, <3>1 DEF BootRead, Replace, Save, Applies, Idle
    <3>3. faults = 0 => FirstRun'
      BY <3>1, <3>2 DEF LatestInv, FirstRun, Starting
    <3>. QED
      BY <3>1, <3>3, ApartKeeps
  <2>. QED
    BY <2>1, <2>2, <2>3, <2>4 DEF ApplyConfig
<1>11. CASE UNCHANGED vars
  <2>1. UNCHANGED <<central, rows, local, apply, life, toNode, locals, faults, epoch, seen>>
    BY <1>11 DEF vars, tables, nodeVars, linkVars, budgets
  <2>. QED
    BY <2>1, ApartKeeps DEF LatestInv, FirstRun, Starting
<1>. QED
  BY <1>1, <1>2, <1>3, <1>4, <1>5, <1>6, <1>7, <1>8, <1>9, <1>10, <1>11 DEF Next, CentralOp, NodeOp

\* A node whose users changed nothing and that did not restart follows the central table
\* once it has received the configuration of the moment, through any connections, lost
\* notifications and overlapping applyConfigs (applyConfig, handleHello).
THEOREM LatestStaysFollowed == Spec => []LatestIsFollowed
<1>1. LatestInv => LatestIsFollowed
  BY DEF LatestInv
<1>. QED
  BY <1>1, ConfigAlways, LatestInit, LatestStep, PTL DEF Spec

------------------------------------------------------------------------------
(* The sessions that carry the configurations.                              *)

\* Whatever the node, its users and its restarts do, its link only does what the
\* abstract link may: each connection, late close, cut and restart of a node is a
\* step of it (runDialerLoop, readNextFrame, handleHello).
THEOREM LinkIsUsed == Spec => Session!Spec
<1>1. Init => Session!Init
  BY DEF Init, Session!Init
<1>2. ASSUME ConfigInv, [Next]_vars PROVE [Session!Next]_link
  <2>1. CASE LinkStep
    BY <2>1 DEF LinkStep, Connect, Deafen, ReadDeadline, LinkCut, LinkDown, Session!Next
  <2>2. CASE NodeRestart
    BY <2>2 DEF NodeRestart, Session!Next, Session!End
  <2>3. CASE UNCHANGED vars
    BY <2>3 DEF vars, linkVars
  <2>4. CASE Next /\ ~LinkStep /\ ~NodeRestart
    BY <2>4 DEF Next, CentralOp, CentralCreate, CentralUpdate, CentralDelete, Change, RecvLocalUpdate,
       NodeOp, LocalCreate, LocalUpdate, LocalCreateReturns, LocalDelete, LocalOp, Receive, ApplyConfig,
       BootRead, Replace, BootFails, Save, ApplyFromCache, ApplyStep, nodeVars, linkVars
  <2>. QED
    BY <1>2, <2>1, <2>2, <2>3, <2>4
<1>. QED
  BY <1>1, <1>2, ConfigAlways, PTL DEF Spec, Session!Spec
=============================================================================
