--------------------------- MODULE RouteSync_proofs --------------------------
(****************************************************************************)
(* Safety of RouteSync, and of RouteDrift on top of it, for any number of   *)
(* routes, handlers and values.                                             *)
(****************************************************************************)
EXTENDS RouteDrift, SequenceTheorems, TLAPS

USE InvalidAssumption, FaultsAssumption, RetriesAssumption, NoneAssumption

\* The initial state is well typed.
LEMMA TypeInit == Init => TypeOK
BY DEF Init, TypeOK, HandlerStates, HandlerRecords, ReplaceStates, Idle, RepIdle, RepBoot, Nothing, Statuses

\* What every handler does up to its call of the admin API keeps the types.
LEMMA BeginTypes ==
    ASSUME TypeOK, NEW p \in Procs, NEW op \in Ops, NEW r \in Routes, NEW snap \in Data \cup {None},
           Begin(p, op, r, snap), r \in born', born \subseteq born', op \in DeleteOps \/ snap # None
    PROVE  /\ proc' \in [Procs -> HandlerStates]
           /\ \A q \in Procs : proc'[q].pc # "idle" => proc'[q].r \in born'
           /\ UNCHANGED <<caddy, extra, rep, doubled>>
           /\ agreed' \subseteq Routes /\ calm' \subseteq Procs /\ repCalm' \subseteq Routes
BY DEF TypeOK, Begin, HandlerStates, HandlerRecords, caddyVars

\* Every handler's first step keeps the types.
LEMMA HandlerBeginsTypes ==
    ASSUME TypeOK, NEW p \in Procs, HandlerBegins(p)
    PROVE  TypeOK'
<1>1. CASE \E r \in Routes, d \in Data : Create(p, r, d) \/ CreateLocal(p, r, d)
  <2>1. PICK r \in Routes, d \in Data, op \in {"create", "push"}, snap \in Data :
              InsertRow(r, d) /\ Begin(p, op, r, snap)
    BY <1>1, FormsAssumption DEF Create, CreateLocal
  <2>2. op \in Ops /\ snap \in Data \cup {None} /\ snap # None
    BY DEF Ops, PostOps, PatchOps
  <2>. QED
    BY <2>1, <2>2, BeginTypes DEF InsertRow, TypeOK
<1>2. CASE \E r \in Routes, d \in Data : Update(p, r, d)
  <2>1. PICK r \in Routes, d \in Data : Update(p, r, d)
    BY <1>2
  <2>2. "push" \in Ops /\ d \in Data \cup {None} /\ d # None
    BY DEF Ops, PatchOps
  <2>3. Begin(p, "push", r, d) /\ born' = born /\ r \in born
    BY <2>1 DEF Update, TypeOK
  <2>. QED
    BY <2>1, <2>2, <2>3, BeginTypes DEF Update, TypeOK
<1>3. CASE \E r \in Routes : Enable(p, r) \/ Disable(p, r) \/ (\E b \in BOOLEAN : Switch(p, r, b))
  <2>1. PICK r \in Routes : Enable(p, r) \/ Disable(p, r) \/ (\E b \in BOOLEAN : Switch(p, r, b))
    BY <1>3
  <2>2. PICK op \in {"push", "remove"}, snap \in {data[r], None}, b \in BOOLEAN :
              /\ r \in born /\ SetEnabled(r, b) /\ Begin(p, op, r, snap)
              /\ op = "push" => r \in rows /\ snap = data[r]
    BY <2>1 DEF Enable, Disable, Switch, TypeOK
  <2>3. op \in Ops /\ snap \in Data \cup {None} /\ (op \in DeleteOps \/ snap # None)
    BY <2>2 DEF Ops, PatchOps, DeleteOps, TypeOK
  <2>. QED
    BY <2>2, <2>3, BeginTypes DEF SetEnabled, TypeOK
<1>4. CASE \E r \in Routes : Archive(p, r) \/ Delete(p, r) \/ BulkDelete(p, r) \/ ForceResync(p, r)
  <2>1. PICK r \in Routes : Archive(p, r) \/ Delete(p, r) \/ BulkDelete(p, r) \/ ForceResync(p, r)
    BY <1>4
  <2>2. PICK op \in {"archive", "delete", "bulkDelete", "resync"}, snap \in {data[r], None} :
              /\ r \in born /\ UNCHANGED dbVars /\ Begin(p, op, r, snap)
              /\ op = "resync" => r \in rows /\ snap = data[r]
    BY <2>1 DEF Archive, Delete, BulkDelete, ForceResync, TypeOK
  <2>3. op \in Ops /\ snap \in Data \cup {None} /\ (op \in DeleteOps \/ snap # None)
    BY <2>2 DEF Ops, PatchOps, DeleteOps, TypeOK
  <2>. QED
    BY <2>2, <2>3, BeginTypes DEF dbVars, TypeOK
<1>5. CASE \E r \in Routes : ApiDelete(p, r)
  <2>1. PICK r \in Routes : ApiDelete(p, r)
    BY <1>5
  <2>2. "remove" \in Ops /\ "remove" \in DeleteOps
    BY DEF Ops, DeleteOps
  <2>3. DropRow(r) /\ Begin(p, "remove", r, None) /\ born' = born /\ r \in born
    BY <2>1 DEF ApiDelete, DropRow, TypeOK
  <2>. QED
    BY <2>2, <2>3, BeginTypes DEF DropRow, TypeOK
<1>. QED
  BY <1>1, <1>2, <1>3, <1>4, <1>5 DEF HandlerBegins

\* What Caddy has in front of the route that an id addresses: with one more, or
\* with its last taken away.
LEMMA ExtraTypes ==
    ASSUME NEW S, NEW e \in Seq(S), NEW v \in S
    PROVE  /\ Append(e, v) \in Seq(S)
           /\ e # <<>> => e[Len(e)] \in S /\ SubSeq(e, 1, Len(e) - 1) \in Seq(S)
<1>1. Append(e, v) \in Seq(S) /\ Len(e) \in Nat
  BY AppendProperties, LenProperties
<1>2. ASSUME e # <<>>
      PROVE  e[Len(e)] \in S /\ SubSeq(e, 1, Len(e) - 1) \in Seq(S)
  <2>1. Len(e) \in 1 .. Len(e) /\ \A i \in 1 .. Len(e) : e[i] \in S
    BY <1>1, <1>2, EmptySeq, LenProperties, ElementOfSeq
  <2>. QED
    BY <1>1, <2>1, SubSeqProperties
<1>. QED
  BY <1>1, <1>2

\* A call is answered, or is sent again because its answer was lost.
LEMMA CallAnswered ==
    ASSUME TypeOK, NEW p \in Procs, CallRuns(p)
    PROVE  /\ proc[p].pc = "call" /\ UNCHANGED <<dbVars, rep, agreed, calm, repCalm>>
           /\ \/ \E out \in Outcomes : Answer(p, out)
              \/ proc[p].tries < MaxRetries /\ proc' = [proc EXCEPT ![p].tries = @ + 1]
<1>1. CASE CaddyPost(p)
  BY <1>1 DEF CaddyPost, Applied, Outcomes
<1>2. CASE CaddyPatch(p)
  BY <1>2 DEF CaddyPatch, Applied, Outcomes, histVars
<1>3. CASE CaddyDelete(p)
  BY <1>3 DEF CaddyDelete, Applied, Outcomes, histVars
<1>4. CASE CallFails(p)
  BY <1>4 DEF CallFails, Refused, Outcomes, histVars
<1>. QED
  BY <1>1, <1>2, <1>3, <1>4 DEF CallRuns

\* The effect of a call and its answer keep the types.
LEMMA CallRunsTypes ==
    ASSUME TypeOK, NEW p \in Procs, CallRuns(p)
    PROVE  TypeOK'
<1>. DEFINE r == proc[p].r
            snap == proc[p].snap
<1>1. /\ proc[p] \in HandlerStates /\ r \in Routes /\ caddy[r] \in Data \cup {None} /\ snap \in Data \cup {None}
      /\ proc[p].op \notin DeleteOps => snap # None
      /\ extra[r] \in Seq(Data) /\ (extra[r] # <<>> => caddy[r] # None)
  BY CallAnswered DEF TypeOK, HandlerStates, HandlerRecords
<1>2. /\ proc' \in [Procs -> HandlerStates]
      /\ \A q \in Procs : proc'[q].pc # "idle" => proc'[q].r \in born
  <2>. DEFINE h == proc'[p]
  <2>1. /\ h \in HandlerStates /\ h.r = r /\ proc' = [proc EXCEPT ![p] = h]
    <3>1. CASE \E out \in Outcomes : Answer(p, out)
      <4>1. PICK out \in Outcomes : Answer(p, out)
        BY <3>1
      <4>2. h = [proc[p] EXCEPT !.pc = "reply", !.snap = IF out = "ok" THEN @ ELSE None,
                               !.tries = 0, !.out = out]
            /\ proc' = [proc EXCEPT ![p] = h]
        BY <4>1 DEF TypeOK, Answer
      <4>3. 0 \in 0 .. MaxRetries /\ (IF out = "ok" THEN snap ELSE None) \in Data \cup {None}
        BY <1>1
      <4>4. h = [pc |-> "reply", op |-> proc[p].op, r |-> r, snap |-> IF out = "ok" THEN snap ELSE None,
                 tries |-> 0, out |-> out]
        BY <1>1, <4>2 DEF HandlerStates, HandlerRecords
      <4>5. proc[p].op \in Ops \cup {None}
        BY <1>1 DEF HandlerStates, HandlerRecords
      <4>. QED
        BY <1>1, <4>2, <4>3, <4>4, <4>5 DEF HandlerStates, HandlerRecords
    <3>2. CASE proc[p].tries < MaxRetries /\ proc' = [proc EXCEPT ![p].tries = @ + 1]
      <4>1. h = [proc[p] EXCEPT !.tries = @ + 1] /\ proc' = [proc EXCEPT ![p] = h]
        BY <3>2 DEF TypeOK
      <4>2. proc[p].tries + 1 \in 0 .. MaxRetries
        BY <1>1, <3>2 DEF HandlerStates, HandlerRecords
      <4>. QED
        BY <1>1, <4>1, <4>2 DEF HandlerStates, HandlerRecords
    <3>. QED
      BY <3>1, <3>2, CallAnswered
  <2>2. proc' \in [Procs -> HandlerStates] /\ \A q \in Procs \ {p} : proc'[q] = proc[q]
    BY <2>1 DEF TypeOK
  <2>3. r \in born /\ proc[p].pc = "call"
    BY CallAnswered DEF TypeOK
  <2>. QED
    BY <1>1, <2>1, <2>2, <2>3 DEF TypeOK
<1>3. ASSUME NEW v \in Data \cup {None}, NEW e \in Seq(Data), e # <<>> => v # None,
             caddy' = [caddy EXCEPT ![r] = v], extra' = [extra EXCEPT ![r] = e]
      PROVE  /\ caddy' \in [Routes -> Data \cup {None}] /\ extra' \in [Routes -> Seq(Data)]
             /\ \A s \in Routes : extra'[s] # <<>> => caddy'[s] # None
  BY <1>1, <1>3 DEF TypeOK
<1>4. /\ caddy' \in [Routes -> Data \cup {None}] /\ extra' \in [Routes -> Seq(Data)]
      /\ \A s \in Routes : extra'[s] # <<>> => caddy'[s] # None
      /\ doubled' \subseteq Routes
  <2>. caddy = [caddy EXCEPT ![r] = caddy[r]] /\ extra = [extra EXCEPT ![r] = extra[r]] /\ doubled \subseteq Routes
    BY DEF TypeOK
  <2>1. CASE CaddyPost(p)
    <3>1. snap # None
      BY <1>1, <2>1 DEF CaddyPost, PostOps, DeleteOps
    <3>2. CASE caddy[r] = None
      BY <1>1, <1>3, <2>1, <3>1, <3>2 DEF CaddyPost
    <3>3. CASE caddy[r] # None
      <4>1. Append(extra[r], caddy[r]) \in Seq(Data)
        BY <1>1, <3>3, ExtraTypes
      <4>2. /\ caddy' = [caddy EXCEPT ![r] = snap] /\ extra' = [extra EXCEPT ![r] = Append(extra[r], caddy[r])]
            /\ doubled' = doubled \cup {r}
        BY <2>1, <3>3 DEF CaddyPost
      <4>. QED
        BY <1>1, <1>3, <3>1, <4>1, <4>2
    <3>. QED
      BY <3>2, <3>3
  <2>2. CASE CaddyPatch(p)
    <3>1. snap # None
      BY <1>1, <2>2 DEF CaddyPatch, PatchOps, DeleteOps
    <3>. QED
      BY <1>1, <1>3, <2>2, <3>1 DEF CaddyPatch, histVars
  <2>3. CASE CaddyDelete(p)
    <3>1. CASE caddy[r] # None /\ extra[r] # <<>>
      <4>1. extra[r][Len(extra[r])] \in Data /\ SubSeq(extra[r], 1, Len(extra[r]) - 1) \in Seq(Data)
        BY <1>1, <3>1, ExtraTypes
      <4>2. /\ caddy' = [caddy EXCEPT ![r] = extra[r][Len(extra[r])]]
            /\ extra' = [extra EXCEPT ![r] = SubSeq(extra[r], 1, Len(extra[r]) - 1)]
            /\ doubled' = doubled
        BY <2>3, <3>1 DEF CaddyDelete, histVars
      <4>3. extra[r][Len(extra[r])] # None
        BY <4>1
      <4>4. /\ caddy' \in [Routes -> Data \cup {None}] /\ extra' \in [Routes -> Seq(Data)]
            /\ \A s \in Routes : extra'[s] # <<>> => caddy'[s] # None
        BY <1>3, <4>1, <4>2, <4>3
      <4>. QED
        BY <4>2, <4>4
    <3>2. CASE caddy[r] = None
      BY <1>1, <1>3, <2>3, <3>2 DEF CaddyDelete, caddyVars, histVars
    <3>3. CASE caddy[r] # None /\ extra[r] = <<>>
      BY <1>1, <1>3, <2>3, <3>3 DEF CaddyDelete, histVars
    <3>. QED
      BY <3>1, <3>2, <3>3
  <2>4. CASE CallFails(p)
    BY <1>1, <1>3, <2>4 DEF CallFails, caddyVars, histVars
  <2>. QED
    BY <2>1, <2>2, <2>3, <2>4 DEF CallRuns
<1>5. UNCHANGED <<dbVars, rep, agreed, calm, repCalm>>
  BY CallAnswered
<1>. QED
  BY <1>2, <1>4, <1>5 DEF TypeOK, dbVars

\* What is left of a handler after the answer keeps the types.
LEMMA HandlerReturnsTypes ==
    ASSUME TypeOK, NEW p \in Procs, HandlerReturns(p)
    PROVE  TypeOK'
<1>1. /\ proc[p].pc = "reply" /\ proc[p].r \in born
      /\ Settle(p) /\ (Return(p) \/ ScheduleVerify(p))
  BY DEF HandlerReturns, CreateReturns, PushReturns, RemoveReturns, TypeOK
<1>2. /\ proc' \in [Procs -> HandlerStates]
      /\ \A q \in Procs : proc'[q].pc # "idle" => proc'[q].r \in born
      /\ calm' \subseteq Procs
  <2>1. proc[p] \in HandlerStates /\ proc \in [Procs -> HandlerStates]
    BY DEF TypeOK
  <2>2. CASE Return(p)
    BY <1>1, <2>1, <2>2 DEF TypeOK, HandlerStates, HandlerRecords, Return, Idle
  <2>3. CASE ScheduleVerify(p)
    <3>1. /\ proc' = [proc EXCEPT ![p] = [@ EXCEPT !.pc = "verify", !.op = None, !.out = None]]
          /\ calm' = calm
      BY <2>3 DEF ScheduleVerify
    <3>2. [proc[p] EXCEPT !.pc = "verify", !.op = None, !.out = None] \in HandlerStates
      BY <2>1 DEF HandlerStates, HandlerRecords
    <3>3. proc'[p].pc = "verify" /\ proc'[p].r = proc[p].r
      BY <2>1, <3>1 DEF HandlerStates, HandlerRecords
    <3>. QED
      BY <1>1, <2>1, <3>1, <3>2, <3>3 DEF TypeOK
  <2>. QED
    BY <1>1, <2>2, <2>3
<1>3. agreed' \subseteq Routes /\ UNCHANGED <<caddy, extra, rep, doubled, repCalm>>
  BY <1>1 DEF TypeOK, Settle, caddyVars
<1>4. UNCHANGED dbVars \/ DropRow(proc[p].r) \/ SetEnabled(proc[p].r, FALSE)
  BY DEF HandlerReturns, CreateReturns, PushReturns, RemoveReturns
<1>5. /\ born' = born /\ rows' \subseteq born' /\ enabled' \subseteq rows'
      /\ data' \in [Routes -> Data \cup {None}] /\ \A r \in Routes : r \in rows' <=> data'[r] # None
      /\ sync' \in [Routes -> Statuses \cup {None}] /\ \A r \in Routes \ rows' : sync'[r] = None
  <2>1. CASE UNCHANGED dbVars
    BY <2>1 DEF TypeOK, dbVars
  <2>2. CASE DropRow(proc[p].r)
    BY <1>1, <2>2 DEF TypeOK, DropRow
  <2>3. CASE SetEnabled(proc[p].r, FALSE)
    BY <2>3 DEF TypeOK, SetEnabled
  <2>. QED
    BY <1>4, <2>1, <2>2, <2>3
<1>. QED
  BY <1>2, <1>3, <1>5 DEF TypeOK

\* Reading back keeps the types: a status is written only to a row.
LEMMA VerifyTypes ==
    ASSUME TypeOK, NEW p \in Procs, Verify(p)
    PROVE  TypeOK'
<1>1. CASE VerifyRead(p)
  <2>1. PICK out \in Statuses : proc' = [proc EXCEPT ![p].pc = "verified", ![p].snap = None, ![p].out = out]
    BY <1>1 DEF VerifyRead, ClassifyDrift, Statuses
  <2>2. proc[p].pc = "verify" /\ UNCHANGED <<dbVars, caddy, extra, rep, histVars>>
    BY <1>1 DEF VerifyRead, caddyVars
  <2>3. proc' \in [Procs -> HandlerStates]
    <3>1. proc \in [Procs -> HandlerStates]
      BY DEF TypeOK
    <3>2. proc' = [proc EXCEPT ![p] = [@ EXCEPT !.pc = "verified", !.snap = None, !.out = out]]
      BY <2>1
    <3>3. [proc[p] EXCEPT !.pc = "verified", !.snap = None, !.out = out] \in HandlerStates
      BY <3>1 DEF HandlerStates, HandlerRecords
    <3>. QED
      BY <3>1, <3>2, <3>3
  <2>4. \A q \in Procs : proc'[q].pc # "idle" => proc'[q].r \in born
    BY <2>1, <2>2 DEF TypeOK, HandlerStates, HandlerRecords
  <2>. QED
    BY <2>2, <2>3, <2>4 DEF TypeOK, dbVars, histVars
<1>2. CASE VerifyWrite(p)
  <2>1. /\ proc' \in [Procs -> HandlerStates] /\ calm' \subseteq Procs
        /\ \A q \in Procs : proc'[q].pc # "idle" => proc'[q].r \in born
    BY <1>2 DEF TypeOK, HandlerStates, HandlerRecords, VerifyWrite, Return, Idle
  <2>2. UNCHANGED <<rows, enabled, data, born, caddy, extra, rep, agreed, doubled, repCalm>>
    BY <1>2 DEF VerifyWrite, caddyVars
  <2>3. /\ sync' \in [Routes -> Statuses \cup {None}]
        /\ \A r \in Routes \ rows : sync'[r] = None
    <3>1. proc[p].out \in Statuses
      BY <1>2 DEF VerifyWrite, TypeOK, HandlerStates, HandlerRecords
    <3>. QED
      BY <1>2, <3>1 DEF TypeOK, VerifyWrite
  <2>. QED
    BY <2>1, <2>2, <2>3 DEF TypeOK
<1>. QED
  BY <1>1, <1>2 DEF Verify

\* Caddy with nothing but one route for each of some ids.
LEMMA HoldingTypes ==
    ASSUME TypeOK, NEW content \in [Routes -> Data \cup {None}], Holding(content)
    PROVE  /\ caddy' \in [Routes -> Data \cup {None}] /\ extra' \in [Routes -> Seq(Data)]
           /\ \A r \in Routes : extra'[r] = <<>>
           /\ doubled' \subseteq Routes
<1>1. <<>> \in Seq(Data)
  BY EmptySeq
<1>. QED
  BY <1>1 DEF Holding

\* Pushing all routes at once keeps the types.
LEMMA ReplaceTypes ==
    ASSUME TypeOK, ReplaceAll
    PROVE  TypeOK'
<1>. USE DEF ReplaceAll, ServerMissing, GivesUp, LoadBase, BootRead, ResyncAll, ReadAll, CaddyReplace, ReplaceFails
<1>1. rep' \in ReplaceStates
  <2>1. CASE BootRead \/ ResyncAll
    <3>1. \A r \in enabled : /\ BootForm[data[r]] \in Data \cup {None}
                             /\ ResyncForm[data[r]] \in Data \cup {None}
      BY FormsAssumption DEF TypeOK
    <3>2. /\ BootPush \in [Routes -> Data \cup {None}]
          /\ ResyncPush \in [Routes -> Data \cup {None}]
      BY <3>1 DEF BootPush, ResyncPush
    <3>. QED
      BY <2>1, <3>2 DEF ReplaceStates, RepIdle
  <2>2. CASE ServerMissing("boot") \/ ServerMissing("resync") \/ GivesUp \/ LoadBase \/ CaddyReplace \/ ReplaceFails
    <3>1. /\ rep \in ReplaceStates /\ RepIdle \in ReplaceStates
          /\ \A kind \in {"boot", "resync"} : [RepIdle EXCEPT !.pc = "load", !.kind = kind] \in ReplaceStates
      BY DEF TypeOK, ReplaceStates, RepIdle, Nothing
    <3>2. [rep EXCEPT !.pc = "loaded"] \in ReplaceStates
      BY <3>1 DEF ReplaceStates
    <3>3. \/ \E kind \in {"boot", "resync"} : rep' = [RepIdle EXCEPT !.pc = "load", !.kind = kind]
          \/ rep' \in {RepIdle, rep, [rep EXCEPT !.pc = "loaded"]}
      BY <2>2 DEF RepApplied
    <3>. QED
      BY <3>1, <3>2, <3>3
  <2>. QED
    BY <2>1, <2>2
<1>2. /\ caddy' \in [Routes -> Data \cup {None}] /\ extra' \in [Routes -> Seq(Data)]
      /\ \A r \in Routes : extra'[r] # <<>> => caddy'[r] # None
      /\ doubled' \subseteq Routes
  <2>1. rep.snap \in [Routes -> Data \cup {None}] /\ Nothing \in [Routes -> Data \cup {None}]
    BY DEF TypeOK, ReplaceStates, Nothing
  <2>2. Holding(Nothing) \/ Holding(rep.snap) \/ UNCHANGED <<caddy, extra, doubled>>
    BY DEF caddyVars, histVars
  <2>. QED
    BY <2>1, <2>2, HoldingTypes DEF TypeOK
<1>3. agreed' \subseteq Routes /\ calm' \subseteq Procs /\ repCalm' \subseteq Routes
  BY DEF TypeOK, histVars
<1>4. UNCHANGED <<dbVars, proc>>
  OBVIOUS
<1>. QED
  BY <1>1, <1>2, <1>3, <1>4 DEF TypeOK, dbVars

\* Restarts keep the types.
LEMMA RestartTypes ==
    ASSUME TypeOK, CaddyRestart \/ AppRestart
    PROVE  TypeOK'
<1>1. CASE CaddyRestart
  <2>1. Nothing \in [Routes -> Data \cup {None}] /\ Holding(Nothing)
    BY <1>1 DEF CaddyRestart, Nothing
  <2>. QED
    BY <1>1, <2>1, HoldingTypes DEF TypeOK, CaddyRestart, dbVars
<1>2. CASE AppRestart
  <2>1. rep' \in ReplaceStates
    BY <1>2 DEF AppRestart, RepBoot, RepIdle, Nothing, ReplaceStates
  <2>. QED
    BY <1>2, <2>1 DEF TypeOK, HandlerStates, HandlerRecords, AppRestart, Idle, dbVars, caddyVars
<1>. QED
  BY <1>1, <1>2

LEMMA TypeStep == TypeOK /\ [Next]_vars => TypeOK'
<1>. SUFFICES ASSUME TypeOK, [Next]_vars PROVE TypeOK'
  OBVIOUS
<1>1. CASE \E p \in Procs : HandlerBegins(p) \/ CallRuns(p) \/ HandlerReturns(p) \/ Verify(p)
  BY <1>1, HandlerBeginsTypes, CallRunsTypes, HandlerReturnsTypes, VerifyTypes
<1>2. CASE ReplaceAll
  BY <1>2, ReplaceTypes
<1>3. CASE CaddyRestart \/ AppRestart
  BY <1>3, RestartTypes
<1>4. CASE UNCHANGED vars
  BY <1>4 DEF TypeOK, vars, dbVars, caddyVars, histVars
<1>. QED
  BY <1>1, <1>2, <1>3, <1>4 DEF Next

\* In every reachable state the variables have their types, only rows are
\* enabled, hold data or carry a status, and handlers work on ids handed out.
THEOREM TypeCorrect == Spec => []TypeOK
BY TypeInit, TypeStep, PTL DEF Spec

------------------------------------------------------------------------------
(* What the steps of a handler have in common.                              *)

\* The table keeps everything it holds of routes other than r.
OnlyRow(r) ==
    \A s \in Routes \ {r} :
       /\ (s \in rows') <=> (s \in rows)
       /\ (s \in enabled') <=> (s \in enabled)
       /\ data'[s] = data[s] /\ sync'[s] = sync[s]

\* A handler's first step: what the table then says of its route, by operation.
Starts(p, op, r, snap) ==
    /\ Begin(p, op, r, snap) /\ OnlyRow(r) /\ born' \subseteq born \cup {r} /\ born \subseteq born'
    /\ op \in PostOps => r \notin born /\ r \in enabled' /\ snap # None
    /\ op \in PatchOps => r \in rows' /\ data'[r] = snap
    /\ op = "remove" => r \notin enabled'
    /\ op \in {"resync", "archive", "delete"} => UNCHANGED dbVars

LEMMA BeginShape ==
    ASSUME TypeOK, NEW p \in Procs, HandlerBegins(p)
    PROVE  \E op \in Ops, r \in Routes, snap \in Data \cup {None} : Starts(p, op, r, snap)
<1>. USE DEF Ops, PostOps, PatchOps, DeleteOps
<1>1. ASSUME NEW r \in Routes, NEW d \in Data, Create(p, r, d)
      PROVE  Starts(p, "create", r, CreateForm[d]) /\ CreateForm[d] \in Data
  BY <1>1, FormsAssumption DEF Create, InsertRow, Starts, OnlyRow, TypeOK
<1>2. ASSUME NEW r \in Routes, NEW d \in Data, CreateLocal(p, r, d)
      PROVE  Starts(p, "push", r, d)
  BY <1>2 DEF CreateLocal, InsertRow, Starts, OnlyRow, TypeOK
<1>3. ASSUME NEW r \in Routes, NEW d \in Data, Update(p, r, d)
      PROVE  Starts(p, "push", r, d)
  BY <1>3 DEF Update, Starts, OnlyRow, TypeOK
<1>4. ASSUME NEW r \in Routes, NEW b \in BOOLEAN, Switch(p, r, b) \/ Enable(p, r)
      PROVE  Starts(p, "push", r, data[r])
  BY <1>4 DEF Switch, Enable, SetEnabled, Starts, OnlyRow, TypeOK
<1>5. ASSUME NEW r \in Routes, Disable(p, r) \/ ApiDelete(p, r)
      PROVE  Starts(p, "remove", r, None)
  BY <1>5 DEF Disable, ApiDelete, SetEnabled, DropRow, Starts, OnlyRow, TypeOK
<1>6. ASSUME NEW r \in Routes, Archive(p, r)
      PROVE  Starts(p, "archive", r, None)
  BY <1>6 DEF Archive, Starts, OnlyRow, dbVars, TypeOK
<1>7. ASSUME NEW r \in Routes, Delete(p, r)
      PROVE  Starts(p, "delete", r, None)
  BY <1>7 DEF Delete, Starts, OnlyRow, dbVars, TypeOK
<1>8. ASSUME NEW r \in Routes, BulkDelete(p, r)
      PROVE  Starts(p, "bulkDelete", r, None)
  BY <1>8 DEF BulkDelete, Starts, OnlyRow, dbVars, TypeOK
<1>9. ASSUME NEW r \in Routes, ForceResync(p, r)
      PROVE  Starts(p, "resync", r, data[r])
  BY <1>9 DEF ForceResync, Starts, OnlyRow, dbVars, TypeOK
<1>10. \A r \in Routes : data[r] \in Data \cup {None}
  BY DEF TypeOK
<1>. QED
  BY <1>1, <1>2, <1>3, <1>4, <1>5, <1>6, <1>7, <1>8, <1>9, <1>10 DEF HandlerBegins

\* The effect of a call on Caddy, by operation and answer; "again" stands for an
\* answer that was lost, so that the call is sent again.
Effect(p, out) ==
    LET r == proc[p].r IN
    /\ proc[p].pc = "call" /\ UNCHANGED <<dbVars, rep, agreed, calm, repCalm>>
    /\ out # "again" => out \in Outcomes /\ Answer(p, out)
    /\ out = "again" => proc[p].tries < MaxRetries /\ proc' = [proc EXCEPT ![p].tries = @ + 1]
    /\ \A s \in Routes \ {r} :
          caddy'[s] = caddy[s] /\ extra'[s] = extra[s] /\ (s \in doubled' <=> s \in doubled)
    /\ extra[r] = <<>> /\ r \notin doubled' => extra'[r] = <<>>
    /\ doubled \subseteq doubled' /\ (proc[p].op \notin PostOps => doubled' = doubled)
    /\ \/ out \in {"ok", "lost", "again"} /\ proc[p].op \notin DeleteOps /\ caddy'[r] = proc[p].snap
       \/ /\ out \in {"ok", "lost", "again"} /\ proc[p].op \in DeleteOps
          /\ extra[r] = <<>> => caddy'[r] = None
       \/ out = "notfound" /\ caddy[r] = None /\ proc[p].op \notin PostOps /\ UNCHANGED caddyVars
       \/ out = (IF proc[p].tries = 0 THEN "failed" ELSE "lost") /\ UNCHANGED caddyVars

LEMMA CallShape ==
    ASSUME TypeOK, NEW p \in Procs, CallRuns(p)
    PROVE  \E out \in Outcomes \cup {"again"} : Effect(p, out)
<1>. USE DEF PostOps, PatchOps, DeleteOps, Outcomes, caddyVars, histVars
<1>. DEFINE r == proc[p].r
<1>1. /\ r \in Routes /\ caddy \in [Routes -> Data \cup {None}] /\ extra \in [Routes -> Seq(Data)]
      /\ doubled \subseteq Routes /\ (extra[r] # <<>> => caddy[r] # None)
  BY CallAnswered DEF TypeOK
<1>2. ASSUME Applied(p)
      PROVE  \E out \in {"ok", "lost", "again"} :
                /\ out # "again" => out \in Outcomes /\ Answer(p, out)
                /\ out = "again" => proc[p].tries < MaxRetries /\ proc' = [proc EXCEPT ![p].tries = @ + 1]
  BY <1>2 DEF Applied
<1>3. CASE CaddyPost(p)
  <2>1. PICK out \in {"ok", "lost", "again"} :
                /\ out # "again" => out \in Outcomes /\ Answer(p, out)
                /\ out = "again" => proc[p].tries < MaxRetries /\ proc' = [proc EXCEPT ![p].tries = @ + 1]
    BY <1>2, <1>3 DEF CaddyPost
  <2>2. /\ caddy' = [caddy EXCEPT ![r] = proc[p].snap] /\ proc[p].pc = "call" /\ proc[p].op = "create"
        /\ UNCHANGED <<dbVars, rep, agreed, calm, repCalm>>
    BY <1>3 DEF CaddyPost
  <2>3. /\ \A s \in Routes \ {r} : extra'[s] = extra[s] /\ (s \in doubled' <=> s \in doubled)
        /\ extra[r] = <<>> /\ r \notin doubled' => extra'[r] = <<>>
        /\ doubled \subseteq doubled'
    <3>1. CASE caddy[r] = None
      BY <1>3, <3>1 DEF CaddyPost
    <3>2. CASE caddy[r] # None
      BY <1>1, <1>3, <3>2 DEF CaddyPost
    <3>. QED
      BY <3>1, <3>2
  <2>. QED
    BY <1>1, <2>1, <2>2, <2>3 DEF Effect
<1>4. CASE CaddyPatch(p)
  <2>1. CASE caddy[r] = None
    BY <1>1, <1>4, <2>1 DEF CaddyPatch, Effect
  <2>2. CASE caddy[r] # None
    <3>1. PICK out \in {"ok", "lost", "again"} :
                /\ out # "again" => out \in Outcomes /\ Answer(p, out)
                /\ out = "again" => proc[p].tries < MaxRetries /\ proc' = [proc EXCEPT ![p].tries = @ + 1]
      BY <1>2, <1>4, <2>2 DEF CaddyPatch
    <3>. QED
      BY <1>1, <1>4, <2>2, <3>1 DEF CaddyPatch, Effect
  <2>. QED
    BY <2>1, <2>2
<1>5. CASE CaddyDelete(p)
  <2>1. CASE caddy[r] = None
    <3>1. Answer(p, "notfound") /\ UNCHANGED <<caddy, extra>> /\ proc[p].op \in DeleteOps /\ proc[p].pc = "call"
      BY <1>1, <1>5, <2>1 DEF CaddyDelete
    <3>2. UNCHANGED <<dbVars, rep, agreed, calm, doubled, repCalm>>
      BY <1>5 DEF CaddyDelete
    <3>. QED
      BY <1>1, <2>1, <3>1, <3>2 DEF Effect
  <2>2. CASE caddy[r] # None
    <3>1. /\ Applied(p) /\ proc[p].pc = "call" /\ proc[p].op \in DeleteOps
          /\ UNCHANGED <<dbVars, rep, agreed, calm, doubled, repCalm>>
          /\ \A s \in Routes \ {r} : caddy'[s] = caddy[s] /\ extra'[s] = extra[s]
          /\ extra[r] = <<>> => caddy'[r] = None /\ extra'[r] = <<>>
      BY <1>1, <1>5, <2>2 DEF CaddyDelete
    <3>2. PICK out \in {"ok", "lost", "again"} :
                /\ out # "again" => out \in Outcomes /\ Answer(p, out)
                /\ out = "again" => proc[p].tries < MaxRetries /\ proc' = [proc EXCEPT ![p].tries = @ + 1]
      BY <1>2, <3>1
    <3>. QED
      BY <1>1, <3>1, <3>2 DEF Effect
  <2>. QED
    BY <2>1, <2>2
<1>6. CASE CallFails(p)
  BY <1>1, <1>6 DEF CallFails, Refused, Effect
<1>. QED
  BY <1>3, <1>4, <1>5, <1>6 DEF CallRuns

\* A handler's last step: its route is settled, and a push that was
\* acknowledged is read back.
LEMMA ReturnShape ==
    ASSUME TypeOK, NEW p \in Procs, HandlerReturns(p)
    PROVE  /\ proc[p].pc = "reply" /\ proc[p].r \in Routes
           /\ OnlyRow(proc[p].r) /\ born' = born /\ Settle(p)
           /\ \/ Return(p)
              \/ /\ ScheduleVerify(p) /\ UNCHANGED dbVars
                 /\ proc[p].out = "ok" /\ proc[p].op \in PostOps \cup PatchOps
<1>1. proc[p].pc = "reply" /\ proc[p].r \in Routes /\ Settle(p)
  BY DEF HandlerReturns, CreateReturns, PushReturns, RemoveReturns, TypeOK
<1>2. UNCHANGED dbVars \/ DropRow(proc[p].r) \/ SetEnabled(proc[p].r, FALSE)
  BY DEF HandlerReturns, CreateReturns, PushReturns, RemoveReturns
<1>3. OnlyRow(proc[p].r) /\ born' = born
  BY <1>1, <1>2 DEF OnlyRow, TypeOK, dbVars, DropRow, SetEnabled
<1>4. \/ Return(p)
      \/ /\ ScheduleVerify(p) /\ UNCHANGED dbVars
         /\ proc[p].out = "ok" /\ proc[p].op \in PostOps \cup PatchOps
  BY DEF HandlerReturns, CreateReturns, PushReturns, RemoveReturns
<1>. QED
  BY <1>1, <1>3, <1>4

\* A route that was deleted and is gone from Caddy does not come back, unless the
\* POST of its own create is still being repeated, or a replaceRoutes that read the
\* table before the delete is still to take effect.
THEOREM DeletedRoutesStayGone == Spec => GoneStaysGone
<1>1. ASSUME TypeOK, [Next]_vars, NEW r \in born \ rows, caddy[r] = None, ~Reinsertable(r)
      PROVE  caddy'[r] = None
  <2>. r \in Routes /\ caddy \in [Routes -> Data \cup {None}]
    BY <1>1 DEF TypeOK
  <2>1. ASSUME NEW p \in Procs, HandlerBegins(p) \/ HandlerReturns(p) \/ Verify(p)
        PROVE  caddy'[r] = None
    <3>1. CASE HandlerBegins(p)
      BY <1>1, <3>1, BeginShape DEF Starts, Begin, caddyVars
    <3>2. CASE HandlerReturns(p)
      BY <1>1, <3>2 DEF HandlerReturns, CreateReturns, PushReturns, RemoveReturns, Settle, caddyVars
    <3>3. CASE Verify(p)
      BY <1>1, <3>3 DEF Verify, VerifyRead, VerifyWrite, caddyVars
    <3>. QED
      BY <2>1, <3>1, <3>2, <3>3
  <2>2. ASSUME NEW p \in Procs, CallRuns(p)
        PROVE  caddy'[r] = None
    <3>1. CASE CaddyPost(p)
      BY <1>1, <3>1 DEF CaddyPost, Reinsertable
    <3>2. CASE CaddyPatch(p) \/ CaddyDelete(p) \/ CallFails(p)
      BY <1>1, <3>2 DEF CaddyPatch, CaddyDelete, CallFails, caddyVars, TypeOK
    <3>. QED
      BY <2>2, <3>1, <3>2 DEF CallRuns
  <2>3. CASE ReplaceAll
    <3>1. CASE Holding(Nothing) \/ (CaddyReplace /\ Holding(rep.snap))
      BY <1>1, <3>1 DEF Holding, Nothing, CaddyReplace, Reinsertable
    <3>2. CASE caddy' = caddy
      BY <1>1, <3>2
    <3>. QED
      BY <2>3, <3>1, <3>2 DEF ReplaceAll, ServerMissing, GivesUp, LoadBase, BootRead, ResyncAll, ReadAll,
         CaddyReplace, ReplaceFails, caddyVars
  <2>4. CASE CaddyRestart \/ AppRestart \/ UNCHANGED vars
    BY <1>1, <2>4 DEF CaddyRestart, AppRestart, Holding, Nothing, vars, caddyVars
  <2>. QED
    BY <1>1, <2>1, <2>2, <2>3, <2>4 DEF Next
<1>2. TypeOK /\ [Next]_vars =>
        [\A r \in born \ rows : caddy[r] = None /\ ~Reinsertable(r) => caddy'[r] = None]_vars
  BY <1>1
<1>. QED
  BY <1>2, TypeInit, TypeStep, PTL DEF Spec, GoneStaysGone

------------------------------------------------------------------------------
(* Agreement is not inductive: it says nothing of what a call in flight has *)
(* done.  The strengthening follows a handler that is still calm through its*)
(* call, and the routes that a replaceRoutes will leave in agreement.       *)

\* Caddy holds no route, and a replaceRoutes brings none, with an unused id.
Fresh == \A r \in Routes \ born : caddy[r] = None /\ rep.snap[r] = None

\* Nothing else is in flight on the route of a calm handler.
CalmAlone ==
    \A p \in calm :
       /\ proc[p].pc # "idle" /\ ~Replacing
       /\ \A q \in Procs \ {p} : InFlight(q) => proc[q].r # proc[p].r

\* The call has not taken effect; it has, and is sent again; it was answered.
Sent(p)       == (proc[p].pc = "call" /\ proc[p].tries = 0) \/ (proc[p].pc = "reply" /\ proc[p].out = "failed")
Unanswered(p) == proc[p].pc = "call" /\ proc[p].tries # 0
Got(p, outs)  == proc[p].pc = "reply" /\ proc[p].out \in outs

\* Only a route that Caddy was given twice is in it twice.
Single == \A r \in Routes \ doubled : extra[r] = <<>>

\* What table and Caddy hold for the route of a calm handler, by its operation.
CalmPost(p) ==
    LET r == proc[p].r IN
    InFlight(p) /\ proc[p].op \in PostOps =>
       /\ r \in enabled
       /\ Sent(p) => caddy[r] = None
       /\ Unanswered(p) \/ Got(p, {"ok"}) => caddy[r] = proc[p].snap /\ proc[p].snap # None
       /\ ~Got(p, {"notfound"})

CalmPatch(p) ==
    LET r == proc[p].r IN
    InFlight(p) /\ proc[p].op \in PatchOps =>
       /\ r \in rows
       /\ proc[p].pc = "call" \/ Got(p, {"ok"}) => data[r] = proc[p].snap
       /\ Unanswered(p) \/ Got(p, {"ok", "lost"}) => caddy[r] = data[r]
       /\ Got(p, {"notfound"}) => caddy[r] = None
       /\ proc[p].op = "resync" /\ Sent(p) /\ r \in agreed => Holds(r, Target(r))

CalmDelete(p) ==
    LET r == proc[p].r IN
    InFlight(p) /\ proc[p].op \in DeleteOps =>
       /\ proc[p].op = "remove" => r \notin enabled
       /\ (Unanswered(p) \/ Got(p, {"ok", "lost", "notfound"})) /\ r \notin doubled => caddy[r] = None
       /\ proc[p].op \in {"archive", "delete"} /\ Sent(p) /\ r \in agreed => Holds(r, Target(r))

CalmVerify(p) ==
    /\ proc[p].pc = "verify" => proc[p].snap # None /\ caddy[proc[p].r] = proc[p].snap
    /\ proc[p].pc = "verified" => proc[p].out # "drift"

CalmEffect == \A p \in calm : CalmPost(p) /\ CalmPatch(p) /\ CalmDelete(p) /\ CalmVerify(p)

\* Agreement, with what a replaceRoutes in flight is about to do.
Agreeing ==
    \A r \in agreed :
       Busy(r) \/ (Holds(r, Target(r)) /\ (Replacing => rep.snap[r] = Target(r)))

\* What a replaceRoutes will have achieved when it takes effect.
RepCalmEffect == \A r \in repCalm : Replacing /\ ~Busy(r) /\ rep.snap[r] = Target(r)

\* A handler that was answered got the answer of a call.
Answered == \A p \in Procs : proc[p].pc = "reply" => proc[p].out \in Outcomes

IInv == TypeOK /\ Answered /\ Fresh /\ Single /\ CalmAlone /\ CalmEffect /\ Agreeing /\ RepCalmEffect

LEMMA InvInit == Init => IInv
BY TypeInit DEF Init, IInv, Answered, Fresh, Single, CalmAlone, CalmEffect, Agreeing, RepCalmEffect, Target,
   Replacing, Holds, Idle, RepIdle, RepBoot, Nothing

\* A handler's first step: another handler on its route is no longer calm.
LEMMA BeginKeeps ==
    ASSUME IInv, TypeOK', NEW p \in Procs, NEW op \in Ops, NEW r \in Routes,
           NEW snap \in Data \cup {None}, Starts(p, op, r, snap)
    PROVE  IInv'
<1>. DEFINE h == [pc |-> "call", op |-> op, r |-> r, snap |-> snap, tries |-> 0, out |-> None]
<1>1. /\ proc[p].pc = "idle" /\ proc' = [proc EXCEPT ![p] = h]
      /\ UNCHANGED <<caddy, extra, rep, agreed, doubled>> /\ repCalm' = repCalm \ {r}
      /\ calm' = {q \in calm : proc[q].r # r} \cup (IF Busy(r) \/ Replacing THEN {} ELSE {p})
  BY DEF Starts, Begin, caddyVars
<1>2. /\ proc \in [Procs -> HandlerStates] /\ calm \subseteq Procs /\ agreed \subseteq Routes
      /\ repCalm \subseteq Routes
      /\ \A q \in Procs : proc[q].pc # "idle" => proc[q].r \in Routes
  BY DEF IInv, TypeOK
<1>3. /\ proc'[p] = h
      /\ \A q \in Procs \ {p} : proc'[q] = proc[q] /\ (InFlight(q)' <=> InFlight(q))
  BY <1>1, <1>2 DEF InFlight
<1>4. Busy(r)' /\ \A s \in Routes \ {r} : Busy(s)' <=> Busy(s)
  BY <1>1, <1>3 DEF Busy, InFlight
<1>5. (Replacing' <=> Replacing) /\ \A s \in Routes \ {r} : Target(s)' = Target(s)
  BY <1>1 DEF Replacing, Target, Starts, OnlyRow
<1>6. \A x \in calm' : \/ x = p /\ ~Busy(r) /\ ~Replacing
                       \/ x \in calm \ {p} /\ proc[x].pc # "idle" /\ proc[x].r \in Routes \ {r}
  BY <1>1, <1>2 DEF IInv, CalmAlone
<1>7. Answered' /\ Fresh' /\ Single'
  BY <1>1, <1>3 DEF IInv, Answered, Fresh, Single, Starts
<1>8. CalmAlone'
  <2>. SUFFICES ASSUME NEW x \in calm'
                PROVE  /\ proc'[x].pc # "idle" /\ ~Replacing'
                       /\ \A q \in Procs \ {x} : InFlight(q)' => proc'[q].r # proc'[x].r
    BY DEF CalmAlone
  <2>1. CASE x = p
    BY <1>3, <1>5, <1>6, <2>1 DEF IInv, CalmAlone, Busy
  <2>2. CASE x # p
    BY <1>2, <1>3, <1>5, <1>6, <2>2 DEF IInv, CalmAlone
  <2>. QED
    BY <2>1, <2>2
<1>9. CalmEffect'
  <2>. SUFFICES ASSUME NEW x \in calm'
                PROVE  (CalmPost(x) /\ CalmPatch(x) /\ CalmDelete(x) /\ CalmVerify(x))'
    BY DEF CalmEffect
  <2>1. CASE x = p
    <3>1. proc'[x] = h /\ ~Busy(r) /\ ~Replacing
      BY <1>3, <1>6, <2>1
    <3>2. op \in {"resync", "archive", "delete"} /\ r \in agreed => Holds(r, Target(r))'
      BY <1>1, <3>1 DEF IInv, Agreeing, Starts, dbVars, Target, Holds
    <3>3. CalmPost(x)'
      BY <1>1, <3>1 DEF CalmPost, Starts, Sent, Unanswered, Got, IInv, Fresh
    <3>4. CalmPatch(x)'
      BY <1>1, <3>1, <3>2 DEF CalmPatch, Starts, Sent, Unanswered, Got, PatchOps
    <3>5. CalmDelete(x)'
      BY <1>1, <3>1, <3>2 DEF CalmDelete, Starts, Sent, Unanswered, Got
    <3>6. CalmVerify(x)'
      BY <3>1 DEF CalmVerify
    <3>. QED
      BY <3>3, <3>4, <3>5, <3>6
  <2>2. CASE x # p
    <3>. DEFINE t == proc[x].r
    <3>1. x \in Procs /\ x \in calm /\ proc'[x] = proc[x] /\ t \in Routes \ {r}
      BY <1>2, <1>3, <1>6, <2>2
    <3>2. /\ (t \in rows') <=> (t \in rows)
          /\ (t \in enabled') <=> (t \in enabled)
          /\ data'[t] = data[t] /\ UNCHANGED <<caddy, extra, agreed, doubled>>
          /\ Target(t)' = Target(t)
      BY <1>1, <1>5, <3>1 DEF Starts, OnlyRow
    <3>3. CalmPost(x) /\ CalmPatch(x) /\ CalmDelete(x) /\ CalmVerify(x)
      BY <3>1 DEF IInv, CalmEffect
    <3>4. CalmPost(x)'
      BY <3>1, <3>2, <3>3 DEF CalmPost, Sent, Unanswered, Got, InFlight
    <3>5. CalmPatch(x)'
      BY <3>1, <3>2, <3>3 DEF CalmPatch, Sent, Unanswered, Got, InFlight, Holds
    <3>6. CalmDelete(x)'
      BY <3>1, <3>2, <3>3 DEF CalmDelete, Sent, Unanswered, Got, InFlight, Holds
    <3>7. CalmVerify(x)'
      BY <3>1, <3>2, <3>3 DEF CalmVerify
    <3>. QED
      BY <3>4, <3>5, <3>6, <3>7
  <2>. QED
    BY <2>1, <2>2
<1>10. Agreeing'
  BY <1>1, <1>2, <1>4, <1>5 DEF IInv, Agreeing, Holds
<1>11. RepCalmEffect'
  BY <1>1, <1>2, <1>4, <1>5 DEF IInv, RepCalmEffect
<1>. QED
  BY <1>7, <1>8, <1>9, <1>10, <1>11 DEF IInv

\* The effect of a call: it touches its own route only, and a calm handler is
\* the only one that can touch it.
LEMMA CallKeeps ==
    ASSUME IInv, TypeOK', NEW p \in Procs, NEW out \in Outcomes \cup {"again"}, Effect(p, out)
    PROVE  IInv'
<1>. DEFINE r == proc[p].r
<1>1. /\ proc[p].pc = "call" /\ InFlight(p) /\ r \in Routes /\ r \in born
      /\ UNCHANGED <<dbVars, rep, agreed, calm, repCalm>>
      /\ \A s \in Routes \ {r} :
            caddy'[s] = caddy[s] /\ extra'[s] = extra[s] /\ (s \in doubled' <=> s \in doubled)
  BY DEF Effect, InFlight, IInv, TypeOK
<1>2. /\ proc \in [Procs -> HandlerStates] /\ calm \subseteq Procs /\ agreed \subseteq Routes
      /\ repCalm \subseteq Routes /\ proc[p].tries \in Nat
      /\ \A q \in Procs : proc[q].pc # "idle" => proc[q].r \in Routes
  BY <1>1 DEF IInv, TypeOK, HandlerStates, HandlerRecords
<1>3. /\ proc'[p].op = proc[p].op /\ proc'[p].r = r
      /\ out # "again" => /\ proc'[p].pc = "reply" /\ proc'[p].out = out
                          /\ out = "ok" => proc'[p].snap = proc[p].snap
      /\ out = "again" => /\ proc'[p].pc = "call" /\ proc'[p].tries = proc[p].tries + 1
                          /\ proc'[p].snap = proc[p].snap
      /\ \A q \in Procs \ {p} : proc'[q] = proc[q]
  <2>1. CASE out = "again"
    BY <1>1, <1>2, <2>1 DEF HandlerStates, HandlerRecords, Effect
  <2>2. CASE out # "again"
    BY <1>1, <1>2, <2>2 DEF HandlerStates, HandlerRecords, Effect, Answer
  <2>. QED
    BY <2>1, <2>2
<1>4. \A q \in Procs : (InFlight(q)' <=> InFlight(q)) /\ proc'[q].r = proc[q].r
  BY <1>1, <1>3 DEF InFlight
<1>5. /\ \A s \in Routes : (Busy(s)' <=> Busy(s)) /\ Target(s)' = Target(s)
      /\ Replacing' <=> Replacing
      /\ Busy(r)
  BY <1>1, <1>4 DEF Busy, Replacing, Target, dbVars
<1>6. Answered' /\ Fresh'
  <2>1. out # "again" => out \in Outcomes
    BY DEF Effect
  <2>2. Answered'
    BY <1>1, <1>3, <2>1 DEF IInv, Answered
  <2>3. Fresh'
    BY <1>1 DEF IInv, Fresh, dbVars
  <2>. QED
    BY <2>2, <2>3
<1>7. Single'
  <2>1. r \notin doubled' => extra'[r] = <<>>
    BY <1>1 DEF Effect, IInv, Single
  <2>. QED
    BY <1>1, <2>1 DEF IInv, Single
<1>8. CalmAlone'
  BY <1>1, <1>2, <1>3, <1>4, <1>5 DEF IInv, CalmAlone
<1>9. CalmEffect'
  <2>. SUFFICES ASSUME NEW x \in calm'
                PROVE  (CalmPost(x) /\ CalmPatch(x) /\ CalmDelete(x) /\ CalmVerify(x))'
    BY DEF CalmEffect
  <2>1. x \in calm /\ x \in Procs /\ UNCHANGED <<rows, enabled, data, agreed>>
    BY <1>1, <1>2 DEF dbVars
  <2>2. CalmPost(x) /\ CalmPatch(x) /\ CalmDelete(x) /\ CalmVerify(x)
    BY <2>1 DEF IInv, CalmEffect
  <2>3. CASE x = p
    <3>. USE <2>3
    <3>1. /\ Sent(p) <=> proc[p].tries = 0
          /\ Unanswered(p) <=> proc[p].tries # 0
          /\ \A outs : ~Got(p, outs)
      BY <1>1 DEF Sent, Unanswered, Got
    <3>2. /\ Sent(p)' <=> out = "failed"
          /\ Unanswered(p)' <=> out = "again"
          /\ \A outs : Got(p, outs)' <=> (out \in outs /\ out # "again")
      BY <1>2, <1>3 DEF Sent, Unanswered, Got
    <3>3. CalmPost(x)'
      <4>. SUFFICES ASSUME proc[p].op \in PostOps
                    PROVE  /\ r \in enabled'
                           /\ out = "failed" => caddy'[r] = None
                           /\ out \in {"again", "ok"} => caddy'[r] = proc[p].snap /\ proc[p].snap # None
                           /\ out # "notfound"
        BY <1>3, <3>2 DEF CalmPost
      <4>1. r \in enabled /\ (proc[p].tries = 0 => caddy[r] = None)
        BY <1>1, <2>2, <3>1 DEF CalmPost
      <4>2. proc[p].op \notin DeleteOps /\ proc[p].snap # None
        BY <1>1 DEF IInv, TypeOK, HandlerStates, HandlerRecords, PostOps, DeleteOps
      <4>. QED
        BY <2>1, <4>1, <4>2 DEF Effect, caddyVars
    <3>4. CalmPatch(x)'
      <4>. SUFFICES ASSUME proc[p].op \in PatchOps
                    PROVE  /\ r \in rows'
                           /\ data'[r] = proc[p].snap
                           /\ out \in {"again", "ok", "lost"} => caddy'[r] = data'[r]
                           /\ out = "notfound" => caddy'[r] = None
                           /\ proc[p].op = "resync" /\ out = "failed" /\ r \in agreed'
                                 => Holds(r, Target(r))'
        BY <1>3, <3>2 DEF CalmPatch
      <4>1. /\ r \in rows /\ data[r] = proc[p].snap /\ (proc[p].tries # 0 => caddy[r] = data[r])
            /\ proc[p].op = "resync" /\ proc[p].tries = 0 /\ r \in agreed => Holds(r, Target(r))
        BY <1>1, <2>2, <3>1 DEF CalmPatch
      <4>2. proc[p].op \notin DeleteOps
        BY DEF PatchOps, DeleteOps
      <4>3. \/ out \in {"ok", "lost", "again"} /\ caddy'[r] = proc[p].snap
            \/ out = "notfound" /\ caddy'[r] = None
            \/ /\ UNCHANGED <<caddy, extra>>
               /\ \/ proc[p].tries = 0 /\ out = "failed"
                  \/ proc[p].tries # 0 /\ out = "lost"
        BY <4>2 DEF Effect, caddyVars
      <4>4. Target(r)' = Target(r) /\ r' = r
        BY <1>1, <1>3, <1>5
      <4>5. out \in {"again", "ok", "lost"} => caddy'[r] = data'[r]
        BY <2>1, <4>1, <4>3
      <4>6. proc[p].op = "resync" /\ out = "failed" /\ r \in agreed' => Holds(r, Target(r))'
        BY <2>1, <4>1, <4>3, <4>4 DEF Holds
      <4>. QED
        BY <2>1, <4>1, <4>3, <4>5, <4>6
    <3>5. CalmDelete(x)'
      <4>. SUFFICES ASSUME proc[p].op \in DeleteOps
                    PROVE  /\ proc[p].op = "remove" => r \notin enabled'
                           /\ out \in {"again", "ok", "lost", "notfound"} /\ r \notin doubled' => caddy'[r] = None
                           /\ proc[p].op \in {"archive", "delete"} /\ out = "failed" /\ r \in agreed'
                                 => Holds(r, Target(r))'
        BY <1>3, <3>2 DEF CalmDelete
      <4>1. /\ proc[p].op = "remove" => r \notin enabled
            /\ proc[p].tries # 0 /\ r \notin doubled => caddy[r] = None
            /\ proc[p].op \in {"archive", "delete"} /\ proc[p].tries = 0 /\ r \in agreed
                 => Holds(r, Target(r))
        BY <1>1, <2>2, <3>1 DEF CalmDelete
      <4>2. r \notin doubled => extra[r] = <<>>
        BY <1>1 DEF IInv, Single
      <4>3. r \notin doubled' => r \notin doubled
        BY DEF Effect
      <4>4. \/ out \in {"ok", "lost", "again"} /\ (extra[r] = <<>> => caddy'[r] = None)
            \/ out = "notfound" /\ caddy'[r] = None
            \/ /\ UNCHANGED <<caddy, extra>>
               /\ \/ proc[p].tries = 0 /\ out = "failed"
                  \/ proc[p].tries # 0 /\ out = "lost"
        BY DEF Effect, caddyVars
      <4>5. Target(r)' = Target(r) /\ r' = r
        BY <1>1, <1>3, <1>5
      <4>6. out \in {"again", "ok", "lost", "notfound"} /\ r \notin doubled' => caddy'[r] = None
        BY <4>1, <4>2, <4>3, <4>4
      <4>7. proc[p].op \in {"archive", "delete"} /\ out = "failed" /\ r \in agreed' => Holds(r, Target(r))'
        BY <2>1, <4>1, <4>4, <4>5 DEF Holds
      <4>. QED
        BY <2>1, <4>1, <4>6, <4>7
    <3>6. CalmVerify(x)'
      BY <1>3 DEF CalmVerify
    <3>. QED
      BY <3>3, <3>4, <3>5, <3>6
  <2>4. CASE x # p
    <3>. DEFINE t == proc[x].r
    <3>1. proc'[x] = proc[x] /\ t \in Routes /\ t # r
      BY <1>1, <1>2, <1>3, <2>1, <2>4 DEF IInv, CalmAlone
    <3>2. /\ caddy'[t] = caddy[t] /\ extra'[t] = extra[t] /\ (t \in doubled' <=> t \in doubled)
          /\ Target(t)' = Target(t)
      BY <1>1, <1>5, <3>1
    <3>3. CalmPost(x)'
      BY <2>1, <2>2, <3>1, <3>2 DEF CalmPost, Sent, Unanswered, Got, InFlight
    <3>4. CalmPatch(x)'
      BY <2>1, <2>2, <3>1, <3>2 DEF CalmPatch, Sent, Unanswered, Got, InFlight, Holds
    <3>5. CalmDelete(x)'
      BY <2>1, <2>2, <3>1, <3>2 DEF CalmDelete, Sent, Unanswered, Got, InFlight, Holds
    <3>6. CalmVerify(x)'
      BY <2>1, <2>2, <3>1, <3>2 DEF CalmVerify
    <3>. QED
      BY <3>3, <3>4, <3>5, <3>6
  <2>. QED
    BY <2>3, <2>4
<1>10. Agreeing'
  BY <1>1, <1>2, <1>5 DEF IInv, Agreeing, Holds
<1>11. RepCalmEffect'
  BY <1>1, <1>2, <1>5 DEF IInv, RepCalmEffect
<1>. QED
  BY <1>6, <1>7, <1>8, <1>9, <1>10, <1>11 DEF IInv

\* Settles, one operation at a time.
LEMMA SettlesMeans ==
    ASSUME NEW p \in Procs
    PROVE  /\ proc[p].op \in PostOps =>
                 (Settles(p) <=> \/ proc[p].out = "failed"
                                 \/ proc[p].out = "ok" /\ proc[p].snap = data[proc[p].r])
           /\ proc[p].op \in PatchOps =>
                 (Settles(p) <=> IF proc[p].r \in enabled THEN proc[p].out \in {"ok", "lost"}
                                                          ELSE proc[p].out = "notfound")
           /\ proc[p].op \in {"archive", "delete"} =>
                 (Settles(p) <=> proc[p].out \in {"ok", "notfound"})
           /\ proc[p].op \in {"remove", "bulkDelete"} => (Settles(p) <=> proc[p].out # "failed")
<1>. USE DEF Settles, PostOps, PatchOps
<1>1. CASE proc[p].op = "create"
  BY <1>1
<1>2. CASE proc[p].op \in {"push", "resync"}
  BY <1>2
<1>3. CASE proc[p].op \in {"archive", "delete"}
  BY <1>3
<1>4. CASE proc[p].op \in {"remove", "bulkDelete"}
  BY <1>4
<1>5. CASE proc[p].op \notin {"create", "push", "resync", "archive", "delete", "remove", "bulkDelete"}
  BY <1>5
<1>. QED
  BY <1>1, <1>2, <1>3, <1>4, <1>5

\* A calm handler that settles a route which Caddy has once leaves table and Caddy
\* in agreement on it, and one that changed neither leaves them as they were.
LEMMA CalmSettles ==
    ASSUME IInv, NEW p \in calm, p \in Procs, HandlerReturns(p), NEW r \in Routes, r = proc[p].r,
           (Settles(p) /\ r \notin doubled) \/ (Neutral(p) /\ r \in agreed)
    PROVE  Holds(r, Target(r)')
<1>1. /\ proc[p].pc = "reply" /\ InFlight(p) /\ r \in Routes /\ proc[p].out \in Outcomes
      /\ data \in [Routes -> Data \cup {None}]
  BY ReturnShape DEF IInv, TypeOK, Answered, InFlight
<1>2. CalmPost(p) /\ CalmPatch(p) /\ CalmDelete(p)
  BY DEF IInv, CalmEffect
<1>3. CASE Neutral(p) /\ r \in agreed
  <2>1. Sent(p) /\ proc[p].op \in {"archive", "delete", "resync"} /\ proc[p].out = "failed"
    BY <1>1, <1>3 DEF Neutral, Sent
  <2>2. Holds(r, Target(r))
    BY <1>1, <1>2, <1>3, <2>1 DEF CalmPatch, CalmDelete, PatchOps, DeleteOps
  <2>3. UNCHANGED dbVars
    BY <2>1 DEF HandlerReturns, CreateReturns, PushReturns, RemoveReturns, PostOps
  <2>. QED
    BY <2>2, <2>3 DEF Target, dbVars
<1>4. CASE Settles(p) /\ r \notin doubled
  <2>. SUFFICES caddy[r] = Target(r)'
    BY <1>4 DEF Holds, IInv, Single
  <2>1. CASE CreateReturns(p)
    <3>1. proc[p].op \in PostOps
      BY <2>1 DEF CreateReturns
    <3>2. \/ proc[p].out = "failed"
          \/ proc[p].out = "ok" /\ data[r] = proc[p].snap
      BY <1>4, <3>1, SettlesMeans
    <3>3. CASE proc[p].out = "ok"
      <4>1. r \in enabled /\ data[r] = proc[p].snap /\ caddy[r] = proc[p].snap
        BY <1>1, <1>2, <3>1, <3>2, <3>3 DEF CalmPost, Got
      <4>2. UNCHANGED <<enabled, data>>
        BY <2>1, <3>3 DEF CreateReturns, dbVars
      <4>. QED
        BY <4>1, <4>2 DEF Target
    <3>4. CASE proc[p].out = "failed"
      <4>1. caddy[r] = None
        BY <1>1, <1>2, <3>1, <3>4 DEF CalmPost, Sent
      <4>2. r \notin enabled'
        BY <2>1, <3>4 DEF CreateReturns, DropRow
      <4>. QED
        BY <4>1, <4>2 DEF Target
    <3>. QED
      BY <3>2, <3>3, <3>4
  <2>2. CASE PushReturns(p)
    <3>1. proc[p].op \in PatchOps /\ UNCHANGED <<enabled, data>>
      BY <2>2 DEF PushReturns, dbVars
    <3>. QED
      BY <1>1, <1>2, <1>4, <3>1, SettlesMeans DEF CalmPatch, Got, Target
  <2>3. CASE RemoveReturns(p)
    <3>1. proc[p].op \in DeleteOps
      BY <2>3 DEF RemoveReturns
    <3>2. /\ proc[p].out # "failed"
          /\ proc[p].op \in {"archive", "delete"} => proc[p].out \in {"ok", "notfound"}
      BY <1>4, <3>1, SettlesMeans DEF DeleteOps
    <3>3. caddy[r] = None
      BY <1>1, <1>2, <1>4, <3>1, <3>2 DEF CalmDelete, Got, Outcomes
    <3>4. CASE proc[p].op = "remove"
      <4>1. UNCHANGED dbVars
        BY <2>3, <3>4 DEF RemoveReturns
      <4>. QED
        BY <1>1, <1>2, <3>1, <3>3, <3>4, <4>1 DEF CalmDelete, Target, dbVars
    <3>5. CASE proc[p].op # "remove"
      <4>1. DropRow(r) \/ SetEnabled(r, FALSE)
        BY <2>3, <3>1, <3>2, <3>5 DEF RemoveReturns, DeleteOps
      <4>. QED
        BY <3>3, <4>1 DEF DropRow, SetEnabled, Target
    <3>. QED
      BY <3>4, <3>5
  <2>. QED
    BY <2>1, <2>2, <2>3 DEF HandlerReturns
<1>. QED
  BY <1>3, <1>4

\* A handler's last step.
LEMMA ReturnKeeps ==
    ASSUME IInv, TypeOK', NEW p \in Procs, HandlerReturns(p)
    PROVE  IInv'
<1>. PICK r \in Routes : r = proc[p].r
  BY ReturnShape DEF IInv
<1>1. /\ proc[p].pc = "reply" /\ InFlight(p) /\ OnlyRow(r)
      /\ UNCHANGED <<born, caddy, extra, rep, doubled, repCalm>> /\ calm' \subseteq calm
      /\ \/ Return(p)
         \/ ScheduleVerify(p) /\ UNCHANGED dbVars /\ proc[p].out = "ok"
              /\ proc[p].op \in PostOps \cup PatchOps
  BY ReturnShape DEF IInv, InFlight, Settle, Return, ScheduleVerify, caddyVars
<1>2. /\ proc \in [Procs -> HandlerStates] /\ calm \subseteq Procs /\ agreed \subseteq Routes
      /\ repCalm \subseteq Routes
      /\ \A q \in Procs : proc[q].pc # "idle" => proc[q].r \in Routes
  BY DEF IInv, TypeOK
<1>3. ~InFlight(p)' /\ proc'[p].pc # "reply" /\ \A q \in Procs \ {p} : proc'[q] = proc[q]
  BY <1>1, <1>2 DEF InFlight, Return, ScheduleVerify, Idle, HandlerStates, HandlerRecords
<1>4. \A q \in Procs \ {p} : InFlight(q)' <=> InFlight(q)
  BY <1>3 DEF InFlight
<1>5. Busy(r) /\ \A s \in Routes \ {r} : (Busy(s)' <=> Busy(s)) /\ Target(s)' = Target(s)
  BY <1>1, <1>3, <1>4 DEF Busy, OnlyRow, Target
<1>6. Replacing' <=> Replacing
  BY <1>1 DEF Replacing
<1>7. Answered' /\ Fresh' /\ Single'
  BY <1>1, <1>3 DEF IInv, Answered, Fresh, Single
<1>8. \A x \in calm' :
         \/ x \in calm \ {p} /\ proc[x].r \in Routes \ {r}
         \/ /\ x = p /\ p \in calm /\ ScheduleVerify(p) /\ UNCHANGED dbVars
            /\ proc[p].out = "ok" /\ proc[p].op \in PostOps \cup PatchOps
  BY <1>1, <1>2 DEF IInv, CalmAlone, Return
<1>9. CalmAlone'
  <2>. SUFFICES ASSUME NEW x \in calm'
                PROVE  /\ proc'[x].pc # "idle" /\ ~Replacing'
                       /\ \A q \in Procs \ {x} : InFlight(q)' => proc'[q].r # proc'[x].r
    BY DEF CalmAlone
  <2>1. CASE x = p
    <3>1. proc'[p].pc = "verify" /\ proc'[p].r = r
      BY <1>2, <1>8, <2>1 DEF ScheduleVerify, HandlerStates, HandlerRecords
    <3>. QED
      BY <1>3, <1>4, <1>6, <1>8, <2>1, <3>1 DEF IInv, CalmAlone
  <2>2. CASE x # p
    BY <1>2, <1>3, <1>4, <1>6, <1>8, <2>2 DEF IInv, CalmAlone
  <2>. QED
    BY <2>1, <2>2
<1>10. CalmEffect'
  <2>. SUFFICES ASSUME NEW x \in calm'
                PROVE  (CalmPost(x) /\ CalmPatch(x) /\ CalmDelete(x) /\ CalmVerify(x))'
    BY DEF CalmEffect
  <2>1. CASE x = p
    <3>1. CalmPost(p) /\ CalmPatch(p) /\ p \in calm /\ proc[p].out = "ok"
      BY <1>8, <2>1 DEF IInv, CalmEffect
    <3>2. caddy[r] = proc[p].snap
      BY <1>1, <1>8, <2>1, <3>1 DEF CalmPost, CalmPatch, Got
    <3>3. proc[p].snap # None
      BY <1>1, <1>8, <2>1, <3>1 DEF CalmPost, CalmPatch, Got, IInv, TypeOK
    <3>4. proc'[p].pc = "verify" /\ proc'[p].r = r /\ proc'[p].snap = proc[p].snap
      BY <1>2, <1>8, <2>1 DEF ScheduleVerify, HandlerStates, HandlerRecords
    <3>. QED
      BY <1>1, <2>1, <3>2, <3>3, <3>4 DEF CalmPost, CalmPatch, CalmDelete, CalmVerify, InFlight
  <2>2. CASE x # p
    <3>. DEFINE t == proc[x].r
    <3>1. x \in Procs /\ x \in calm /\ proc'[x] = proc[x] /\ t \in Routes \ {r}
      BY <1>2, <1>3, <1>8, <2>2
    <3>2. /\ (t \in rows') <=> (t \in rows)
          /\ (t \in enabled') <=> (t \in enabled)
          /\ data'[t] = data[t] /\ UNCHANGED <<caddy, extra, doubled>>
          /\ (t \in agreed') <=> (t \in agreed)
          /\ Target(t)' = Target(t)
      BY <1>1, <1>5, <3>1, ReturnShape DEF OnlyRow, Settle, IInv
    <3>3. CalmPost(x) /\ CalmPatch(x) /\ CalmDelete(x) /\ CalmVerify(x)
      BY <3>1 DEF IInv, CalmEffect
    <3>4. CalmPost(x)'
      BY <3>1, <3>2, <3>3 DEF CalmPost, Sent, Unanswered, Got, InFlight
    <3>5. CalmPatch(x)'
      BY <3>1, <3>2, <3>3 DEF CalmPatch, Sent, Unanswered, Got, InFlight, Holds
    <3>6. CalmDelete(x)'
      BY <3>1, <3>2, <3>3 DEF CalmDelete, Sent, Unanswered, Got, InFlight, Holds
    <3>7. CalmVerify(x)'
      BY <3>1, <3>2, <3>3 DEF CalmVerify
    <3>. QED
      BY <3>4, <3>5, <3>6, <3>7
  <2>. QED
    BY <2>1, <2>2
<1>11. Agreeing'
  <2>. SUFFICES ASSUME NEW s \in agreed'
                PROVE  \/ Busy(s)'
                       \/ /\ Holds(s, Target(s))'
                          /\ Replacing' => rep'.snap[s] = Target(s)'
    BY DEF Agreeing
  <2>1. CASE s = r
    <3>1. p \in calm /\ ((Settles(p) /\ r \notin doubled) \/ (Neutral(p) /\ r \in agreed))
      BY <2>1, ReturnShape DEF Settle, IInv
    <3>2. Holds(r, Target(r)')
      BY <3>1, CalmSettles
    <3>3. ~Replacing
      BY <3>1 DEF IInv, CalmAlone
    <3>. QED
      BY <1>1, <1>6, <2>1, <3>2, <3>3 DEF Holds
  <2>2. CASE s # r
    <3>1. s \in agreed
      BY <2>2, ReturnShape DEF Settle, IInv
    <3>. QED
      BY <1>1, <1>2, <1>5, <1>6, <2>2, <3>1 DEF IInv, Agreeing, Holds
  <2>. QED
    BY <2>1, <2>2
<1>12. RepCalmEffect'
  BY <1>1, <1>2, <1>5, <1>6 DEF IInv, RepCalmEffect
<1>. QED
  BY <1>7, <1>9, <1>10, <1>11, <1>12 DEF IInv

\* The read-back: of a calm handler it finds what was pushed, or nothing at all.
LEMMA VerifyKeeps ==
    ASSUME IInv, TypeOK', NEW p \in Procs, Verify(p)
    PROVE  IInv'
<1>1. /\ proc \in [Procs -> HandlerStates] /\ calm \subseteq Procs /\ agreed \subseteq Routes
      /\ repCalm \subseteq Routes
      /\ \A q \in Procs : proc[q].pc # "idle" => proc[q].r \in Routes
  BY DEF IInv, TypeOK
<1>2. /\ proc[p].pc \in {"verify", "verified"}
      /\ UNCHANGED <<rows, enabled, data, born, caddy, extra, rep, agreed, doubled, repCalm>>
      /\ calm' \subseteq calm
  BY DEF Verify, VerifyRead, VerifyWrite, Return, dbVars, caddyVars, histVars
<1>3. ~InFlight(p) /\ ~InFlight(p)' /\ \A q \in Procs \ {p} : proc'[q] = proc[q]
  BY <1>1, <1>2 DEF Verify, VerifyRead, VerifyWrite, Return, Idle, InFlight, HandlerStates, HandlerRecords
<1>4. \A q \in Procs : (InFlight(q)' <=> InFlight(q)) /\ (InFlight(q) => proc'[q].r = proc[q].r)
  BY <1>3 DEF InFlight
<1>5. /\ \A s \in Routes : (Busy(s)' <=> Busy(s)) /\ Target(s)' = Target(s)
      /\ Replacing' <=> Replacing
  BY <1>2, <1>4 DEF Busy, Target, Replacing
<1>6. Answered' /\ Fresh' /\ Single'
  BY <1>2, <1>3, <1>4 DEF IInv, Answered, Fresh, Single, InFlight
<1>7. \A x \in calm' :
         \/ x \in calm \ {p}
         \/ /\ x = p /\ p \in calm /\ proc'[p].pc = "verified" /\ proc'[p].r = proc[p].r
            /\ proc'[p].out # "drift"
  <2>1. CASE VerifyWrite(p)
    BY <2>1 DEF VerifyWrite, Return
  <2>2. CASE VerifyRead(p) /\ p \in calm
    <3>1. proc[p].snap # None /\ caddy[proc[p].r] = proc[p].snap
      BY <2>2 DEF VerifyRead, IInv, CalmEffect, CalmVerify
    <3>2. proc' = [proc EXCEPT ![p].pc = "verified", ![p].snap = None, ![p].out = "synced"]
      BY <2>2, <3>1 DEF VerifyRead, ClassifyDrift
    <3>. QED
      BY <1>1, <1>2, <2>2, <3>2 DEF HandlerStates, HandlerRecords
  <2>3. CASE VerifyRead(p) /\ p \notin calm
    BY <2>3 DEF VerifyRead, histVars
  <2>. QED
    BY <2>1, <2>2, <2>3 DEF Verify
<1>8. CalmAlone'
  BY <1>1, <1>3, <1>4, <1>5, <1>7 DEF IInv, CalmAlone
<1>9. CalmEffect'
  <2>. SUFFICES ASSUME NEW x \in calm'
                PROVE  (CalmPost(x) /\ CalmPatch(x) /\ CalmDelete(x) /\ CalmVerify(x))'
    BY DEF CalmEffect
  <2>1. CASE x = p
    BY <1>7, <2>1 DEF CalmPost, CalmPatch, CalmDelete, CalmVerify, InFlight
  <2>2. CASE x # p
    <3>1. x \in Procs /\ x \in calm /\ proc'[x] = proc[x]
      BY <1>1, <1>3, <1>7, <2>2
    <3>2. InFlight(x) => Target(proc[x].r)' = Target(proc[x].r)
      BY <1>1, <1>2, <3>1 DEF Target
    <3>3. CalmPost(x) /\ CalmPatch(x) /\ CalmDelete(x) /\ CalmVerify(x)
      BY <3>1 DEF IInv, CalmEffect
    <3>4. CalmPost(x)' /\ CalmVerify(x)'
      BY <1>2, <3>1, <3>3 DEF CalmPost, CalmVerify, Sent, Unanswered, Got, InFlight
    <3>5. CalmPatch(x)'
      BY <1>2, <3>1, <3>2, <3>3 DEF CalmPatch, Sent, Unanswered, Got, InFlight, Holds, Target
    <3>6. CalmDelete(x)'
      BY <1>2, <3>1, <3>2, <3>3 DEF CalmDelete, Sent, Unanswered, Got, InFlight, Holds, Target
    <3>. QED
      BY <3>4, <3>5, <3>6
  <2>. QED
    BY <2>1, <2>2
<1>10. Agreeing' /\ RepCalmEffect'
  BY <1>1, <1>2, <1>5 DEF IInv, Agreeing, Holds, RepCalmEffect
<1>. QED
  BY <1>6, <1>8, <1>9, <1>10 DEF IInv

\* Caddy with nothing but what it is given, and nothing calm any more: a route stays
\* in agreement when it is given what the table says.
LEMMA HoldingKeeps ==
    ASSUME IInv, TypeOK', NEW content \in [Routes -> Data \cup {None}], Holding(content), UNCHANGED dbVars,
           \A r \in Routes \ born : content[r] = None /\ rep'.snap[r] = None,
           calm' = {}, proc' = proc, RepCalmEffect',
           \A r \in agreed' : \/ content[r] = Target(r) /\ (Replacing' => rep'.snap[r] = Target(r))
                              \/ Busy(r)
    PROVE  IInv'
<1>1. /\ caddy' = content /\ \A r \in Routes : extra'[r] = <<>>
      /\ agreed' \subseteq Routes
  BY DEF Holding, TypeOK
<1>2. \A s \in Routes : (Busy(s)' <=> Busy(s)) /\ Target(s)' = Target(s)
  BY DEF Busy, InFlight, Target, dbVars
<1>3. Answered' /\ Fresh' /\ Single' /\ CalmAlone' /\ CalmEffect'
  BY <1>1 DEF IInv, Answered, Fresh, Single, CalmAlone, CalmEffect, dbVars
<1>4. Agreeing'
  BY <1>1, <1>2 DEF Agreeing, Holds
<1>. QED
  BY <1>3, <1>4 DEF IInv

\* A replaceRoutes: when it reads the table nothing stays calm, and when it takes
\* effect the routes nobody has touched since are in agreement.
LEMMA ReplaceKeeps ==
    ASSUME IInv, TypeOK', ReplaceAll
    PROVE  IInv'
<1>1. /\ calm \subseteq Procs /\ agreed \subseteq Routes /\ repCalm \subseteq Routes
      /\ born \subseteq Routes /\ enabled \subseteq born
      /\ rep \in ReplaceStates /\ caddy \in [Routes -> Data \cup {None}]
  BY DEF IInv, TypeOK
<1>2. UNCHANGED <<dbVars, proc>>
  BY DEF ReplaceAll, ServerMissing, GivesUp, LoadBase, BootRead, ResyncAll, ReadAll, CaddyReplace, ReplaceFails
<1>3. \A s \in Routes : (Busy(s)' <=> Busy(s)) /\ Target(s)' = Target(s)
  BY <1>2 DEF Busy, InFlight, Target, dbVars
<1>4. Answered'
  BY <1>2 DEF IInv, Answered
<1>5. CASE BootRead \/ ResyncAll
  <2>1. PICK kind \in {"boot", "resync"}, push \in {BootPush, ResyncPush} : ReadAll(kind, push)
    BY <1>5 DEF BootRead, ResyncAll
  <2>2. \A s \in Routes \ born : push[s] = None
    BY <1>1, <2>1 DEF BootPush, ResyncPush
  <2>3. /\ rep'.pc = "call" /\ rep'.snap = push /\ calm' = {} /\ UNCHANGED <<caddy, extra, doubled>>
        /\ Replacing'
    BY <2>1 DEF ReadAll, Replacing, caddyVars, RepIdle
  <2>4. Fresh' /\ Single' /\ CalmAlone' /\ CalmEffect'
    BY <1>2, <2>2, <2>3 DEF IInv, Fresh, Single, CalmAlone, CalmEffect, dbVars
  <2>5. Agreeing'
    BY <1>1, <1>3, <2>1, <2>3 DEF IInv, Agreeing, Holds, ReadAll
  <2>6. RepCalmEffect'
    BY <1>3, <2>1, <2>3 DEF RepCalmEffect, ReadAll
  <2>. QED
    BY <1>4, <2>4, <2>5, <2>6 DEF IInv
<1>6. CASE ServerMissing("boot") \/ ServerMissing("resync") \/ GivesUp
  <2>1. /\ ~Replacing /\ ~Replacing' /\ rep'.snap = Nothing
        /\ UNCHANGED <<caddy, extra, histVars>>
    <3>1. CASE GivesUp
      BY <3>1 DEF GivesUp, Replacing, RepIdle, caddyVars
    <3>2. CASE ServerMissing("boot") \/ ServerMissing("resync")
      <4>1. rep.pc \in {"start", "idle"} /\ UNCHANGED <<caddy, extra, histVars>>
        BY <3>2 DEF ServerMissing, caddyVars
      <4>2. rep'.pc = "load" /\ rep'.snap = Nothing
        BY <3>2 DEF ServerMissing, RepIdle
      <4>. QED
        BY <4>1, <4>2 DEF Replacing
    <3>. QED
      BY <1>6, <3>1, <3>2
  <2>2. repCalm = {}
    BY <2>1 DEF IInv, RepCalmEffect
  <2>3. Fresh' /\ Single' /\ RepCalmEffect'
    BY <1>2, <2>1, <2>2 DEF IInv, Fresh, Single, Nothing, RepCalmEffect, dbVars, histVars
  <2>4. CalmAlone'
    BY <1>2, <2>1 DEF IInv, CalmAlone, InFlight, histVars
  <2>5. CalmEffect'
    BY <1>2, <2>1 DEF IInv, CalmEffect, CalmPost, CalmPatch, CalmDelete, CalmVerify,
       Sent, Unanswered, Got, InFlight, Holds, Target, dbVars, histVars
  <2>6. Agreeing'
    BY <1>1, <1>3, <2>1 DEF IInv, Agreeing, Holds, histVars
  <2>. QED
    BY <1>4, <2>3, <2>4, <2>5, <2>6 DEF IInv
<1>7. CASE LoadBase
  <2>1. /\ Holding(Nothing) /\ Nothing \in [Routes -> Data \cup {None}] /\ \A s \in Routes : Nothing[s] = None
        /\ calm' = {} /\ repCalm' = {} /\ agreed' = {s \in agreed : Target(s) = None}
    BY <1>7 DEF LoadBase, Nothing
  <2>2. rep'.pc \in {"idle", "load", "loaded"} /\ (rep'.snap = rep.snap \/ rep'.snap = Nothing)
    BY <1>1, <1>7 DEF LoadBase, RepApplied, RepIdle, ReplaceStates
  <2>3. ~Replacing' /\ \A s \in Routes \ born : rep'.snap[s] = None
    BY <2>1, <2>2 DEF Replacing, IInv, Fresh
  <2>4. RepCalmEffect'
    BY <2>1 DEF RepCalmEffect
  <2>. QED
    BY <1>1, <1>2, <2>1, <2>3, <2>4, HoldingKeeps
<1>8. CASE CaddyReplace
  <2>1. /\ Replacing /\ Holding(rep.snap) /\ rep.snap \in [Routes -> Data \cup {None}]
        /\ agreed' = agreed \cup repCalm /\ calm' = calm /\ rep' \in {rep, RepIdle}
        /\ repCalm' \subseteq repCalm /\ (rep' # rep => repCalm' = {})
    BY <1>1, <1>8 DEF CaddyReplace, RepApplied, Replacing, ReplaceStates
  <2>2. calm' = {}
    BY <2>1 DEF IInv, CalmAlone
  <2>3. \A s \in Routes \ born : rep.snap[s] = None /\ rep'.snap[s] = None
    BY <2>1 DEF IInv, Fresh, RepIdle, Nothing
  <2>4. RepCalmEffect'
    BY <1>1, <1>3, <2>1 DEF IInv, RepCalmEffect, Replacing
  <2>5. ASSUME NEW s \in agreed'
        PROVE  \/ rep.snap[s] = Target(s) /\ (Replacing' => rep'.snap[s] = Target(s))
               \/ Busy(s)
    <3>1. Busy(s) \/ rep.snap[s] = Target(s)
      BY <2>1 DEF IInv, Agreeing, RepCalmEffect
    <3>2. Replacing' => rep' = rep
      BY <2>1 DEF Replacing, RepIdle
    <3>. QED
      BY <3>1, <3>2
  <2>. QED
    BY <1>2, <2>1, <2>2, <2>3, <2>4, <2>5, HoldingKeeps
<1>9. CASE ReplaceFails
  <2>1. /\ Replacing /\ ~Replacing' /\ repCalm' = {} /\ rep'.snap = Nothing
        /\ UNCHANGED <<caddy, extra, agreed, calm, doubled>>
    BY <1>9 DEF ReplaceFails, Replacing, RepIdle, caddyVars
  <2>2. calm = {}
    BY <2>1 DEF IInv, CalmAlone
  <2>3. Fresh' /\ Single' /\ CalmAlone' /\ CalmEffect' /\ RepCalmEffect'
    BY <1>2, <2>1, <2>2 DEF IInv, Fresh, Single, Nothing, CalmAlone, CalmEffect, RepCalmEffect, dbVars
  <2>4. Agreeing'
    BY <1>1, <1>3, <2>1 DEF IInv, Agreeing, Holds
  <2>. QED
    BY <1>4, <2>3, <2>4 DEF IInv
<1>. QED
  BY <1>5, <1>6, <1>7, <1>8, <1>9 DEF ReplaceAll

\* A restart: nothing stays calm, and a route stays in agreement only when Caddy
\* has it as before, or is not to have it.
LEMMA RestartKeeps ==
    ASSUME IInv, TypeOK', CaddyRestart \/ AppRestart
    PROVE  IInv'
<1>1. agreed \subseteq Routes /\ UNCHANGED dbVars /\ calm' = {} /\ repCalm' = {}
  BY DEF IInv, TypeOK, CaddyRestart, AppRestart
<1>2. CalmAlone' /\ CalmEffect' /\ RepCalmEffect'
  BY <1>1 DEF CalmAlone, CalmEffect, RepCalmEffect
<1>3. CASE CaddyRestart
  <2>1. /\ Holding(Nothing) /\ Nothing \in [Routes -> Data \cup {None}] /\ \A s \in Routes : Nothing[s] = None
        /\ UNCHANGED <<proc, rep>> /\ agreed' = {r \in agreed : Target(r) = None}
    BY <1>3 DEF CaddyRestart, Nothing
  <2>2. \A r \in Routes \ born : rep'.snap[r] = None
    BY <2>1 DEF IInv, Fresh
  <2>3. \A r \in agreed' : \/ Nothing[r] = Target(r) /\ (Replacing' => rep'.snap[r] = Target(r))
                           \/ Busy(r)
    BY <1>1, <2>1 DEF IInv, Agreeing, Replacing
  <2>. QED
    BY <1>1, <1>2, <2>1, <2>2, <2>3, HoldingKeeps
<1>4. CASE AppRestart
  <2>1. /\ UNCHANGED <<caddy, extra, doubled>> /\ rep'.snap = Nothing /\ ~Replacing'
        /\ \A p \in Procs : proc'[p].pc = "idle"
        /\ agreed' = {r \in agreed : ~Busy(r)}
    BY <1>4 DEF AppRestart, RepBoot, RepIdle, Idle, Replacing, caddyVars
  <2>2. \A s \in Routes : Target(s)' = Target(s)
    BY <1>1 DEF Target, dbVars
  <2>3. Answered' /\ Fresh' /\ Single'
    BY <1>1, <2>1 DEF IInv, Answered, Fresh, Single, Nothing, dbVars
  <2>4. Agreeing'
    BY <1>1, <2>1, <2>2 DEF IInv, Agreeing, Holds
  <2>. QED
    BY <1>2, <2>3, <2>4 DEF IInv
<1>. QED
  BY <1>3, <1>4

\* The strengthening is inductive.
LEMMA InvStep == IInv /\ [Next]_vars => IInv'
<1>. SUFFICES ASSUME IInv, [Next]_vars PROVE IInv'
  OBVIOUS
<1>1. TypeOK' /\ TypeOK
  BY TypeStep DEF IInv
<1>2. ASSUME NEW p \in Procs, HandlerBegins(p)
      PROVE  IInv'
  BY <1>1, <1>2, BeginShape, BeginKeeps
<1>3. ASSUME NEW p \in Procs, CallRuns(p)
      PROVE  IInv'
  BY <1>1, <1>3, CallShape, CallKeeps
<1>4. ASSUME NEW p \in Procs, HandlerReturns(p) \/ Verify(p)
      PROVE  IInv'
  BY <1>1, <1>4, ReturnKeeps, VerifyKeeps
<1>5. CASE ReplaceAll \/ CaddyRestart \/ AppRestart
  BY <1>1, <1>5, ReplaceKeeps, RestartKeeps
<1>6. CASE UNCHANGED vars
  BY <1>6 DEF IInv, TypeOK, Answered, Fresh, Single, CalmAlone, CalmEffect, CalmPost, CalmPatch, CalmDelete,
     CalmVerify, Sent, Unanswered, Got, Agreeing, RepCalmEffect, Busy, InFlight, Replacing, Holds, Target,
     vars, dbVars, caddyVars, histVars
<1>. QED
  BY <1>2, <1>3, <1>4, <1>5, <1>6 DEF Next

\* Table and Caddy agree on every route on which no handler is in flight, unless
\* handlers overlapped, a process restarted, a call went wrong, Caddy was given the
\* route twice or in another form since they last did.
THEOREM AgreementHolds == Spec => []Agreement
<1>1. IInv => Agreement
  BY DEF IInv, Agreeing, Agreement
<1>. QED
  BY <1>1, InvInit, InvStep, PTL DEF Spec

\* Nobody is told "drift" on a route that nothing but its own push has touched.
THEOREM DriftIsReal == Spec => NoFalseDrift
<1>1. ASSUME IInv, NEW p \in calm, VerifyWrite(p)
      PROVE  sync'[proc[p].r] # "drift"
  <2>1. p \in Procs /\ proc[p].pc = "verified" /\ proc[p].r \in Routes
    BY <1>1 DEF IInv, TypeOK, VerifyWrite
  <2>2. proc[p].out # "drift"
    BY <1>1, <2>1 DEF IInv, CalmEffect, CalmVerify
  <2>3. CASE proc[p].r \in rows
    BY <1>1, <2>1, <2>2, <2>3 DEF VerifyWrite, IInv, TypeOK
  <2>4. CASE proc[p].r \notin rows
    BY <1>1, <2>1, <2>4 DEF VerifyWrite, IInv, TypeOK
  <2>. QED
    BY <2>3, <2>4
<1>2. IInv => [\A p \in calm : VerifyWrite(p) => sync'[proc[p].r] # "drift"]_vars
  BY <1>1
<1>. QED
  BY <1>2, InvInit, InvStep, PTL DEF Spec, NoFalseDrift

------------------------------------------------------------------------------
(* The drift detector and router of RouteDrift do what RouteSync allows and *)
(* keep their events in order.                                              *)

\* Every step of the composition is a step of RouteSync or leaves it alone: the
\* drift detector only reads, and a reconcile is a forceResync.
LEMMA DriftStepIsSyncStep == [DriftNext]_allVars => [Next]_vars
<1>. SUFFICES ASSUME [DriftNext]_allVars PROVE Next \/ UNCHANGED vars
  OBVIOUS
<1>1. CASE SyncStep
  BY <1>1 DEF SyncStep, Next, HandlerReturns
<1>2. CASE \E p \in Procs : ReconcileReturns(p)
  BY <1>2 DEF ReconcileReturns, Next, HandlerReturns
<1>3. CASE DriftRestart
  BY <1>3 DEF DriftRestart, Next
<1>4. CASE PollRead \/ PollRecord \/ MarkOrphanResolved
  BY <1>4 DEF PollRead, PollRecord, MarkOrphanResolved
<1>5. CASE \E r \in Routes : MarkResolved(r) \/ ReconcileDeleted(r)
  BY <1>5 DEF MarkResolved, ReconcileDeleted
<1>6. CASE \E p \in Procs, r \in Routes : Reconcile(p, r)
  BY <1>6 DEF Reconcile, Next, HandlerBegins
<1>7. CASE UNCHANGED allVars
  BY <1>7 DEF allVars
<1>. QED
  BY <1>1, <1>2, <1>3, <1>4, <1>5, <1>6, <1>7 DEF DriftNext

\* The composition implements RouteSync, so what is proved of it holds here too.
THEOREM DriftImplementsSync == DriftSpec => Spec
<1>1. DriftInit => Init
  BY DEF DriftInit
<1>. QED
  BY <1>1, DriftStepIsSyncStep, PTL DEF DriftSpec, Spec

------------------------------------------------------------------------------
(* Events.                                                                  *)

\* A handler that holds an event keeps it through the steps of RouteSync: only
\* the return of its push ends it, and that is ReconcileReturns.
LEMMA HolderStays ==
    ASSUME TypeOK, SyncStep, NEW p \in Procs, InFlight(p), proc[p].op = "resync"
    PROVE  InFlight(p)' /\ proc'[p].op = "resync" /\ proc'[p].r = proc[p].r
<1>. proc \in [Procs -> HandlerStates]
  BY DEF TypeOK
<1>1. ASSUME NEW q \in Procs, HandlerBegins(q)
      PROVE  proc'[p] = proc[p]
  <2>1. PICK op \in Ops, r \in Routes, snap \in Data \cup {None} : Starts(q, op, r, snap)
    BY <1>1, BeginShape
  <2>. QED
    BY <2>1 DEF Starts, Begin, InFlight
<1>2. ASSUME NEW q \in Procs, CallRuns(q)
      PROVE  InFlight(p)' /\ proc'[p].op = "resync" /\ proc'[p].r = proc[p].r
  <2>1. CASE \E out \in Outcomes : Answer(q, out)
    BY <2>1 DEF InFlight, HandlerStates, HandlerRecords, Answer
  <2>2. CASE proc' = [proc EXCEPT ![q].tries = @ + 1]
    BY <2>2 DEF InFlight, HandlerStates, HandlerRecords
  <2>. QED
    BY <1>2, <2>1, <2>2, CallAnswered
<1>3. ASSUME NEW q \in Procs, Verify(q) \/ CreateReturns(q) \/ RemoveReturns(q)
      PROVE  proc'[p] = proc[p]
  <2>1. q # p
    BY <1>3 DEF Verify, VerifyRead, VerifyWrite, CreateReturns, RemoveReturns, InFlight, PostOps, DeleteOps
  <2>. QED
    BY <1>3, <2>1 DEF Verify, VerifyRead, VerifyWrite, CreateReturns, RemoveReturns, Return, ScheduleVerify
<1>4. CASE ReplaceAll \/ CaddyRestart
  BY <1>4 DEF ReplaceAll, ServerMissing, GivesUp, LoadBase, BootRead, ResyncAll, ReadAll, CaddyReplace,
     ReplaceFails, CaddyRestart, InFlight
<1>. QED
  BY <1>1, <1>2, <1>3, <1>4 DEF SyncStep, InFlight

\* Resolving events takes them from the handlers that hold them.
LEMMA ForgetKeeps ==
    ASSUME TypeOK, DriftTypeOK, NEW resolved \in SUBSET Routes, Forget(resolved),
           missing \ resolved \subseteq missing', missing' \subseteq born', UNCHANGED proc,
           poll' \in [pc : {"idle", "answered"}, ids : SUBSET Routes], orphan' \in BOOLEAN
    PROVE  DriftTypeOK'
BY DEF Forget, DriftTypeOK, InFlight

LEMMA EventStep == TypeOK /\ DriftTypeOK /\ [DriftNext]_allVars => DriftTypeOK'
<1>. SUFFICES ASSUME TypeOK, DriftTypeOK, [DriftNext]_allVars PROVE DriftTypeOK'
  OBVIOUS
<1>. born \subseteq Routes /\ enabled \subseteq born /\ missing \subseteq Routes
  BY DEF TypeOK, DriftTypeOK
<1>1. CASE SyncStep /\ UNCHANGED driftVars
  <2>1. born \subseteq born'
    <3>1. ASSUME NEW q \in Procs, HandlerBegins(q)
          PROVE  born \subseteq born'
      BY <3>1, BeginShape DEF Starts
    <3>2. ASSUME NEW q \in Procs, CallRuns(q) \/ Verify(q)
          PROVE  born \subseteq born'
      BY <3>2 DEF CallRuns, CaddyPost, CaddyPatch, CaddyDelete, CallFails, Verify, VerifyRead,
         VerifyWrite, dbVars
    <3>3. ASSUME NEW q \in Procs, CreateReturns(q) \/ RemoveReturns(q)
          PROVE  born \subseteq born'
      BY <3>3, ReturnShape DEF HandlerReturns
    <3>4. CASE ReplaceAll \/ CaddyRestart
      BY <3>4 DEF ReplaceAll, ServerMissing, GivesUp, LoadBase, BootRead, ResyncAll, ReadAll, CaddyReplace,
         ReplaceFails, CaddyRestart, dbVars
    <3>. QED
      BY <1>1, <3>1, <3>2, <3>3, <3>4 DEF SyncStep
  <2>2. \A p \in Procs : repairing'[p] # None =>
           /\ repairing'[p] \in missing'
           /\ InFlight(p)' /\ proc'[p].op = "resync" /\ proc'[p].r = repairing'[p]
    BY <1>1, HolderStays DEF DriftTypeOK, driftVars
  <2>. QED
    BY <1>1, <2>1, <2>2 DEF DriftTypeOK, driftVars
<1>2. ASSUME NEW p \in Procs, ReconcileReturns(p)
      PROVE  DriftTypeOK'
  <2>1. \A q \in Procs \ {p} : proc'[q] = proc[q]
    BY <1>2 DEF ReconcileReturns, PushReturns, ScheduleVerify, Return, TypeOK
  <2>2. born' = born /\ UNCHANGED <<orphan, poll>> /\ missing' = missing \ {repairing[p]}
    BY <1>2 DEF ReconcileReturns, PushReturns, dbVars
  <2>3. /\ repairing' \in [Procs -> Routes \cup {None}] /\ repairing'[p] = None
        /\ \A q \in Procs : repairing'[q] # None =>
              repairing'[q] = repairing[q] /\ repairing[q] # repairing[p]
    BY <1>2 DEF ReconcileReturns, Forget, DriftTypeOK
  <2>. QED
    BY <2>1, <2>2, <2>3 DEF DriftTypeOK, InFlight
<1>3. CASE DriftRestart
  BY <1>3 DEF DriftRestart, AppRestart, DriftTypeOK, PollIdle, dbVars
<1>4. CASE PollRead
  BY <1>4 DEF PollRead, Served, DriftTypeOK, InFlight, vars, dbVars
<1>5. CASE PollRecord
  <2>1. /\ Forget(missing \ missing') /\ UNCHANGED <<born, proc>> /\ poll' = PollIdle
        /\ missing' = (missing \cup enabled) \ poll.ids /\ orphan' \in BOOLEAN
    BY <1>5 DEF PollRecord, vars, dbVars, DriftTypeOK
  <2>2. /\ missing \ (missing \ missing') \subseteq missing' /\ missing' \subseteq born'
        /\ missing \ missing' \in SUBSET Routes
        /\ poll' \in [pc : {"idle", "answered"}, ids : SUBSET Routes]
    BY <2>1 DEF PollIdle, DriftTypeOK
  <2>. QED
    BY <2>1, <2>2, ForgetKeeps
<1>6. CASE MarkOrphanResolved
  BY <1>6 DEF MarkOrphanResolved, DriftTypeOK, InFlight, vars, dbVars
<1>7. ASSUME NEW r \in Routes, MarkResolved(r) \/ ReconcileDeleted(r)
      PROVE  DriftTypeOK'
  <2>1. Forget({r}) /\ UNCHANGED <<born, proc, orphan, poll>> /\ missing' = missing \ {r}
    BY <1>7 DEF ReconcileDeleted, MarkResolved, vars, dbVars
  <2>. QED
    BY <2>1, ForgetKeeps DEF DriftTypeOK
<1>8. ASSUME NEW p \in Procs, NEW r \in Routes, Reconcile(p, r)
      PROVE  DriftTypeOK'
  <2>1. proc[p].pc = "idle" /\ born' = born /\ UNCHANGED <<missing, orphan, poll>> /\ r \in missing
    BY <1>8 DEF Reconcile, ForceResync, Begin, dbVars
  <2>2. /\ proc'[p].pc = "call" /\ proc'[p].op = "resync" /\ proc'[p].r = r
        /\ \A q \in Procs \ {p} : proc'[q] = proc[q]
    BY <1>8 DEF Reconcile, ForceResync, Begin, TypeOK
  <2>3. repairing' = [repairing EXCEPT ![p] = r]
    BY <1>8 DEF Reconcile
  <2>. QED
    BY <2>1, <2>2, <2>3 DEF DriftTypeOK, InFlight
<1>9. CASE UNCHANGED allVars
  BY <1>9 DEF DriftTypeOK, InFlight, allVars, driftVars, vars, dbVars
<1>. QED
  BY <1>1, <1>2, <1>3, <1>4, <1>5, <1>6, <1>7, <1>8, <1>9 DEF DriftNext

\* Events are on routes that once had a row, and a handler that will resolve an
\* event is pushing its route and finds the event unresolved.
THEOREM EventsAreHeld == DriftSpec => []DriftTypeOK
<1>1. ASSUME DriftInit
      PROVE  DriftTypeOK
  <2>1. missing = {} /\ poll = PollIdle /\ repairing = [p \in Procs |-> None]
    BY <1>1 DEF DriftInit
  <2>2. orphan \in BOOLEAN
    BY <1>1 DEF DriftInit
  <2>. QED
    BY <2>1, <2>2 DEF DriftTypeOK, PollIdle
<1>2. DriftSpec => []TypeOK
  BY DriftImplementsSync, TypeCorrect, PTL
<1>. QED
  BY <1>1, <1>2, EventStep, PTL DEF DriftSpec
==============================================================================
