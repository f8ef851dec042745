------------------------- MODULE RouteChanges_proofs -------------------------
(****************************************************************************)
(* RouteChanges implements Schedule, and maintenance gives back what it     *)
(* saved, for any number of changes, runs and upstreams.                    *)
(****************************************************************************)
EXTENDS RouteChanges, TLAPS

USE OperatorAssumption, NoneAssumption, FirstAssumption, BoundAssumption, AskedAssumption

------------------------------------------------------------------------------
(* The inductive invariant.                                                 *)

\* A change on somebody's list was created.
HeldExists == \A p \in Runs : \A c \in proc[p].todo : change[c] # "absent"

\* A run that calls Caddy does so for a change that is still on its list, and one
\* that has ended has nothing on its list.
ListFits ==
    \A p \in Runs : /\ proc[p].pc \in {"push", "reply"} => proc[p].cur \in proc[p].todo
                    /\ proc[p].pc = "idle" => proc[p].todo = {}

\* While maintenance that was set once lasts, the row saves the original upstreams.
OriginalIsSaved == row # None /\ row.maintenance /\ original # None => row.saved = original

IInv == TypeOK /\ HeldExists /\ ListFits /\ OriginalIsSaved

THEOREM InitIInv == Init => IInv
BY DEF Init, IInv, TypeOK, HeldExists, ListFits, OriginalIsSaved, Idle, RouteRow, Stored,
   Procs, Statuses, ProcStates

------------------------------------------------------------------------------
(* What steps do to the list of a run.                                      *)

\* The list of p without c.
LEMMA AdvanceShape ==
    ASSUME TypeOK, NEW p \in Runs, NEW c \in proc[p].todo, Advance(p, c)
    PROVE  /\ proc' \in [Procs -> ProcStates]
           /\ proc'[p].todo = proc[p].todo \ {c}
           /\ proc'[p].pc \in {"idle", "next"}
           /\ proc'[p].pc = "idle" => proc'[p].todo = {}
           /\ \A q \in Procs \ {p} : proc'[q] = proc[q]
<1>. DEFINE rest == proc[p].todo \ {c}
            next == [proc[p] EXCEPT !.pc = "next", !.todo = rest, !.cur = None,
                                    !.snap = None, !.out = None]
<1>1. proc' = [proc EXCEPT ![p] = IF rest = {} THEN Idle ELSE next]
  BY DEF Advance
<1>2. proc \in [Procs -> ProcStates] /\ p \in Procs /\ proc[p] \in ProcStates
  BY DEF TypeOK, Procs
<1>3. Idle \in ProcStates /\ next \in ProcStates
  BY <1>2 DEF ProcStates, Idle
<1>4. proc'[p] = IF rest = {} THEN Idle ELSE next
  BY <1>1, <1>2
<1>5. next.todo = rest /\ next.pc = "next"
  BY <1>2 DEF ProcStates
<1>6. /\ proc'[p].todo = rest /\ proc'[p].pc \in {"idle", "next"}
      /\ proc'[p].pc = "idle" => rest = {}
  BY <1>4, <1>5 DEF Idle
<1>. QED
  BY <1>1, <1>2, <1>3, <1>6

\* The row that an executor writes, with its maintenance left alone.
LEMMA AppliedShape ==
    ASSUME NEW w \in RouteRow, NEW c \in Changes, NEW kind
    PROVE  LET new == Applied(kind, Asked[c], w)
           IN  new \in RouteRow /\ new.maintenance = w.maintenance /\ new.saved = w.saved
<1>. DEFINE x == Asked[c]
<1>1. x \in Payloads /\ (x.form # "none" => x.ups \in Upstreams)
  BY DEF Payloads
<1>2. Swapped(kind, x, w) \in Stored
  BY <1>1 DEF Swapped, Stored, RouteRow
<1>3. CASE x.action = "enable"
  BY <1>3 DEF Applied, RouteRow
<1>4. CASE x.action = "disable"
  BY <1>4 DEF Applied, RouteRow
<1>5. CASE x.action = "update_upstream"
  BY <1>2, <1>5 DEF Applied, RouteRow
<1>6. CASE x.action = "rollback"
  <2>1. SnapshotForm(kind) # "none"
    BY DEF SnapshotForm
  <2>. QED
    BY <1>1, <1>6, <2>1 DEF Applied, RouteRow, Stored
<1>. QED
  BY <1>1, <1>3, <1>4, <1>5, <1>6 DEF Payloads

\* A recorded outcome changes one status, and makes no change absent.
LEMMA RecordedShape ==
    ASSUME TypeOK, NEW c \in Changes, NEW s \in Statuses, s # "absent", Recorded(c, s)
    PROVE  /\ change' \in [Changes -> Statuses]
           /\ change'[c] \in {s, "deleted"}
           /\ \A d \in Changes \ {c} : change'[d] = change[d]
BY DEF TypeOK, Recorded, Statuses

\* A request about the route leaves the runs and the changes alone.
LEMMA RequestShape ==
    ASSUME TypeOK, NEW pc \in {"push", "remove", "delete"}, NEW w \in RouteRow, Request(pc, w)
    PROVE  /\ row' \in RouteRow /\ row' = w /\ change' = change /\ caddy' = caddy
           /\ proc' \in [Procs -> ProcStates]
           /\ \A p \in Runs : proc'[p] = proc[p]
<1>. DEFINE asked == [proc[Operator] EXCEPT !.pc = pc,
                                            !.snap = IF pc = "push" THEN w.ups ELSE None]
<1>1. proc \in [Procs -> ProcStates] /\ Operator \in Procs /\ proc[Operator] \in ProcStates
  BY DEF TypeOK, Procs
<1>2. w.ups \in Stored
  BY DEF RouteRow
<1>3. asked \in ProcStates
  BY <1>1, <1>2 DEF ProcStates
<1>4. proc' = proc \/ proc' = [proc EXCEPT ![Operator] = asked]
  BY <1>1 DEF Request
<1>5. proc' \in [Procs -> ProcStates]
  BY <1>1, <1>3, <1>4
<1>6. \A p \in Runs : proc'[p] = proc[p]
  BY <1>1, <1>4 DEF Procs
<1>. QED
  BY <1>5, <1>6 DEF Request

\* What keeps the invariant when no run and no change is concerned.
LEMMA RunsUntouched ==
    ASSUME IInv, UNCHANGED change, \A p \in Runs : proc'[p] = proc[p]
    PROVE  HeldExists' /\ ListFits'
BY DEF IInv, HeldExists, ListFits

\* What keeps it when a run ends with the change c, and records s.
LEMMA SettledKeeps ==
    ASSUME IInv, NEW p \in Runs, NEW c \in proc[p].todo, NEW s \in Statuses, s # "absent",
           Recorded(c, s), Advance(p, c)
    PROVE  /\ change' \in [Changes -> Statuses] /\ proc' \in [Procs -> ProcStates]
           /\ HeldExists' /\ ListFits'
<1>. TypeOK /\ HeldExists /\ ListFits
  BY DEF IInv
<1>1. c \in Changes /\ \A q \in Runs : proc[q].todo \subseteq Changes
  BY DEF TypeOK, ProcStates, Procs
<1>2. /\ change' \in [Changes -> Statuses]
      /\ change'[c] \in {s, "deleted"}
      /\ \A d \in Changes \ {c} : change'[d] = change[d]
  BY <1>1, RecordedShape
<1>3. /\ proc' \in [Procs -> ProcStates]
      /\ proc'[p].todo = proc[p].todo \ {c}
      /\ proc'[p].pc \in {"idle", "next"}
      /\ proc'[p].pc = "idle" => proc'[p].todo = {}
      /\ \A q \in Procs \ {p} : proc'[q] = proc[q]
  BY AdvanceShape
<1>4. \A q \in Runs : proc'[q].todo \subseteq proc[q].todo
  BY <1>3 DEF Procs
<1>5. HeldExists'
  BY <1>1, <1>2, <1>4 DEF HeldExists
<1>6. ListFits'
  BY <1>3 DEF ListFits, Procs
<1>. QED
  BY <1>2, <1>3, <1>5, <1>6

THEOREM NextIInv == IInv /\ [Next]_vars => IInv'
<1>. SUFFICES ASSUME IInv, [Next]_vars PROVE IInv'
  OBVIOUS
<1>. TypeOK /\ HeldExists /\ ListFits /\ OriginalIsSaved
  BY DEF IInv
<1>a. /\ row \in RouteRow \cup {None} /\ change \in [Changes -> Statuses]
      /\ proc \in [Procs -> ProcStates] /\ Operator \in Procs
      /\ \A p \in Runs : p \in Procs /\ p # Operator /\ proc[p] \in ProcStates
      /\ \A p \in Runs : proc[p].todo \subseteq Changes
  BY DEF TypeOK, Procs, ProcStates
<1>b. ASSUME Event PROVE events' \in 0 .. MaxEvents
  BY <1>b DEF Event, TypeOK
<1>1. ASSUME NEW c \in Changes, Create(c) \/ FallsDue(c) \/ Cancel(c) \/ Delete(c)
      PROVE  IInv'
  <2>1. PICK s \in Statuses \ {"absent"} : change' = [change EXCEPT ![c] = s]
    BY <1>1 DEF Create, FallsDue, Cancel, Delete, Statuses
  <2>2. UNCHANGED <<row, caddy, proc, original, events>>
    BY <1>1 DEF Create, FallsDue, Cancel, Delete
  <2>. QED
    BY <2>1, <2>2, <1>a DEF IInv, TypeOK, HeldExists, ListFits, OriginalIsSaved
<1>2. ASSUME NEW p \in Runs, NEW kind \in {"worker", "executeDue"}, Begin(p, kind)
      PROVE  IInv'
  <2>. DEFINE begun == [Idle EXCEPT !.pc = "next", !.kind = kind, !.todo = Due]
  <2>1. begun \in ProcStates /\ begun.todo = Due /\ begun.pc = "next"
    BY DEF Idle, ProcStates, Due
  <2>2. proc' = [proc EXCEPT ![p] = begun]
    BY <1>2 DEF Begin
  <2>3. UNCHANGED <<row, caddy, change, original, events>>
    BY <1>2 DEF Begin
  <2>4. TypeOK'
    BY <2>1, <2>2, <2>3, <1>a DEF TypeOK
  <2>5. HeldExists'
    BY <2>1, <2>2, <2>3, <1>a DEF HeldExists, Due
  <2>6. ListFits'
    BY <2>1, <2>2, <2>3, <1>a DEF ListFits
  <2>. QED
    BY <2>3, <2>4, <2>5, <2>6 DEF IInv, OriginalIsSaved
<1>3. ASSUME NEW p \in Runs, NEW c \in Changes, Fails(p, c)
      PROVE  IInv'
  <2>1. c \in proc[p].todo /\ Recorded(c, "failed") /\ Advance(p, c)
    BY <1>3 DEF Fails
  <2>2. /\ change' \in [Changes -> Statuses] /\ proc' \in [Procs -> ProcStates]
        /\ HeldExists' /\ ListFits'
    BY <2>1, SettledKeeps DEF Statuses
  <2>. QED
    BY <1>3, <2>2 DEF Fails, IInv, TypeOK, OriginalIsSaved
<1>4. ASSUME NEW p \in Runs, NEW c \in Changes, Carries(p, c)
      PROVE  IInv'
  <2>. DEFINE kind == proc[p].kind
              new  == Applied(kind, Asked[c], row)
  <2>1. /\ c \in proc[p].todo /\ row # None /\ row' = new
        /\ UNCHANGED <<caddy, original, events>>
    BY <1>4 DEF Carries
  <2>2. row \in RouteRow
    BY <1>a, <2>1
  <2>3. new \in RouteRow /\ new.maintenance = row.maintenance /\ new.saved = row.saved
    BY <2>2, AppliedShape
  <2>4. OriginalIsSaved'
    BY <2>1, <2>3 DEF OriginalIsSaved
  <2>5. CASE new.ups = Broken
    <3>1. PICK s \in {"done", "failed"} : Recorded(c, s)
      BY <1>4, <2>5 DEF Carries
    <3>2. Advance(p, c)
      BY <1>4, <2>5 DEF Carries
    <3>3. /\ change' \in [Changes -> Statuses] /\ proc' \in [Procs -> ProcStates]
          /\ HeldExists' /\ ListFits'
      BY <2>1, <3>1, <3>2, SettledKeeps DEF Statuses
    <3>. QED
      BY <2>1, <2>3, <2>4, <3>3 DEF IInv, TypeOK
  <2>6. CASE new.ups # Broken
    <3>. DEFINE calls == [proc[p] EXCEPT !.pc = "push", !.cur = c, !.snap = new.ups]
    <3>1. proc' = [proc EXCEPT ![p] = calls] /\ change' = change
      BY <1>4, <1>a, <2>6 DEF Carries
    <3>2. new.ups \in Stored
      BY <2>3 DEF RouteRow
    <3>3. calls \in ProcStates /\ calls.todo = proc[p].todo /\ calls.cur = c
      BY <1>a, <3>2 DEF ProcStates
    <3>4. TypeOK'
      BY <1>a, <2>1, <2>3, <3>1, <3>3 DEF TypeOK
    <3>5. HeldExists' /\ ListFits'
      BY <1>a, <2>1, <3>1, <3>3 DEF HeldExists, ListFits
    <3>. QED
      BY <2>4, <3>4, <3>5 DEF IInv
  <2>. QED
    BY <2>5, <2>6
<1>5. ASSUME NEW p \in Runs, Records(p)
      PROVE  IInv'
  <2>1. PICK s \in {"done", "failed"} : Recorded(proc[p].cur, s)
    BY <1>5 DEF Records
  <2>2. Advance(p, proc[p].cur) /\ proc[p].cur \in proc[p].todo
    BY <1>5 DEF Records, ListFits
  <2>3. /\ change' \in [Changes -> Statuses] /\ proc' \in [Procs -> ProcStates]
        /\ HeldExists' /\ ListFits'
    BY <2>1, <2>2, SettledKeeps DEF Statuses
  <2>. QED
    BY <1>5, <2>3 DEF Records, IInv, TypeOK, OriginalIsSaved
<1>6. ASSUME NEW p \in Procs, NEW out \in {"ok", "failed", "lost"}, PushArrives(p, out)
      PROVE  IInv'
  <2>. DEFINE heard == IF caddy = None \/ out # "ok" THEN "failed" ELSE "ok"
              told  == [proc[p] EXCEPT !.pc = "reply", !.snap = None,
                           !.out = IF proc[p].kind = "worker" THEN None ELSE heard]
  <2>1. /\ proc[p].pc = "push" /\ Answered(p, heard)
        /\ UNCHANGED <<row, change, original, events>>
        /\ caddy' \in {caddy, proc[p].snap}
    BY <1>6 DEF PushArrives
  <2>2. caddy' \in Stored \cup {None}
    BY <1>a, <2>1 DEF TypeOK, ProcStates
  <2>3. CASE p = Operator
    <3>1. proc' = [proc EXCEPT ![p] = Idle]
      BY <2>1, <2>3 DEF Answered
    <3>2. proc' \in [Procs -> ProcStates] /\ \A q \in Runs : proc'[q] = proc[q]
      BY <1>a, <2>3, <3>1 DEF Idle, ProcStates
    <3>. QED
      BY <2>1, <2>2, <3>2, RunsUntouched DEF IInv, TypeOK, OriginalIsSaved
  <2>4. CASE p # Operator
    <3>1. proc' = [proc EXCEPT ![p] = told]
      BY <2>1, <2>4 DEF Answered
    <3>2. p \in Runs /\ proc[p] \in ProcStates
      BY <1>a, <2>4 DEF Procs
    <3>3. told \in ProcStates /\ told.todo = proc[p].todo /\ told.cur = proc[p].cur
      BY <3>2 DEF ProcStates
    <3>4. proc' \in [Procs -> ProcStates]
      BY <1>a, <3>1, <3>3
    <3>5. HeldExists' /\ ListFits'
      BY <1>a, <2>1, <3>1, <3>2, <3>3 DEF HeldExists, ListFits
    <3>. QED
      BY <2>1, <2>2, <3>4, <3>5 DEF IInv, TypeOK, OriginalIsSaved
  <2>. QED
    BY <2>3, <2>4
<1>7. ASSUME NEW out \in {"ok", "failed", "lost"}, RemoveArrives(out) \/ DeleteArrives(out)
      PROVE  IInv'
  <2>1. PICK pc \in {"idle", "deleted"} : proc' = [proc EXCEPT ![Operator] = [Idle EXCEPT !.pc = pc]]
    BY <1>7 DEF RemoveArrives, DeleteArrives, Idle
  <2>2. proc' \in [Procs -> ProcStates] /\ \A q \in Runs : proc'[q] = proc[q]
    BY <1>a, <2>1 DEF Idle, ProcStates
  <2>3. UNCHANGED <<row, change, original, events>> /\ caddy' \in {caddy, None}
    BY <1>7 DEF RemoveArrives, DeleteArrives
  <2>. QED
    BY <2>2, <2>3, RunsUntouched DEF IInv, TypeOK, OriginalIsSaved
<1>8. CASE Enable \/ Disable \/ Remove \/ \E u \in Upstreams : Update(u)
  <2>1. PICK pc \in {"push", "remove", "delete"}, w \in RouteRow :
            /\ Request(pc, w) /\ Event /\ UNCHANGED original
            /\ row # None /\ w.maintenance = row.maintenance /\ w.saved = row.saved
    <3>1. row # None
      BY <1>8 DEF Enable, Disable, Remove, Update, Request
    <3>2. row \in RouteRow
      BY <1>a, <3>1
    <3>. DEFINE on == [row EXCEPT !.enabled = TRUE]  off == [row EXCEPT !.enabled = FALSE]
    <3>3. ASSUME NEW w \in {on, off}
          PROVE  w \in RouteRow /\ w.maintenance = row.maintenance /\ w.saved = row.saved
      BY <3>2 DEF RouteRow
    <3>4. /\ Enable => Request("push", on) /\ Event /\ UNCHANGED original
          /\ Disable => Request("remove", off) /\ Event /\ UNCHANGED original
      BY DEF Enable, Disable
    <3>5. Remove => Request("delete", row) /\ Event /\ UNCHANGED original
      BY DEF Remove
    <3>. HIDE DEF on, off
    <3>6. ASSUME NEW u \in Upstreams, Update(u)
          PROVE  /\ Request("push", [row EXCEPT !.ups = u]) /\ Event /\ UNCHANGED original
                 /\ [row EXCEPT !.ups = u] \in RouteRow
                 /\ [row EXCEPT !.ups = u].maintenance = row.maintenance
                 /\ [row EXCEPT !.ups = u].saved = row.saved
      BY <3>2, <3>6 DEF Update, RouteRow, Stored
    <3>7. CASE Enable
      BY <3>1, <3>3, <3>4, <3>7
    <3>8. CASE Disable
      BY <3>1, <3>3, <3>4, <3>8
    <3>9. CASE Remove
      BY <3>1, <3>2, <3>5, <3>9
    <3>10. CASE \E u \in Upstreams : Update(u)
      <4>1. PICK u \in Upstreams : Update(u)
        BY <3>10
      <4>. DEFINE w == [row EXCEPT !.ups = u]
      <4>2. /\ Request("push", w) /\ Event /\ UNCHANGED original
            /\ w \in RouteRow /\ w.maintenance = row.maintenance /\ w.saved = row.saved
        BY <3>6, <4>1
      <4>. HIDE DEF w
      <4>. QED
        BY <3>1, <4>2
    <3>. QED
      BY <1>8, <3>7, <3>8, <3>9, <3>10
  <2>2. /\ row' \in RouteRow /\ row' = w /\ change' = change /\ caddy' = caddy
        /\ proc' \in [Procs -> ProcStates] /\ \A p \in Runs : proc'[p] = proc[p]
    BY <2>1, RequestShape
  <2>. QED
    BY <2>1, <2>2, <1>b, RunsUntouched DEF IInv, TypeOK, OriginalIsSaved
<1>9. ASSUME NEW u \in Upstreams, SetMaintenance(u)
      PROVE  IInv'
  <2>. DEFINE w == [row EXCEPT !.maintenance = TRUE, !.saved = row.ups, !.ups = u]
  <2>1. /\ Request("push", w) /\ Event /\ row # None
        /\ original' = IF row.maintenance THEN None ELSE row.ups
    BY <1>9 DEF SetMaintenance, Request
  <2>2. w \in RouteRow /\ w.saved = row.ups /\ row.ups \in Stored
    BY <1>a, <2>1 DEF RouteRow, Stored
  <2>3. /\ row' = w /\ change' = change /\ caddy' = caddy
        /\ proc' \in [Procs -> ProcStates] /\ \A p \in Runs : proc'[p] = proc[p]
    BY <2>1, <2>2, RequestShape
  <2>. QED
    BY <2>1, <2>2, <2>3, <1>b, RunsUntouched DEF IInv, TypeOK, OriginalIsSaved
<1>10. CASE Restore
  <2>. DEFINE w == [row EXCEPT !.maintenance = FALSE, !.saved = None, !.ups = row.saved]
  <2>1. /\ Request("push", w) /\ row # None /\ row.saved # None
        /\ original' = None /\ events' = events
    BY <1>10 DEF Restore
  <2>2. w \in RouteRow
    BY <1>a, <2>1 DEF RouteRow
  <2>3. /\ row' = w /\ change' = change /\ caddy' = caddy
        /\ proc' \in [Procs -> ProcStates] /\ \A p \in Runs : proc'[p] = proc[p]
    BY <2>1, <2>2, RequestShape
  <2>. QED
    BY <2>1, <2>2, <2>3, RunsUntouched DEF IInv, TypeOK, OriginalIsSaved
<1>11. ASSUME NEW u \in Upstreams, RollBack(u)
       PROVE  IInv'
  <2>1. /\ row # None /\ row' = [row EXCEPT !.ups = u] /\ Event
        /\ UNCHANGED <<caddy, change, proc, original>>
    BY <1>11 DEF RollBack
  <2>2. row' \in RouteRow /\ row'.maintenance = row.maintenance /\ row'.saved = row.saved
    BY <1>a, <2>1 DEF RouteRow, Stored
  <2>. QED
    BY <2>1, <2>2, <1>b, RunsUntouched DEF IInv, TypeOK, OriginalIsSaved
<1>12. CASE DropRow
  <2>1. /\ row' = None /\ original' = None /\ UNCHANGED <<caddy, events>>
        /\ change' = [c \in Changes |-> IF change[c] = "absent" THEN "absent" ELSE "deleted"]
        /\ proc' = [proc EXCEPT ![Operator] = Idle]
    BY <1>12 DEF DropRow
  <2>2. proc' \in [Procs -> ProcStates] /\ \A q \in Runs : proc'[q] = proc[q]
    BY <1>a, <2>1 DEF Idle, ProcStates
  <2>3. change' \in [Changes -> Statuses]
    BY <2>1 DEF Statuses
  <2>4. HeldExists' /\ ListFits'
    BY <1>a, <2>1, <2>2 DEF HeldExists, ListFits
  <2>. QED
    BY <2>1, <2>2, <2>3, <2>4 DEF IInv, TypeOK, OriginalIsSaved
<1>13. CASE Crash
  BY <1>13, <1>a DEF Crash, IInv, TypeOK, HeldExists, ListFits, OriginalIsSaved, Idle,
     ProcStates
<1>14. CASE Bootstrap
  <2>1. proc' = [proc EXCEPT ![Operator] = Idle] /\ UNCHANGED <<row, change, original, events>>
    BY <1>14 DEF Bootstrap
  <2>2. proc' \in [Procs -> ProcStates] /\ \A q \in Runs : proc'[q] = proc[q]
    BY <1>a, <2>1 DEF Idle, ProcStates
  <2>3. caddy' \in Stored \cup {None}
    BY <1>14, <1>a DEF Bootstrap, TypeOK, RouteRow
  <2>. QED
    BY <2>1, <2>2, <2>3, RunsUntouched DEF IInv, TypeOK, OriginalIsSaved
<1>15. CASE UNCHANGED vars
  BY <1>15 DEF vars, IInv, TypeOK, HeldExists, ListFits, OriginalIsSaved
<1>. QED
  BY <1>1, <1>2, <1>3, <1>4, <1>5, <1>6, <1>7, <1>8, <1>9, <1>10, <1>11, <1>12, <1>13, <1>14,
     <1>15 DEF Next

\* In every state the variables have the values declared for them.
THEOREM TypeCorrect == Spec => []TypeOK
<1>. QED
  BY InitIInv, NextIInv, PTL DEF Spec, IInv

\* Maintenance that was set once gives back, when it ends, the upstreams the route
\* had when it began, whatever wrote the row in between (RestoreGivesBack).
THEOREM RestoreIsRight == Spec => RestoreGivesBack
<1>. DEFINE A == (row # None /\ row' # None /\ row.maintenance /\ ~row'.maintenance
                    /\ original # None) => row'.ups = original
<1>1. IInv /\ [Next]_vars => A
  <2>. SUFFICES ASSUME IInv, [Next]_vars, row # None, row' # None, row.maintenance,
                       ~row'.maintenance, original # None
       PROVE  row'.ups = original
    OBVIOUS
  <2>1. TypeOK /\ row \in RouteRow /\ row.saved = original
    BY DEF IInv, TypeOK, OriginalIsSaved
  <2>2. ASSUME row' = row PROVE FALSE
    BY <2>2
  <2>3. ASSUME NEW p \in Runs, NEW c \in Changes, Carries(p, c) PROVE FALSE
    <3>1. row' = Applied(proc[p].kind, Asked[c], row)
      BY <2>3 DEF Carries
    <3>. QED
      BY <2>1, <3>1, AppliedShape
  <2>4. ASSUME Enable \/ Disable \/ \E u \in Upstreams : Update(u) \/ RollBack(u) PROVE FALSE
    <3>1. \/ row' = [row EXCEPT !.enabled = TRUE]
          \/ row' = [row EXCEPT !.enabled = FALSE]
          \/ \E u \in Upstreams : row' = [row EXCEPT !.ups = u]
      BY <2>4 DEF Enable, Disable, Update, RollBack, Request
    <3>. QED
      BY <2>1, <3>1 DEF RouteRow
  <2>5. ASSUME NEW u \in Upstreams, SetMaintenance(u) PROVE FALSE
    <3>1. row' = [row EXCEPT !.maintenance = TRUE, !.saved = row.ups, !.ups = u]
      BY <2>5 DEF SetMaintenance, Request
    <3>. QED
      BY <2>1, <3>1 DEF RouteRow
  <2>6. CASE Restore
    <3>1. row' = [row EXCEPT !.maintenance = FALSE, !.saved = None, !.ups = row.saved]
      BY <2>6 DEF Restore, Request
    <3>. QED
      BY <2>1, <3>1 DEF RouteRow
  <2>7. ASSUME DropRow PROVE FALSE
    BY <2>7 DEF DropRow
  <2>. QED
    BY <2>2, <2>3, <2>4, <2>5, <2>6, <2>7 DEF Next, vars, Create, FallsDue, Cancel, Delete, Begin,
       Fails, Records, PushArrives, RemoveArrives, DeleteArrives, Remove, Request, Crash, Bootstrap
<1>. QED
  BY <1>1, InitIInv, NextIInv, PTL DEF Spec, RestoreGivesBack

------------------------------------------------------------------------------
(* Every step is one of Schedule, or changes no phase.                      *)

\* A change whose status and holders stay as they are stays in its phase.
LEMMA SamePhase ==
    ASSUME NEW c \in Changes, Held(c)' <=> Held(c), change'[c] = change[c]
    PROVE  Phase'[c] = Phase[c]
BY DEF Phase, Pending

\* So does every change when a step leaves the statuses and the lists alone.
LEMMA SamePhases ==
    ASSUME UNCHANGED change, \A p \in Runs : proc'[p].todo = proc[p].todo
    PROVE  UNCHANGED Phase
<1>1. \A c \in Changes : Held(c)' <=> Held(c)
  BY DEF Held
<1>2. \A c \in Changes : Phase'[c] = Phase[c]
  BY <1>1, SamePhase
<1>. QED
  BY <1>2 DEF Phase

\* The phase of a change, by what decides it.
LEMMA PhaseIs ==
    ASSUME NEW c \in Changes, HeldExists
    PROVE  /\ Phase[c] = "taken" <=> Held(c)
           /\ Phase[c] = "waiting" <=> Pending(c) /\ ~Held(c)
           /\ Phase[c] = "absent" <=> change[c] = "absent"
           /\ Phase[c] \in {"taken", "waiting", "absent", "settled"}
BY DEF Phase, Pending, Held, HeldExists

\* A run that ends with a change settles it, unless another run still holds it.
LEMMA SettledIsStep ==
    ASSUME IInv, NEW p \in Runs, NEW c \in proc[p].todo, NEW s \in {"done", "failed"},
           Recorded(c, s), Advance(p, c)
    PROVE  [Sched!Next]_Phase
<1>. TypeOK /\ HeldExists /\ ListFits
  BY DEF IInv
<1>1. c \in Changes /\ p \in Procs /\ \A q \in Runs : q \in Procs
  BY DEF TypeOK, ProcStates, Procs
<1>2. change'[c] \in {s, "deleted"} /\ \A d \in Changes \ {c} : change'[d] = change[d]
  BY <1>1, RecordedShape DEF Statuses
<1>3. /\ proc'[p].todo = proc[p].todo \ {c}
      /\ \A q \in Runs \ {p} : proc'[q].todo = proc[q].todo
  BY <1>1, AdvanceShape
<1>4. \A d \in Changes \ {c} : Held(d)' <=> Held(d)
  BY <1>3 DEF Held
<1>5. \A d \in Changes \ {c} : Phase'[d] = Phase[d]
  BY <1>2, <1>4, SamePhase
<1>6. Phase[c] = "taken"
  BY <1>1 DEF Phase, Held
<1>7. Phase'[c] \in {"taken", "settled"}
  BY <1>1, <1>2 DEF Phase, Pending
<1>8. CASE Phase'[c] = "taken"
  BY <1>5, <1>6, <1>8 DEF Phase
<1>9. CASE Phase'[c] = "settled"
  <2>1. Phase' = [d \in Changes |-> IF d \in {c} THEN "settled" ELSE Phase[d]]
    BY <1>5, <1>9 DEF Phase
  <2>2. Sched!Settle(c)
    BY <1>6, <2>1 DEF Sched!Settle, Sched!Moved
  <2>. QED
    BY <1>1, <2>2 DEF Sched!Next
<1>. QED
  BY <1>7, <1>8, <1>9

\* Nothing has been scheduled to begin with.
LEMMA InitRefines == Init => Sched!Init
BY DEF Init, Sched!Init, Phase, Held, Pending, Idle, Procs

LEMMA NextRefines == IInv /\ [Next]_vars => [Sched!Next]_Phase
<1>. SUFFICES ASSUME IInv, [Next]_vars PROVE [Sched!Next]_Phase
  OBVIOUS
<1>. TypeOK /\ HeldExists /\ ListFits
  BY DEF IInv
<1>a. /\ row \in RouteRow \cup {None} /\ change \in [Changes -> Statuses]
      /\ proc \in [Procs -> ProcStates] /\ Operator \in Procs
      /\ \A p \in Runs : p \in Procs /\ p # Operator /\ proc[p] \in ProcStates
      /\ \A p \in Runs : proc[p].todo \subseteq Changes
  BY DEF TypeOK, Procs, ProcStates
<1>1. ASSUME NEW c \in Changes, Create(c)
      PROVE  Sched!Create(c)
  <2>1. change[c] = "absent" /\ change' = [change EXCEPT ![c] = "pending"] /\ proc' = proc
    BY <1>1 DEF Create
  <2>2. Phase[c] = "absent"
    BY <2>1, PhaseIs
  <2>3. \A d \in Changes : Held(d)' <=> Held(d)
    BY <2>1 DEF Held
  <2>4. Phase'[c] = "waiting"
    BY <1>a, <2>1, <2>2, <2>3, PhaseIs DEF Phase, Pending
  <2>5. \A d \in Changes \ {c} : Phase'[d] = Phase[d]
    BY <1>a, <2>1, <2>3, SamePhase
  <2>6. Phase' = [d \in Changes |-> IF d \in {c} THEN "waiting" ELSE Phase[d]]
    BY <2>4, <2>5 DEF Phase
  <2>. QED
    BY <2>2, <2>6 DEF Sched!Create, Sched!Moved
<1>2. ASSUME NEW c \in Changes, FallsDue(c)
      PROVE  UNCHANGED Phase
  <2>1. change[c] = "pending" /\ change' = [change EXCEPT ![c] = "due"] /\ proc' = proc
    BY <1>2 DEF FallsDue
  <2>2. \A d \in Changes : Held(d)' <=> Held(d)
    BY <2>1 DEF Held
  <2>3. \A d \in Changes : Phase'[d] = Phase[d]
    BY <1>a, <2>1, <2>2 DEF Phase, Pending
  <2>. QED
    BY <2>3 DEF Phase
<1>3. ASSUME NEW c \in Changes, Cancel(c) \/ Delete(c)
      PROVE  Sched!Withdraw({c}) \/ UNCHANGED Phase
  <2>1. PICK s \in {"cancelled", "deleted"} : change' = [change EXCEPT ![c] = s]
    BY <1>3 DEF Cancel, Delete
  <2>2. proc' = proc /\ change[c] # "absent"
    BY <1>3 DEF Cancel, Delete, Pending
  <2>3. \A d \in Changes : Held(d)' <=> Held(d)
    BY <2>2 DEF Held
  <2>4. \A d \in Changes \ {c} : Phase'[d] = Phase[d]
    BY <1>a, <2>1, <2>3, SamePhase
  <2>5. CASE Held(c)
    <3>1. Phase'[c] = Phase[c]
      BY <2>3, <2>5 DEF Phase
    <3>. QED
      BY <2>4, <3>1 DEF Phase
  <2>6. CASE ~Held(c)
    <3>1. Phase'[c] = "settled"
      BY <1>a, <2>1, <2>3, <2>6 DEF Phase, Pending
    <3>2. CASE Pending(c)
      <4>1. Phase[c] = "waiting"
        BY <2>6, <3>2, PhaseIs
      <4>2. Phase' = [d \in Changes |-> IF d \in {c} THEN "settled" ELSE Phase[d]]
        BY <2>4, <3>1 DEF Phase
      <4>. QED
        BY <4>1, <4>2 DEF Sched!Withdraw, Sched!Moved, Sched!In
    <3>3. CASE ~Pending(c)
      <4>1. Phase[c] = "settled"
        BY <2>2, <2>6, <3>3, PhaseIs
      <4>. QED
        BY <2>4, <3>1, <4>1 DEF Phase
    <3>. QED
      BY <3>2, <3>3
  <2>. QED
    BY <2>5, <2>6
<1>4. ASSUME NEW p \in Runs, NEW kind \in {"worker", "executeDue"}, Begin(p, kind)
      PROVE  (\E S \in SUBSET Changes : Sched!TakeUp(S)) \/ UNCHANGED Phase
  <2>. DEFINE S == {c \in Due : ~Held(c)}
  <2>1. /\ proc[p].pc = "idle" /\ change' = change
        /\ proc' = [proc EXCEPT ![p] = [Idle EXCEPT !.pc = "next", !.kind = kind, !.todo = Due]]
    BY <1>4 DEF Begin
  <2>2. proc[p].todo = {}
    BY <2>1 DEF ListFits
  <2>3. proc'[p].todo = Due /\ \A q \in Runs \ {p} : proc'[q] = proc[q]
    BY <1>a, <2>1 DEF Idle
  <2>4. \A c \in Changes : Held(c)' <=> Held(c) \/ c \in S
    BY <2>2, <2>3 DEF Held
  <2>5. \A c \in Changes \ S : Phase'[c] = Phase[c]
    BY <2>1, <2>4, SamePhase
  <2>6. \A c \in S : Phase'[c] = "taken" /\ Phase[c] = "waiting" /\ c \in Changes
    BY <2>4 DEF Due, Phase, Pending
  <2>7. Phase' = [c \in Changes |-> IF c \in S THEN "taken" ELSE Phase[c]]
    BY <2>5, <2>6 DEF Phase
  <2>8. CASE S = {}
    BY <2>7, <2>8 DEF Phase
  <2>9. CASE S # {}
    <3>1. S \in SUBSET Changes /\ S \subseteq Sched!In("waiting")
      BY <2>6 DEF Sched!In
    <3>2. Sched!TakeUp(S)
      BY <2>7, <2>9, <3>1 DEF Sched!TakeUp, Sched!Moved
    <3>. QED
      BY <3>1, <3>2
  <2>. QED
    BY <2>8, <2>9
<1>5. ASSUME NEW p \in Runs, NEW c \in Changes, Fails(p, c)
      PROVE  [Sched!Next]_Phase
  BY <1>5, SettledIsStep DEF Fails
<1>6. ASSUME NEW p \in Runs, NEW c \in Changes, Carries(p, c)
      PROVE  [Sched!Next]_Phase
  <2>. DEFINE new == Applied(proc[p].kind, Asked[c], row)
  <2>1. c \in proc[p].todo
    BY <1>6 DEF Carries
  <2>2. CASE new.ups = Broken
    <3>1. PICK s \in {"done", "failed"} : Recorded(c, s)
      BY <1>6, <2>2 DEF Carries
    <3>2. Advance(p, c)
      BY <1>6, <2>2 DEF Carries
    <3>. QED
      BY <2>1, <3>1, <3>2, SettledIsStep
  <2>3. CASE new.ups # Broken
    <3>. DEFINE calls == [proc[p] EXCEPT !.pc = "push", !.cur = c, !.snap = new.ups]
    <3>1. proc' = [proc EXCEPT ![p] = calls] /\ change' = change
      BY <1>6, <1>a, <2>3 DEF Carries
    <3>2. calls.todo = proc[p].todo
      BY <1>a DEF ProcStates
    <3>3. \A q \in Runs : proc'[q].todo = proc[q].todo
      BY <1>a, <3>1, <3>2
    <3>. QED
      BY <3>1, <3>3, SamePhases
  <2>. QED
    BY <2>2, <2>3
<1>7. ASSUME NEW p \in Runs, Records(p)
      PROVE  [Sched!Next]_Phase
  <2>1. PICK s \in {"done", "failed"} : Recorded(proc[p].cur, s)
    BY <1>7 DEF Records
  <2>2. Advance(p, proc[p].cur) /\ proc[p].cur \in proc[p].todo
    BY <1>7 DEF Records, ListFits
  <2>. QED
    BY <2>1, <2>2, SettledIsStep
<1>8. ASSUME NEW p \in Procs, NEW out \in {"ok", "failed", "lost"}, PushArrives(p, out)
      PROVE  UNCHANGED Phase
  <2>. DEFINE heard == IF caddy = None \/ out # "ok" THEN "failed" ELSE "ok"
              told  == [proc[p] EXCEPT !.pc = "reply", !.snap = None,
                           !.out = IF proc[p].kind = "worker" THEN None ELSE heard]
  <2>1. Answered(p, heard) /\ change' = change
    BY <1>8 DEF PushArrives
  <2>2. CASE p = Operator
    <3>1. proc' = [proc EXCEPT ![p] = Idle]
      BY <2>1, <2>2 DEF Answered
    <3>. QED
      BY <1>a, <2>1, <2>2, <3>1, SamePhases
  <2>3. CASE p # Operator
    <3>1. proc' = [proc EXCEPT ![p] = told]
      BY <2>1, <2>3 DEF Answered
    <3>2. p \in Runs /\ told.todo = proc[p].todo
      BY <1>a, <2>3 DEF Procs, ProcStates
    <3>3. \A q \in Runs : proc'[q].todo = proc[q].todo
      BY <1>a, <3>1, <3>2
    <3>. QED
      BY <2>1, <3>3, SamePhases
  <2>. QED
    BY <2>2, <2>3
<1>9. ASSUME \/ \E out \in {"ok", "failed", "lost"} : RemoveArrives(out) \/ DeleteArrives(out)
             \/ Enable \/ Disable \/ Restore \/ Remove \/ Bootstrap
             \/ \E u \in Upstreams : Update(u) \/ SetMaintenance(u) \/ RollBack(u)
             \/ UNCHANGED vars
      PROVE  UNCHANGED Phase
  <2>1. change' = change
    BY <1>9 DEF RemoveArrives, DeleteArrives, Enable, Disable, Restore, Remove, Bootstrap, Update,
       SetMaintenance, RollBack, Request, vars
  <2>2. \A p \in Runs : proc'[p].todo = proc[p].todo
    <3>1. CASE \E w : \E pc \in {"push", "remove", "delete"} : Request(pc, w)
      BY <1>a, <3>1 DEF Request
    <3>2. CASE \E r : proc' = [proc EXCEPT ![Operator] = r]
      BY <1>a, <3>2
    <3>3. CASE proc' = proc
      BY <3>3
    <3>4. Enable \/ Disable \/ Restore \/ Remove \/ (\E u \in Upstreams : Update(u) \/ SetMaintenance(u))
            => \E w : \E pc \in {"push", "remove", "delete"} : Request(pc, w)
      <4>1. Enable \/ Restore => \E w : Request("push", w)
        BY DEF Enable, Restore
      <4>2. Disable => \E w : Request("remove", w)
        BY DEF Disable
      <4>3. Remove => Request("delete", row)
        BY DEF Remove
      <4>4. ASSUME NEW u \in Upstreams, Update(u) \/ SetMaintenance(u)
            PROVE  \E w : Request("push", w)
        BY <4>4 DEF Update, SetMaintenance
      <4>. QED
        BY <4>1, <4>2, <4>3, <4>4
    <3>5. ASSUME NEW out \in {"ok", "failed", "lost"}, RemoveArrives(out) \/ DeleteArrives(out)
          PROVE  \E r : proc' = [proc EXCEPT ![Operator] = r]
      BY <3>5 DEF RemoveArrives, DeleteArrives
    <3>6. Bootstrap => \E r : proc' = [proc EXCEPT ![Operator] = r]
      BY DEF Bootstrap
    <3>7. (\E u \in Upstreams : RollBack(u)) \/ UNCHANGED vars => proc' = proc
      BY DEF RollBack, vars
    <3>. QED
      BY <1>9, <3>1, <3>2, <3>3, <3>4, <3>5, <3>6, <3>7
  <2>. QED
    BY <2>1, <2>2, SamePhases
<1>10. CASE DropRow
  <2>. DEFINE S == Sched!In("waiting")
  <2>1. /\ change' = [c \in Changes |-> IF change[c] = "absent" THEN "absent" ELSE "deleted"]
        /\ proc' = [proc EXCEPT ![Operator] = Idle]
    BY <1>10 DEF DropRow
  <2>2. \A c \in Changes : Held(c)' <=> Held(c)
    BY <1>a, <2>1 DEF Held
  <2>3. \A c \in Changes : Phase'[c] = IF c \in S THEN "settled" ELSE Phase[c]
    BY <1>a, <2>1, <2>2 DEF Sched!In, Phase, Pending, Statuses
  <2>4. Phase' = [c \in Changes |-> IF c \in S THEN "settled" ELSE Phase[c]]
    BY <2>3 DEF Phase
  <2>5. S \in SUBSET Changes
    BY DEF Sched!In
  <2>6. CASE S = {}
    BY <2>4, <2>6 DEF Phase
  <2>7. CASE S # {}
    <3>1. Sched!Withdraw(S)
      BY <2>4, <2>7 DEF Sched!Withdraw, Sched!Moved
    <3>. QED
      BY <2>5, <3>1 DEF Sched!Next
  <2>. QED
    BY <2>6, <2>7
<1>11. CASE Crash
  <2>. DEFINE S == {c \in Changes : Held(c) /\ Pending(c)}
  <2>1. change' = change /\ \A p \in Runs : proc'[p] = Idle
    BY <1>11, <1>a DEF Crash
  <2>2. \A c \in Changes : ~Held(c)'
    BY <2>1 DEF Held, Idle
  <2>3. \A c \in Changes : Phase'[c] = IF c \in S THEN "waiting"
                                       ELSE IF Phase[c] = "taken" THEN "settled" ELSE Phase[c]
    BY <2>1, <2>2 DEF Phase, Pending, Held, HeldExists
  <2>4. S \in SUBSET Sched!In("taken")
    BY PhaseIs DEF Sched!In
  <2>5. Phase' = [c \in Changes |-> IF c \in S THEN "waiting"
                                    ELSE IF Phase[c] = "taken" THEN "settled" ELSE Phase[c]]
    BY <2>3 DEF Phase
  <2>6. Sched!Interrupt
    <3>. HIDE DEF S
    <3>. QED
      BY <2>4, <2>5 DEF Sched!Interrupt
  <2>. QED
    BY <2>6 DEF Sched!Next
<1>. QED
  <2>1. ASSUME NEW c \in Changes, Create(c) \/ FallsDue(c) \/ Cancel(c) \/ Delete(c)
        PROVE  [Sched!Next]_Phase
    BY <1>1, <1>2, <1>3, <2>1 DEF Sched!Next
  <2>2. ASSUME NEW p \in Runs, NEW kind \in {"worker", "executeDue"}, Begin(p, kind)
        PROVE  [Sched!Next]_Phase
    BY <1>4, <2>2 DEF Sched!Next
  <2>. QED
    BY <1>5, <1>6, <1>7, <1>8, <1>9, <1>10, <1>11, <2>1, <2>2 DEF Next

\* However the runs overlap, and whatever is cancelled, deleted or interrupted, a
\* change that is settled is not taken up again: the executors carry out the
\* schedule that Schedule describes (ImplementsSchedule).
THEOREM ScheduleIsImplemented == Spec => ImplementsSchedule
<1>. QED
  BY InitIInv, NextIInv, InitRefines, NextRefines, PTL DEF Spec, ImplementsSchedule, Sched!Spec
=============================================================================
