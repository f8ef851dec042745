-------------------------- MODULE Periphery_proofs --------------------------
(****************************************************************************)
(* Safety of what surrounds the application's core: TunnelProcess, for any  *)
(* number of requests and crashes; DockerNetworks, for any networks, syncs  *)
(* and failures; and the parser of NginxConverter, for any source.          *)
(****************************************************************************)
EXTENDS TunnelProcess, FiniteSetTheorems, SequenceTheorems, TLAPS

USE NoneAssumption, BoundsAssumption

(****************************************************************************)
(* The inductive invariant.  A request that is still to start its process   *)
(* has none yet, and has an object; what is managed was started; what a     *)
(* request waits for is marked; and a process that has stopped, that sleeps *)
(* or that never ran has no child that lives.                               *)
(****************************************************************************)
ToStart(o) == op[o].pc \in {"new", "preparing"} \/ (op[o].pc = "stopping" /\ op[o].kind = "restart")

Starting(o)  == op[o].pc \in {"preparing", "settling"} \/ (op[o].pc = "stopping" /\ op[o].kind = "restart")

Unspawned    == \A o \in Ops : ToStart(o) => proc[o] = NoProc
HasObject    == \A o \in Ops : /\ Starting(o) => op[o].obj # None
                               /\ op[o].pc = "leaving" => op[o].kind # "restart"
ManagedRan   == managed # None => proc[managed].sup # "none"
StopIsMarked == \A o \in Ops : op[o].pc = "stopping" => proc[op[o].target].stopping
ChildFits    == \A p \in Ops : /\ proc[p].state = "stopped" => proc[p].child # "live"
                               /\ proc[p].sup \in {"none", "sleeping"} => proc[p].child = "none"

(****************************************************************************)
(* While requests come one at a time and the application lives: only one    *)
(* runs, what is alive is managed, and what is managed has its object, with *)
(* its token.                                                               *)
(****************************************************************************)
Calm == ~overlap /\ crashes = 0

Alone       == \A o, q \in Ops : Runs(o) /\ Runs(q) => o = q
Kept        == \A p \in Ops : Supervised(p) \/ proc[p].child = "live" => managed = p
ObjectHeld  == managed # None => registered # None /\ (type = "cloudflare" => registered \in tokens)
OwnObject   == \A o \in Ops : Starting(o) => op[o].obj = registered
ManagedFits == \A o \in Ops : /\ op[o].pc = "stopping"  => managed = op[o].target
                              /\ op[o].pc = "settling"  => managed = o
                              /\ op[o].pc = "preparing" => managed = None
StatusFits  ==
    row.exists =>
        /\ row.status = "starting" => managed # None
        /\ row.status = "stopped" /\ type # "tailscale" /\ managed # None =>
               (\E o \in Ops : op[o].pc = "settling") \/ op[managed].kind = "switch"

CalmInv == Alone /\ Kept /\ ObjectHeld /\ OwnObject /\ ManagedFits /\ StatusFits

IInv == /\ TypeOK
        /\ Unspawned /\ HasObject /\ ManagedRan /\ StopIsMarked /\ ChildFits
        /\ Calm => CalmInv

------------------------------------------------------------------------------
(* What the parts of a request do.                                          *)

LEMMA ConstantFacts ==
    /\ Ops \subseteq Nat /\ None \notin Ops
    /\ NoProc \in Procs /\ NoProc.sup = "none" /\ NoProc.child = "none" /\ ~NoProc.stopping
    /\ NoProc.state = "none"
    /\ \A c \in {"live", "failed"} :
          /\ Fresh(c) \in Procs /\ Fresh(c).sup = "waiting" /\ Fresh(c).child = c
          /\ ~Fresh(c).stopping /\ Fresh(c).state = "running"
BY DEF Ops, NoProc, Procs, Fresh

\* The request `o` goes to `pc`, the others stay where they are.
Steps(o, r, pc) ==
    /\ op' \in [Ops -> Requests]
    /\ op'[o].pc = pc /\ op'[o].kind = r.kind /\ op'[o].obj = r.obj
    /\ \A q \in Ops \ {o} : op'[q] = op[q]

LEMMA GoesFacts ==
    ASSUME TypeOK, NEW o \in Ops, NEW r \in Requests,
           NEW pc \in {"new", "preparing", "settling", "leaving", "stopping", "done"}
    PROVE  /\ Goes(o, r, pc) => Steps(o, r, pc) /\ op'[o].target = r.target
           /\ Ends(o, r) => Steps(o, r, "done")
BY DEF Goes, Ends, Steps, TypeOK, Requests

\* A start fetches a token, is refused, or starts a process.
Prepares(o, r, w, m, ps) ==
    /\ type = "cloudflare" /\ r.obj \notin tokens
    /\ Steps(o, r, "preparing") /\ op'[o].target = r.target
    /\ row' = w /\ managed' = m /\ proc' = ps

Gives(o, r, w) ==
    /\ Steps(o, r, "done")
    /\ row' \in Rows /\ row'.exists = w.exists
    /\ row'.status = w.status \/ row'.status = "crashed"

Refuses(o, r, w, m, ps) == m # None /\ managed' = m /\ proc' = ps /\ Gives(o, r, w)

\* A start that has come to its end is recorded, unless a switch made it.
Records(r, w) == row'.status = "starting" \/ (r.kind = "switch" /\ row'.status = w.status)

Starts(o, r, w, m, ps) ==
    /\ m = None /\ managed' = o
    /\ \E c \in {"live", "failed"} : proc' = [ps EXCEPT ![o] = Fresh(c)]
    /\ row' \in Rows /\ row'.exists = w.exists
    /\ IF type = "cloudflare"
       THEN Steps(o, r, "done") /\ (w.exists => Records(r, w))
       ELSE Steps(o, r, "settling") /\ row' = w

LEMMA EndStartFacts ==
    ASSUME TypeOK, NEW o \in Ops, NEW r \in Requests, NEW w \in Rows, NEW ok \in BOOLEAN,
           EndStart(o, r, w, ok)
    PROVE  /\ Steps(o, r, "done") /\ row' \in Rows /\ row'.exists = w.exists
           /\ ok /\ w.exists => Records(r, w)
           /\ ~ok => row'.status = w.status \/ row'.status = "crashed"
<1>1. Steps(o, r, "done")
  BY GoesFacts DEF EndStart
<1>2. /\ row' \in Rows /\ row'.exists = w.exists
      /\ ok /\ w.exists => Records(r, w)
      /\ ~ok => row'.status = w.status \/ row'.status = "crashed"
  BY DEF EndStart, Rows, Records
<1>. QED
  BY <1>1, <1>2

LEMMA SpawnFacts ==
    ASSUME TypeOK, NEW o \in Ops, NEW r \in Requests, NEW w \in Rows, NEW m \in Ops \cup {None},
           NEW ps, Spawn(o, r, w, m, ps)
    PROVE  Refuses(o, r, w, m, ps) \/ Starts(o, r, w, m, ps)
<1>1. CASE m # None
  BY <1>1, EndStartFacts DEF Spawn, Refuses, Gives
<1>2. CASE m = None /\ type = "cloudflare"
  <2>1. EndStart(o, r, w, TRUE) /\ managed' = o
        /\ \E c \in {"live", "failed"} : proc' = [ps EXCEPT ![o] = Fresh(c)]
    BY <1>2 DEF Spawn
  <2>. QED
    BY <1>2, <2>1, EndStartFacts DEF Starts
<1>3. CASE m = None /\ type # "cloudflare"
  <2>1. Goes(o, r, "settling") /\ row' = w /\ managed' = o
        /\ \E c \in {"live", "failed"} : proc' = [ps EXCEPT ![o] = Fresh(c)]
    BY <1>3 DEF Spawn
  <2>. QED
    BY <1>3, <2>1, GoesFacts DEF Starts
<1>. QED
  BY <1>1, <1>2, <1>3

LEMMA StartFacts ==
    ASSUME TypeOK, NEW o \in Ops, NEW r \in Requests, NEW w \in Rows, NEW m \in Ops \cup {None},
           NEW ps, StartObject(o, r, w, m, ps)
    PROVE  \/ Prepares(o, r, w, m, ps)
           \/ /\ type = "cloudflare" => r.obj \in tokens
              /\ Refuses(o, r, w, m, ps) \/ Starts(o, r, w, m, ps)
<1>1. CASE type = "cloudflare" /\ r.obj \notin tokens
  BY <1>1, GoesFacts DEF StartObject, Prepares
<1>2. CASE ~(type = "cloudflare" /\ r.obj \notin tokens)
  BY <1>2, SpawnFacts DEF StartObject
<1>. QED
  BY <1>1, <1>2

\* The end of a stop, and its beginning.
Leaves(o, r, w) ==
    /\ Steps(o, r, "done")
    /\ registered' = None
    /\ row' \in Rows /\ (row'.exists => w.exists /\ row'.status = "stopped")

LEMMA EndLeaveFacts ==
    ASSUME TypeOK, NEW o \in Ops, NEW r \in Requests, NEW w \in Rows, EndLeave(o, r, w)
    PROVE  Leaves(o, r, w)
<1>1. Steps(o, r, "done")
  BY GoesFacts DEF EndLeave
<1>2. registered' = None /\ row' \in Rows /\ (row'.exists => w.exists /\ row'.status = "stopped")
  BY DEF EndLeave, Rows
<1>. QED
  BY <1>1, <1>2 DEF Leaves

Signals(o, r, w) ==
    /\ Steps(o, r, "stopping") /\ op'[o].target = managed
    /\ row' = w /\ UNCHANGED <<registered, managed>>
    /\ proc' \in [Ops -> Procs]
    /\ \A p \in Ops \ {managed} : proc'[p] = proc[p]
    /\ proc'[managed].stopping /\ proc'[managed].state = "stopping"
    /\ proc'[managed].sup = proc[managed].sup /\ proc'[managed].child = proc[managed].child

LEMMA SignalFacts ==
    ASSUME TypeOK, managed # None, NEW o \in Ops, NEW r \in Requests, NEW w \in Rows, Signal(o, r, w)
    PROVE  Signals(o, r, w)
<1>. managed \in Ops /\ proc \in [Ops -> Procs] /\ op \in [Ops -> Requests]
  BY DEF TypeOK
<1>1. Steps(o, r, "stopping") /\ op'[o].target = managed
  BY DEF Signal, Steps, Requests
<1>2. /\ proc' \in [Ops -> Procs]
      /\ \A p \in Ops \ {managed} : proc'[p] = proc[p]
      /\ proc'[managed].stopping /\ proc'[managed].state = "stopping"
      /\ proc'[managed].sup = proc[managed].sup /\ proc'[managed].child = proc[managed].child
  BY DEF Signal, Procs
<1>. QED
  BY <1>1, <1>2 DEF Signal, Signals

LEMMA LeaveFacts ==
    ASSUME TypeOK, NEW o \in Ops, NEW r \in Requests, NEW w \in Rows, Leave(o, r, w)
    PROVE  \/ managed = None /\ Leaves(o, r, w) /\ UNCHANGED <<managed, proc>>
           \/ managed # None /\ Signals(o, r, w)
BY EndLeaveFacts, SignalFacts DEF Leave

\* What is left of the process a stop has waited for.
LEMMA KillFacts ==
    ASSUME TypeOK, ChildFits, NEW p \in Ops
    PROVE  /\ Kill(p) \in [Ops -> Procs]
           /\ \A q \in Ops \ {p} : Kill(p)[q] = proc[q]
           /\ Kill(p)[p].child # "live"
           /\ Kill(p)[p].state = proc[p].state /\ Kill(p)[p].sup = proc[p].sup
           /\ Kill(p)[p].stopping = proc[p].stopping
           /\ Kill(p)[p].child \in {proc[p].child, "killed"}
           /\ proc[p].child # "live" => Kill(p)[p].child = proc[p].child
BY DEF Kill, TypeOK, ChildFits, Procs

------------------------------------------------------------------------------
(* What the steps of requests keep.                                         *)

\* A step of the request `o`, which begins with it or runs already.
Moves(o) ==
    /\ \/ op[o].pc = "new" /\ overlap' = (overlap \/ ~Idle)
       \/ Runs(o) /\ overlap' = overlap
    /\ UNCHANGED <<type, crashes>>

\* In calm times nobody else runs.
LEMMA OthersRest ==
    ASSUME IInv, NEW o \in Ops, NEW r, NEW pc, Moves(o), Steps(o, r, pc)
    PROVE  /\ overlap' \in BOOLEAN
           /\ Calm' => /\ Calm /\ CalmInv
                       /\ \A q \in Ops \ {o} : op[q].pc \in {"new", "done"} /\ op'[q] = op[q]
<1>1. overlap' \in BOOLEAN
  BY DEF IInv, TypeOK, Moves
<1>2. Calm' => Calm /\ CalmInv
  BY DEF IInv, Calm, Moves
<1>3. ASSUME Calm', NEW q \in Ops \ {o}
      PROVE  op[q].pc \in {"new", "done"}
  <2>1. CASE op[o].pc = "new"
    BY <1>3, <2>1 DEF Calm, Moves, Idle, Runs
  <2>2. CASE Runs(o)
    BY <1>2, <1>3, <2>2 DEF CalmInv, Alone, Runs
  <2>. QED
    BY <2>1, <2>2 DEF Moves
<1>. QED
  BY <1>1, <1>2, <1>3 DEF Steps

\* The processes as a stop leaves them, or as they were.
Left0(ps) ==
    /\ ps \in [Ops -> Procs]
    /\ \A p \in Ops : /\ ps[p].sup = proc[p].sup /\ ps[p].stopping = proc[p].stopping
                      /\ proc[p] = NoProc => ps[p] = NoProc
                      /\ ps[p].state = "stopped" => ps[p].child # "live"
                      /\ ps[p].sup \in {"none", "sleeping"} => ps[p].child = "none"

Quiet(ps) == \A p \in Ops : /\ ps[p].child # "live"
                            /\ ps[p].sup \in {"waiting", "sleeping"} => ps[p].stopping

SameRow(w) == w \in Rows /\ w.exists = row.exists /\ w.status = row.status

LEMMA StartKeeps ==
    ASSUME IInv, NEW o \in Ops, NEW r \in Requests, NEW w, NEW m \in {managed, None}, NEW ps,
           Moves(o), ToStart(o), SameRow(w), Left0(ps), ps[o] = NoProc,
           r.obj # None, registered' \in Ops \cup {None}, Calm => registered' = r.obj,
           tokens \subseteq tokens', tokens' \subseteq Ops,
           \/ Prepares(o, r, w, m, ps) /\ (Calm => managed = None)
           \/ /\ type = "cloudflare" => r.obj \in tokens'
              /\ Refuses(o, r, w, m, ps) \/ Starts(o, r, w, m, ps),
           Calm => m = None /\ Quiet(ps)
    PROVE  IInv'
<1>. /\ op \in [Ops -> Requests] /\ registered \in Ops \cup {None} /\ managed \in Ops \cup {None}
     /\ row \in Rows /\ proc \in [Ops -> Procs] /\ type \in Types /\ crashes \in 0 .. MaxCrashes
     /\ \A q \in Ops : op[q].pc = "stopping" => op[q].target # None
  BY DEF IInv, TypeOK
<1>. r.obj \in Ops
  BY DEF Requests
<1>1. PICK pc \in {"preparing", "settling", "done"} : Steps(o, r, pc)
  BY DEF Prepares, Refuses, Starts, Gives
<1>2. /\ row' \in Rows /\ row'.exists = w.exists
      /\ managed' \in Ops \cup {None}
      /\ \/ proc' = ps /\ managed' = m
         \/ managed' = o /\ \E c \in {"live", "failed"} : proc' = [ps EXCEPT ![o] = Fresh(c)]
  BY DEF Prepares, Refuses, Starts, Gives, SameRow
<1>3. proc' \in [Ops -> Procs] /\ \A p \in Ops \ {o} : proc'[p] = ps[p]
  BY <1>2, ConstantFacts DEF Left0
<1>4. TypeOK'
  BY <1>1, <1>2, <1>3, OthersRest DEF TypeOK, Moves, Steps
<1>5. Unspawned'
  <2>1. ASSUME NEW q \in Ops \ {o}, ToStart(q)'
        PROVE  proc'[q] = NoProc
    BY <1>1, <1>3, <2>1 DEF ToStart, Steps, IInv, Unspawned, Left0
  <2>2. ToStart(o)' => proc'[o] = NoProc
    BY <1>1 DEF Prepares, Refuses, Starts, Gives, ToStart, Steps
  <2>. QED
    BY <2>1, <2>2 DEF Unspawned
<1>10. HasObject'
  BY <1>1 DEF HasObject, Starting, Steps, IInv
<1>6. ManagedRan'
  BY <1>2, <1>3, ConstantFacts DEF ManagedRan, IInv, Left0
<1>7. StopIsMarked'
  <2>1. ASSUME NEW q \in Ops, op'[q].pc = "stopping"
        PROVE  proc'[op'[q].target].stopping
    <3>1. q # o /\ op'[q] = op[q]
      BY <1>1, <2>1 DEF Steps
    <3>2. op[q].target \in Ops /\ proc[op[q].target].stopping
      BY <2>1, <3>1 DEF IInv, StopIsMarked, Requests
    <3>3. op[q].target # o
      BY <3>2, ConstantFacts DEF Left0
    <3>. QED
      BY <1>3, <3>1, <3>2, <3>3 DEF Left0
  <2>. QED
    BY <2>1 DEF StopIsMarked
<1>8. ChildFits'
  BY <1>2, <1>3, ConstantFacts DEF ChildFits, Left0
<1>9. ASSUME Calm'
      PROVE  CalmInv'
  <2>1. /\ Calm /\ CalmInv /\ m = None /\ Quiet(ps)
        /\ \A q \in Ops \ {o} : op'[q].pc \in {"new", "done"}
    BY <1>1, <1>9, OthersRest
  <2>2. Alone'
    BY <2>1 DEF Alone, Runs
  <2>3. Kept'
    BY <1>2, <1>3, <2>1, ConstantFacts DEF Kept, Supervised, Quiet, Prepares, Refuses, Starts
  <2>4. ObjectHeld' /\ OwnObject'
    BY <1>1, <1>2, <2>1 DEF ObjectHeld, OwnObject, Starting, Steps, Prepares, Refuses, Starts, Moves
  <2>5. ManagedFits'
    BY <1>1, <2>1, ConstantFacts DEF ManagedFits, Prepares, Refuses, Starts, Steps
  <2>6. StatusFits'
    <3>1. CASE Prepares(o, r, w, m, ps) /\ (Calm => managed = None)
      BY <2>1, <3>1 DEF StatusFits, CalmInv, SameRow, Prepares, Moves
    <3>2. CASE Starts(o, r, w, m, ps)
      BY <2>1, <3>2, ConstantFacts DEF StatusFits, SameRow, Starts, Records, Moves, Steps
    <3>. QED
      BY <2>1, <3>1, <3>2 DEF Refuses
  <2>. QED
    BY <2>2, <2>3, <2>4, <2>5, <2>6 DEF CalmInv
<1>. QED
  BY <1>4, <1>5, <1>6, <1>7, <1>8, <1>9, <1>10 DEF IInv

LEMMA LeaveKeeps ==
    ASSUME IInv, NEW o \in Ops, NEW r \in Requests, NEW w, Moves(o), SameRow(w),
           Leaves(o, r, w), managed' \in {managed, None}, Calm => managed' = None,
           Left0(proc'), Calm => Quiet(proc'), UNCHANGED tokens
    PROVE  IInv'
<1>. /\ op \in [Ops -> Requests] /\ type \in Types /\ crashes \in 0 .. MaxCrashes
     /\ \A q \in Ops : op[q].pc = "stopping" => op[q].target # None
  BY DEF IInv, TypeOK
<1>. Steps(o, r, "done")
  BY DEF Leaves
<1>1. TypeOK'
  BY OthersRest DEF IInv, TypeOK, Moves, Steps, Leaves, Left0
<1>2. Unspawned' /\ HasObject' /\ ChildFits'
  BY DEF Unspawned, HasObject, ChildFits, ToStart, Starting, Left0, Steps, IInv
<1>5. ManagedRan'
  BY DEF ManagedRan, Left0, IInv, TypeOK
<1>3. StopIsMarked'
  BY DEF StopIsMarked, Left0, Steps, IInv, Requests
<1>4. ASSUME Calm'
      PROVE  CalmInv'
  <2>1. /\ Calm /\ CalmInv /\ Quiet(proc') /\ managed' = None
        /\ \A q \in Ops : op'[q].pc \in {"new", "done"}
    BY <1>4, OthersRest DEF Steps
  <2>. QED
    BY <2>1 DEF CalmInv, Alone, Kept, ObjectHeld, OwnObject, Starting, ManagedFits, StatusFits, Runs,
       Supervised, Quiet, Leaves
<1>. QED
  BY <1>1, <1>2, <1>3, <1>4, <1>5 DEF IInv

\* The request that started what is managed has long begun.
LEMMA OldRequest ==
    ASSUME IInv, managed # None
    PROVE  managed \in Ops /\ op[managed].pc # "new"
BY ConstantFacts DEF IInv, TypeOK, Unspawned, ToStart, ManagedRan

LEMMA SignalKeeps ==
    ASSUME IInv, NEW o \in Ops, NEW r \in Requests, NEW w, Moves(o), SameRow(w),
           Signals(o, r, w), managed # None, op[o].pc # "settling", UNCHANGED tokens,
           op[o].pc = "new" \/ r.kind = op[o].kind,
           r.kind = "restart" => ToStart(o) /\ r.obj = registered /\ registered # None
    PROVE  IInv'
<1>. /\ op \in [Ops -> Requests] /\ managed \in Ops /\ type \in Types /\ crashes \in 0 .. MaxCrashes
     /\ \A q \in Ops : op[q].pc = "stopping" => op[q].target # None
  BY DEF IInv, TypeOK
<1>. Steps(o, r, "stopping") /\ op'[o].target = managed
  BY DEF Signals
<1>1. TypeOK'
  BY OthersRest DEF IInv, TypeOK, Moves, Steps, Signals, SameRow
<1>2. Unspawned'
  <2>1. ASSUME NEW q \in Ops, ToStart(q)'
        PROVE  proc'[q] = NoProc
    <3>1. ToStart(q)
      BY <2>1 DEF ToStart, Steps
    <3>2. proc[q] = NoProc /\ q # managed
      BY <3>1, ConstantFacts DEF IInv, Unspawned, ManagedRan
    <3>. QED
      BY <3>2 DEF Signals
  <2>. QED
    BY <2>1 DEF Unspawned
<1>3. HasObject' /\ ManagedRan' /\ ChildFits'
  BY DEF HasObject, ManagedRan, ChildFits, Starting, Signals, Steps, IInv
<1>4. StopIsMarked'
  BY DEF StopIsMarked, Signals, Steps, IInv, Requests
<1>5. ASSUME Calm'
      PROVE  CalmInv'
  <2>1. /\ Calm /\ CalmInv
        /\ \A q \in Ops \ {o} : op[q].pc \in {"new", "done"} /\ op'[q] = op[q]
    BY <1>5, OthersRest
  <2>2. Alone'
    BY <2>1 DEF Alone, Runs
  <2>3. Kept' /\ ObjectHeld'
    BY <2>1 DEF CalmInv, Kept, ObjectHeld, Supervised, Signals, Moves
  <2>4. OwnObject' /\ ManagedFits'
    BY <2>1 DEF OwnObject, Starting, ManagedFits, Signals, Steps
  <2>5. StatusFits'
    <3>1. op'[managed].kind = op[managed].kind
      BY OldRequest DEF Steps
    <3>. QED
      BY <2>1, <3>1 DEF CalmInv, StatusFits, Signals, SameRow, Moves
  <2>. QED
    BY <2>2, <2>3, <2>4, <2>5 DEF CalmInv
<1>. QED
  BY <1>1, <1>2, <1>3, <1>4, <1>5 DEF IInv

\* A request that ends, or waits for its provider, with what it leaves as its status.
LEMMA MoveKeeps ==
    ASSUME IInv, NEW o \in Ops, NEW r \in Requests, Moves(o),
           NEW pc \in {"done", "leaving"}, Steps(o, r, pc), pc = "leaving" => r.kind # "restart",
           UNCHANGED <<registered, managed, proc, tokens>>,
           row' \in Rows, row'.exists = row.exists,
           Calm' /\ row.exists =>
               /\ row'.status = "starting" => managed # None
               /\ row'.status = "stopped" /\ type # "tailscale" =>
                      managed = None \/ op'[managed].kind = "switch"
    PROVE  IInv'
<1>. /\ op \in [Ops -> Requests] /\ type \in Types /\ crashes \in 0 .. MaxCrashes
     /\ \A q \in Ops : op[q].pc = "stopping" => op[q].target # None
  BY DEF IInv, TypeOK
<1>1. TypeOK'
  BY OthersRest DEF IInv, TypeOK, Moves, Steps
<1>2. Unspawned' /\ HasObject' /\ ManagedRan' /\ ChildFits' /\ StopIsMarked'
  BY DEF Unspawned, HasObject, ManagedRan, ChildFits, StopIsMarked, ToStart, Starting, Steps, IInv
<1>3. ASSUME Calm'
      PROVE  CalmInv'
  <2>1. /\ Calm /\ CalmInv
        /\ \A q \in Ops \ {o} : op'[q].pc \in {"new", "done"}
    BY <1>3, OthersRest
  <2>. QED
    BY <1>3, <2>1 DEF CalmInv, Alone, Kept, ObjectHeld, OwnObject, Starting, ManagedFits, StatusFits, Runs,
       Supervised, Steps, Moves
<1>. QED
  BY <1>1, <1>2, <1>3 DEF IInv

------------------------------------------------------------------------------
(* The steps.                                                               *)

LEMMA Leftovers ==
    ASSUME IInv
    PROVE  /\ Left0(proc)
           /\ Calm /\ managed = None => Quiet(proc)
           /\ \A o \in Ops : op[o].pc = "stopping" =>
                 /\ op[o].target \in Ops
                 /\ Left0(Kill(op[o].target))
                 /\ Calm => Quiet(Kill(op[o].target))
<1>1. Left0(proc)
  BY DEF IInv, TypeOK, Left0, ChildFits
<1>2. Calm /\ managed = None => Quiet(proc)
  BY DEF IInv, CalmInv, Kept, Supervised, Quiet, Ops
<1>3. ASSUME NEW o \in Ops, op[o].pc = "stopping"
      PROVE  /\ op[o].target \in Ops
             /\ Left0(Kill(op[o].target))
             /\ Calm => Quiet(Kill(op[o].target))
  <2>. DEFINE t == op[o].target
  <2>1. t \in Ops /\ proc[t].stopping
    BY <1>3 DEF IInv, TypeOK, StopIsMarked, Requests
  <2>. HIDE DEF t
  <2>2. /\ Kill(t) \in [Ops -> Procs]
        /\ \A q \in Ops \ {t} : Kill(t)[q] = proc[q]
        /\ Kill(t)[t].child # "live"
        /\ Kill(t)[t].sup = proc[t].sup /\ Kill(t)[t].stopping = proc[t].stopping
        /\ proc[t].child # "live" => Kill(t)[t].child = proc[t].child
    BY <2>1, KillFacts DEF IInv
  <2>3. Left0(Kill(t))
    <3>1. proc[t] # NoProc
      BY <2>1, ConstantFacts
    <3>2. proc[t].sup \in {"none", "sleeping"} => proc[t].child = "none"
      BY <1>1, <2>1 DEF Left0
    <3>3. Kill(t)[t].sup \in {"none", "sleeping"} => Kill(t)[t].child = "none"
      BY <2>2, <3>2
    <3>. HIDE DEF Kill
    <3>. DEFINE ps == Kill(t)
    <3>4. /\ ps[t].sup = proc[t].sup /\ ps[t].stopping = proc[t].stopping
          /\ ps[t].child # "live"
          /\ ps[t].sup \in {"none", "sleeping"} => ps[t].child = "none"
      BY <2>2, <3>3
    <3>5. ps \in [Ops -> Procs] /\ \A q \in Ops \ {t} : ps[q] = proc[q]
      BY <2>2
    <3>. HIDE DEF ps
    <3>6. Left0(ps)
      BY <1>1, <3>1, <3>4, <3>5 DEF Left0
    <3>. QED
      BY <3>6 DEF ps
  <2>4. Calm => Quiet(Kill(t))
    <3>1. Calm => managed = t
      BY <1>3 DEF IInv, CalmInv, ManagedFits, t
    <3>2. Calm => \A p \in Ops \ {t} : ~Supervised(p) /\ proc[p].child # "live"
      BY <3>1 DEF IInv, CalmInv, Kept
    <3>. QED
      BY <2>1, <2>2, <3>2 DEF Quiet, Supervised
  <2>. QED
    BY <2>1, <2>3, <2>4 DEF t
<1>. QED
  BY <1>1, <1>2, <1>3

\* A request that runs is in its table with its kind.
LEMMA OwnFacts ==
    ASSUME IInv, NEW o \in Ops
    PROVE  /\ op[o] \in Requests /\ row \in Rows /\ SameRow(row)
           /\ managed \in Ops \cup {None} /\ registered \in Ops \cup {None} /\ tokens \subseteq Ops
BY DEF IInv, TypeOK, SameRow

LEMMA PreparedKeeps == ASSUME IInv, NEW o \in Ops, Prepared(o) PROVE IInv'
<1>. DEFINE r == op[o]
<1>. /\ r \in Requests /\ row \in Rows /\ SameRow(row) /\ Moves(o) /\ ToStart(o) /\ Starting(o)
     /\ managed \in Ops \cup {None} /\ registered \in Ops \cup {None} /\ tokens \subseteq Ops
  BY OwnFacts DEF Prepared, Moves, Runs, ToStart, Starting
<1>1. /\ r.obj \in Ops /\ Left0(proc) /\ proc[o] = NoProc
      /\ Calm => managed = None /\ Quiet(proc) /\ registered = r.obj
  BY Leftovers DEF Prepared, IInv, HasObject, Unspawned, CalmInv, OwnObject, ManagedFits, Requests
<1>2. CASE tokens' = tokens \cup {r.obj} /\ Spawn(o, r, row, managed, proc)
  <2>1. Refuses(o, r, row, managed, proc) \/ Starts(o, r, row, managed, proc)
    BY <1>2, SpawnFacts DEF IInv
  <2>2. registered' = registered /\ tokens \subseteq tokens' /\ tokens' \subseteq Ops /\ r.obj \in tokens'
    BY <1>1, <1>2 DEF Prepared
  <2>3. /\ managed \in {managed, None} /\ r.obj # None /\ registered' \in Ops \cup {None}
        /\ Calm => registered' = r.obj
    BY <1>1, <2>2, ConstantFacts
  <2>. QED
    BY <1>1, <2>1, <2>2, <2>3, StartKeeps
<1>3. CASE EndStart(o, r, row, FALSE) /\ UNCHANGED <<tokens, managed, proc>>
  <2>1. /\ Steps(o, r, "done") /\ row' \in Rows /\ row'.exists = row.exists
        /\ row'.status = row.status \/ row'.status = "crashed"
    BY <1>3, EndStartFacts DEF IInv
  <2>2. Calm' /\ row.exists =>
           /\ row'.status = "starting" => managed # None
           /\ row'.status = "stopped" /\ type # "tailscale" => managed = None
    BY <1>1, <2>1 DEF IInv, CalmInv, StatusFits, Calm, Prepared
  <2>. QED
    BY <1>3, <2>1, <2>2, MoveKeeps DEF Prepared
<1>. QED
  BY <1>2, <1>3 DEF Prepared

LEMMA SettledKeeps == ASSUME IInv, NEW o \in Ops, Settled(o) PROVE IInv'
<1>. DEFINE r == op[o]
<1>. r \in Requests /\ row \in Rows /\ Moves(o) /\ op[o].pc = "settling"
  BY OwnFacts DEF Settled, Moves, Runs
<1>1. PICK ok \in BOOLEAN : EndStart(o, r, row, ok) /\ (ok \/ type = "tailscale")
  BY DEF Settled
<1>2. /\ Steps(o, r, "done") /\ row' \in Rows /\ row'.exists = row.exists
      /\ ok /\ row.exists => Records(r, row)
      /\ ~ok => row'.status = row.status \/ row'.status = "crashed"
  BY <1>1, EndStartFacts DEF IInv
<1>3. Calm' => managed = o
  BY DEF IInv, CalmInv, ManagedFits, Calm, Settled
<1>4. Calm' /\ row.exists =>
          /\ row'.status = "starting" => managed # None
          /\ row'.status = "stopped" /\ type # "tailscale" =>
                 managed = None \/ op'[managed].kind = "switch"
  BY <1>1, <1>2, <1>3, ConstantFacts DEF Steps, Records
<1>. QED
  BY <1>1, <1>2, <1>4, MoveKeeps DEF Settled

LEMMA LeftKeeps == ASSUME IInv, NEW o \in Ops, Left(o) PROVE IInv'
<1>. DEFINE r == op[o]
<1>1. r \in Requests /\ row \in Rows /\ SameRow(row) /\ Moves(o) /\ op[o].pc = "leaving"
  BY OwnFacts DEF Left, Moves, Runs
<1>. r.kind # "restart"
  BY <1>1 DEF IInv, HasObject
<1>2. CASE managed = None /\ Leaves(o, r, row) /\ UNCHANGED <<managed, proc>>
  BY <1>1, <1>2, Leftovers, LeaveKeeps DEF Left
<1>3. CASE managed # None /\ Signals(o, r, row)
  BY <1>1, <1>3, SignalKeeps DEF Left
<1>. QED
  BY <1>1, <1>2, <1>3, LeaveFacts DEF Left, IInv

LEMMA StopEndsKeeps == ASSUME IInv, NEW o \in Ops, StopEnds(o) PROVE IInv'
<1>. DEFINE r  == op[o]
            ps == Kill(op[o].target)
<1>1. /\ r \in Requests /\ row \in Rows /\ SameRow(row) /\ Moves(o) /\ op[o].pc = "stopping"
      /\ tokens \subseteq Ops /\ registered \in Ops \cup {None} /\ UNCHANGED tokens
      /\ Left0(ps) /\ (Calm => Quiet(ps))
  BY OwnFacts, Leftovers DEF StopEnds, Moves, Runs
<1>. HIDE DEF ps
<1>2. CASE r.kind = "restart"
  <2>1. StartObject(o, r, row, None, ps) /\ registered' = registered
    BY <1>2 DEF StopEnds, ps
  <2>2. /\ ToStart(o) /\ proc[o] = NoProc /\ ps[o] = NoProc
        /\ r.obj # None /\ r.obj \in Ops
        /\ Calm => r.obj = registered /\ managed # None
    BY <1>1, <1>2 DEF ToStart, Starting, IInv, TypeOK, Unspawned, HasObject, Left0, CalmInv, OwnObject,
       ManagedFits, Requests
  <2>3. \/ Prepares(o, r, row, None, ps)
        \/ /\ type = "cloudflare" => r.obj \in tokens
           /\ Refuses(o, r, row, None, ps) \/ Starts(o, r, row, None, ps)
    BY <1>1, <2>1, StartFacts DEF IInv
  <2>4. Calm => ~Prepares(o, r, row, None, ps)
    BY <2>2 DEF IInv, CalmInv, ObjectHeld, Prepares
  <2>5. None \in {managed, None} /\ registered' \in Ops \cup {None} /\ (Calm => registered' = r.obj)
    BY <1>1, <2>1, <2>2
  <2>. QED
    BY <1>1, <2>2, <2>3, <2>4, <2>5, StartKeeps
<1>3. CASE r.kind # "restart"
  <2>1. Leaves(o, r, row) /\ managed' = None /\ proc' = ps
    BY <1>1, <1>3, EndLeaveFacts DEF StopEnds, IInv, ps
  <2>. QED
    BY <1>1, <2>1, LeaveKeeps
<1>. QED
  BY <1>2, <1>3

\* Children that exit, supervisors that wake, the application that dies.
LEMMA ChildKeeps == ASSUME IInv, NEW p \in Ops, ChildExits(p) \/ Wakes(p) PROVE IInv'
<1>. proc \in [Ops -> Procs] /\ proc[p] \in Procs
  BY DEF IInv, TypeOK
<1>. UNCHANGED <<type, row, registered, tokens, managed, op, crashes, overlap>>
  BY DEF ChildExits, Wakes
<1>1. /\ proc' \in [Ops -> Procs]
      /\ \A q \in Ops \ {p} : proc'[q] = proc[q]
      /\ proc'[p].stopping = proc[p].stopping
      /\ proc[p].sup # "none" /\ proc'[p].sup # "none"
      /\ proc'[p].state = "stopped" => proc'[p].child # "live"
      /\ proc'[p].sup = "sleeping" => proc'[p].child = "none"
      /\ Supervised(p)' \/ proc'[p].child = "live" => Supervised(p) \/ proc[p].child = "live"
  <2>1. CASE ChildExits(p)
    <3>1. proc[p].sup # "none" /\ proc[p].sup # "sleeping"
      BY <2>1 DEF ChildExits, IInv, ChildFits
    <3>. QED
      BY <2>1, <3>1 DEF ChildExits, Procs, Supervised
  <2>2. CASE Wakes(p) /\ proc[p].stopping
    BY <2>2 DEF Wakes, Procs, Supervised, IInv, ChildFits
  <2>3. CASE Wakes(p) /\ ~proc[p].stopping
    <3>1. PICK c \in {"live", "failed"} : proc' = [proc EXCEPT ![p] = Fresh(c)]
      BY <2>3 DEF Wakes
    <3>2. /\ proc' \in [Ops -> Procs] /\ proc'[p] = Fresh(c)
          /\ \A q \in Ops \ {p} : proc'[q] = proc[q]
      BY <3>1, ConstantFacts
    <3>3. /\ proc'[p].stopping = FALSE /\ proc'[p].sup = "waiting" /\ proc'[p].state = "running"
          /\ proc[p].stopping = FALSE /\ proc[p].sup = "sleeping"
      BY <2>3, <3>2 DEF Wakes, Fresh, Procs
    <3>. QED
      BY <3>2, <3>3 DEF Supervised
  <2>. QED
    BY <2>1, <2>2, <2>3
<1>2. TypeOK'
  BY <1>1 DEF IInv, TypeOK
<1>3. Unspawned' /\ HasObject' /\ ManagedRan' /\ ChildFits'
  BY <1>1, ConstantFacts DEF IInv, TypeOK, Unspawned, HasObject, ManagedRan, ChildFits, ToStart, Starting
<1>5. StopIsMarked'
  BY <1>1 DEF IInv, TypeOK, StopIsMarked, Requests
<1>4. Calm' => CalmInv'
  BY <1>1 DEF IInv, Calm, CalmInv, Alone, Runs, Kept, Supervised, ObjectHeld, OwnObject, Starting,
     ManagedFits, StatusFits
<1>. QED
  BY <1>2, <1>3, <1>4, <1>5 DEF IInv

LEMMA CrashKeeps == ASSUME IInv, Crash PROVE IInv'
<1>. /\ proc \in [Ops -> Procs] /\ op \in [Ops -> Requests] /\ type \in Types /\ crashes \in 0 .. MaxCrashes
     /\ \A q \in Ops : op[q].pc = "stopping" => op[q].target # None
  BY DEF IInv, TypeOK
<1>1. /\ op' \in [Ops -> Requests]
      /\ \A o \in Ops : op'[o].pc \in {"new", "done"} /\ (op'[o].pc = "new" => op'[o] = op[o])
  BY DEF Crash, Runs, Requests
<1>2. /\ proc' \in [Ops -> Procs]
      /\ \A p \in Ops : /\ proc[p].sup = "none" => proc'[p] = proc[p]
                        /\ proc'[p].state = proc[p].state /\ proc'[p].child = proc[p].child
                        /\ proc'[p].sup \in {"none", "done"}
                        /\ proc'[p].sup = "none" => proc[p].sup = "none"
  BY DEF Crash, Procs
<1>3. TypeOK'
  BY <1>1, <1>2 DEF Crash, IInv, TypeOK
<1>4. Unspawned'
  BY <1>1, <1>2, ConstantFacts DEF IInv, Unspawned, ToStart
<1>5. HasObject' /\ ManagedRan' /\ StopIsMarked' /\ ChildFits'
  BY <1>1, <1>2 DEF Crash, IInv, HasObject, Starting, ManagedRan, StopIsMarked, ChildFits
<1>6. ~Calm'
  BY DEF Crash, Calm
<1>. QED
  BY <1>3, <1>4, <1>5, <1>6 DEF IInv

\* Requests as they arrive.
LEMMA StartNewKeeps ==
    ASSUME IInv, NEW o \in Ops, NEW r \in Requests, NEW w, Moves(o), op[o].pc = "new", SameRow(w),
           StartNew(o, r, w), UNCHANGED tokens
    PROVE  IInv'
<1>. DEFINE own == [r EXCEPT !.obj = o]
<1>1. own \in Requests /\ own.obj = o /\ o # None /\ registered' = o /\ StartObject(o, own, w, managed, proc)
  BY ConstantFacts DEF Requests, StartNew
<1>2. /\ ToStart(o) /\ proc[o] = NoProc /\ Left0(proc)
      /\ Calm => managed = None /\ Quiet(proc)
      /\ managed \in {managed, None} /\ managed \in Ops \cup {None} /\ tokens \subseteq Ops
  BY OwnFacts, Leftovers DEF ToStart, IInv, Unspawned, CalmInv, ObjectHeld, StartNew
<1>. HIDE DEF own
<1>3. \/ Prepares(o, own, w, managed, proc)
      \/ /\ type = "cloudflare" => own.obj \in tokens
         /\ Refuses(o, own, w, managed, proc) \/ Starts(o, own, w, managed, proc)
  BY <1>1, <1>2, StartFacts DEF IInv, SameRow
<1>. QED
  BY <1>1, <1>2, <1>3, StartKeeps

LEMMA AlreadyKeeps ==
    ASSUME IInv, NEW o \in Ops, NEW r \in Requests, NEW w, Moves(o), op[o].pc = "new", SameRow(w),
           Already(o, r, w) \/ (Goes(o, r, "leaving") /\ row' = w /\ UNCHANGED <<registered, managed, proc>>),
           r.kind # "restart", UNCHANGED tokens
    PROVE  IInv'
<1>1. PICK pc \in {"done", "leaving"} : Steps(o, r, pc)
  BY GoesFacts DEF Already, IInv
<1>2. row' \in Rows /\ row'.exists = row.exists /\ row'.status = row.status
      /\ UNCHANGED <<registered, managed, proc>>
  BY DEF Already, SameRow
<1>3. Calm' /\ row.exists =>
          /\ row.status = "starting" => managed # None
          /\ row.status = "stopped" /\ type # "tailscale" =>
                 managed = None \/ op'[managed].kind = "switch"
  <2>1. Calm' => CalmInv /\ \A q \in Ops : op[q].pc # "settling"
    BY <1>1, OthersRest
  <2>2. managed # None => op'[managed] = op[managed]
    BY <1>1, OldRequest DEF Steps
  <2>. QED
    BY <2>1, <2>2 DEF CalmInv, StatusFits
<1>. QED
  BY <1>1, <1>2, <1>3, MoveKeeps
LEMMA RequestKeeps == ASSUME IInv, NEW o \in Ops, NEW kind \in Kinds, Request(o, kind) PROVE IInv'
<1>. DEFINE r == [NoOp EXCEPT !.kind = kind]
<1>1. /\ r \in Requests /\ r.kind = kind
      /\ Moves(o) /\ op[o].pc = "new" /\ ToStart(o) /\ tokens' = tokens
  BY DEF Request, NoOp, Requests, Moves, ToStart
<1>2. /\ row \in Rows /\ SameRow(row)
      /\ managed \in Ops \cup {None} /\ registered \in Ops \cup {None} /\ tokens \subseteq Ops
      /\ Left0(proc) /\ (Calm /\ managed = None => Quiet(proc)) /\ proc[o] = NoProc
  BY <1>1, OwnFacts, Leftovers DEF IInv, Unspawned
<1>3. ASSUME NEW b \in BOOLEAN
      PROVE  SameRow([row EXCEPT !.enabled = b])
  BY <1>2 DEF SameRow, Rows
<1>4. \/ kind = "enable"  /\ Enable(o, r)
      \/ kind = "disable" /\ Disable(o, r)
      \/ kind = "restart" /\ Restart(o, r)
      \/ kind = "delete"  /\ Delete(o, r)
      \/ kind \in {"expose", "switch"} /\ Expose(o, r)
  BY DEF Request
<1>. HIDE DEF r
<1>5. CASE kind \in {"enable", "expose", "switch"}
  <2>1. PICK w : SameRow(w) /\ (StartNew(o, r, w) \/ Already(o, r, w))
    BY <1>2, <1>3, <1>4, <1>5 DEF Enable, Expose
  <2>. QED
    BY <1>1, <1>5, <2>1, StartNewKeeps, AlreadyKeeps
<1>6. CASE kind = "disable" \/ kind = "delete"
  <2>1. PICK w : SameRow(w) /\ StopProvider(o, r, w)
    BY <1>2, <1>3, <1>4, <1>6 DEF Disable, Delete
  <2>. w \in Rows
    BY <2>1 DEF SameRow
  <2>2. CASE registered = None
    <3>1. Leaves(o, r, w) /\ UNCHANGED <<managed, proc>>
      BY <1>1, <2>1, <2>2, EndLeaveFacts DEF StopProvider, IInv
    <3>2. Calm => managed = None
      BY <2>2 DEF IInv, CalmInv, ObjectHeld
    <3>. QED
      BY <1>1, <1>2, <2>1, <3>1, <3>2, LeaveKeeps
  <2>3. CASE registered # None /\ type = "cloudflare"
    <3>1. Leave(o, r, w)
      BY <2>1, <2>3 DEF StopProvider
    <3>2. CASE managed = None /\ Leaves(o, r, w) /\ UNCHANGED <<managed, proc>>
      BY <1>1, <1>2, <2>1, <3>2, LeaveKeeps
    <3>3. CASE managed # None /\ Signals(o, r, w)
      BY <1>1, <1>6, <2>1, <3>3, SignalKeeps
    <3>. QED
      BY <1>1, <3>1, <3>2, <3>3, LeaveFacts DEF IInv
  <2>4. CASE registered # None /\ type # "cloudflare"
    <3>1. Goes(o, r, "leaving") /\ row' = w /\ UNCHANGED <<registered, managed, proc>>
      BY <2>1, <2>4 DEF StopProvider
    <3>. QED
      BY <1>1, <1>6, <2>1, <3>1, AlreadyKeeps
  <2>. QED
    BY <2>2, <2>3, <2>4
<1>7. CASE kind = "restart"
  <2>1. CASE StartNew(o, r, row)
    BY <1>1, <1>2, <2>1, StartNewKeeps
  <2>2. CASE registered # None
    <3>. DEFINE own == [r EXCEPT !.obj = registered]
    <3>1. own \in Requests /\ own.obj = registered /\ own.kind = "restart" /\ registered \in Ops
      BY <1>1, <1>2, <1>7, <2>2 DEF Requests
    <3>2. IF managed = None
          THEN StartObject(o, own, row, managed, proc) /\ UNCHANGED registered
          ELSE Signal(o, own, row)
      BY <1>4, <1>7, <2>2 DEF Restart, StartNew
    <3>. HIDE DEF own
    <3>3. CASE managed = None
      <4>1. \/ Prepares(o, own, row, managed, proc)
            \/ /\ type = "cloudflare" => own.obj \in tokens
               /\ Refuses(o, own, row, managed, proc) \/ Starts(o, own, row, managed, proc)
        BY <1>2, <3>1, <3>2, <3>3, StartFacts DEF IInv
      <4>2. registered' = registered
        BY <3>2, <3>3
      <4>. QED
        BY <1>1, <1>2, <2>2, <3>1, <3>3, <4>1, <4>2, StartKeeps
    <3>4. CASE managed # None
      <4>1. Signals(o, own, row)
        BY <1>2, <3>1, <3>2, <3>4, SignalFacts DEF IInv
      <4>. QED
        BY <1>1, <1>2, <2>2, <3>1, <3>4, <4>1, SignalKeeps
    <3>. QED
      BY <3>3, <3>4
  <2>. QED
    BY <1>4, <1>7, <2>1, <2>2 DEF Restart
<1>. QED
  BY <1>5, <1>6, <1>7 DEF Kinds

------------------------------------------------------------------------------
(* The theorems.                                                            *)

LEMMA InitIInv == Init => IInv
<1>. SUFFICES ASSUME Init PROVE IInv
  OBVIOUS
<1>1. TypeOK
  <2>1. proc \in [Ops -> Procs] /\ 0 \in 0 .. MaxCrashes
    BY ConstantFacts DEF Init
  <2>2. op \in [Ops -> Requests] /\ \A o \in Ops : op[o].pc = "new"
    BY DEF Init, NoOp, Requests
  <2>. QED
    BY <2>1, <2>2 DEF Init, TypeOK, Rows
<1>2. Unspawned /\ HasObject /\ ManagedRan /\ StopIsMarked /\ ChildFits
  BY ConstantFacts DEF Init, NoOp, Unspawned, HasObject, Starting, ManagedRan, StopIsMarked, ChildFits
<1>3. CalmInv
  BY ConstantFacts DEF Init, NoOp, CalmInv, Alone, Runs, Kept, Supervised, ObjectHeld, OwnObject, Starting,
     ManagedFits, StatusFits
<1>. QED
  BY <1>1, <1>2, <1>3 DEF IInv

LEMMA NextIInv == IInv /\ [Next]_vars => IInv'
<1>. SUFFICES ASSUME IInv, [Next]_vars PROVE IInv'
  OBVIOUS
<1>1. ASSUME NEW o \in Ops, NEW kind \in Kinds, Request(o, kind) PROVE IInv'
  BY <1>1, RequestKeeps
<1>2. ASSUME NEW o \in Ops, Prepared(o) PROVE IInv'
  BY <1>2, PreparedKeeps
<1>3. ASSUME NEW o \in Ops, Settled(o) PROVE IInv'
  BY <1>3, SettledKeeps
<1>4. ASSUME NEW o \in Ops, Left(o) PROVE IInv'
  BY <1>4, LeftKeeps
<1>5. ASSUME NEW o \in Ops, StopEnds(o) PROVE IInv'
  BY <1>5, StopEndsKeeps
<1>6. ASSUME NEW p \in Ops, ChildExits(p) \/ Wakes(p) PROVE IInv'
  BY <1>6, ChildKeeps
<1>7. CASE Crash
  BY <1>7, CrashKeeps
<1>8. CASE UNCHANGED vars
  BY <1>8 DEF vars, IInv, TypeOK, Unspawned, HasObject, ManagedRan, StopIsMarked, ChildFits, ToStart, Starting,
     Calm, CalmInv, Alone, Runs, Kept, Supervised, ObjectHeld, OwnObject, ManagedFits, StatusFits
<1>. QED
  BY <1>1, <1>2, <1>3, <1>4, <1>5, <1>6, <1>7, <1>8 DEF Next

LEMMA Inductive == Spec => []IInv
BY InitIInv, NextIInv, PTL DEF Spec

\* Every reachable state is of the right form, whatever the number of
\* requests and crashes of the application.
THEOREM TypeCorrect == Spec => []TypeOK
<1>1. IInv => TypeOK
  BY DEF IInv
<1>. QED
  BY <1>1, Inductive, PTL

\* While requests come one at a time, what the next stop or restart finds in
\* ProcessManager.processes is all that runs (process-manager.ts, manager.ts).
THEOREM SidecarsStayManaged == Spec => []SidecarsAreManaged
<1>1. IInv => SidecarsAreManaged
  BY DEF IInv, Calm, CalmInv, Kept, SidecarsAreManaged, NoOrphan, OneSidecar
<1>. QED
  BY <1>1, Inductive, PTL

\* What `process_status` says once the requests are done.
THEOREM StatusIsRight == Spec => []StatusIsTrue
<1>1. IInv => StatusIsTrue
  BY DEF IInv, Calm, CalmInv, StatusFits, StatusIsTrue, Idle, Runs
<1>. QED
  BY <1>1, Inductive, PTL

\* Whatever overlaps: a process that is being stopped starts no child.
LEMMA NoNewChild ==
    ASSUME IInv, [Next]_vars, NEW p \in Ops, proc[p].stopping, proc[p].child # "live"
    PROVE  proc'[p].child # "live"
<1>. /\ TypeOK /\ ChildFits /\ Unspawned /\ proc \in [Ops -> Procs]
     /\ managed \in Ops \cup {None} /\ registered \in Ops \cup {None}
     /\ row \in Rows /\ op \in [Ops -> Requests]
  BY DEF IInv, TypeOK
\* A request starts its own process only, which is not being stopped.
<1>1. ASSUME NEW o \in Ops, proc[o] = NoProc, NEW ps, Left0(ps), ps[p].child # "live",
             proc' = ps \/ \E c \in {"live", "failed"} : proc' = [ps EXCEPT ![o] = Fresh(c)]
      PROVE  proc'[p].child # "live"
  BY <1>1, ConstantFacts DEF Left0
<1>2. ASSUME NEW o \in Ops, proc[o] = NoProc, NEW r, NEW w, NEW m, NEW ps, Left0(ps), ps[p].child # "live",
             StartObject(o, r, w, m, ps) \/ Spawn(o, r, w, m, ps)
      PROVE  proc'[p].child # "live"
  BY <1>1, <1>2 DEF StartObject, Spawn
<1>3. ASSUME NEW o, NEW r, NEW w, managed # None, Signal(o, r, w)
      PROVE  proc'[p].child # "live"
  BY <1>3 DEF Signal, Procs
<1>4. ASSUME NEW o, NEW r, NEW w, Leave(o, r, w)
      PROVE  proc'[p].child # "live"
  BY <1>3, <1>4 DEF Leave
<1>5. Left0(proc)
  BY Leftovers
<1>6. ASSUME NEW o \in Ops, NEW kind \in Kinds, Request(o, kind)
      PROVE  proc'[p].child # "live"
  <2>. DEFINE r == [NoOp EXCEPT !.kind = kind]
  <2>1. proc[o] = NoProc
    BY <1>6 DEF Unspawned, ToStart, Request
  <2>2. ASSUME NEW w, StartNew(o, r, w)
        PROVE  proc'[p].child # "live"
    BY <1>2, <1>5, <2>1, <2>2 DEF StartNew
  <2>3. ASSUME NEW w, Already(o, r, w)
        PROVE  proc'[p].child # "live"
    BY <2>3 DEF Already
  <2>4. ASSUME NEW w, StopProvider(o, r, w)
        PROVE  proc'[p].child # "live"
    BY <1>4, <2>4 DEF StopProvider
  <2>5. ASSUME Restart(o, r)
        PROVE  proc'[p].child # "live"
    BY <1>2, <1>3, <1>5, <2>1, <2>2, <2>5 DEF Restart
  <2>. HIDE DEF r
  <2>6. \/ kind = "enable"  /\ Enable(o, r)
        \/ kind = "disable" /\ Disable(o, r)
        \/ kind = "restart" /\ Restart(o, r)
        \/ kind = "delete"  /\ Delete(o, r)
        \/ kind \in {"expose", "switch"} /\ Expose(o, r)
    BY <1>6 DEF Request, r
  <2>. QED
    BY <2>2, <2>3, <2>4, <2>5, <2>6 DEF Enable, Disable, Delete, Expose
<1>7. ASSUME NEW o \in Ops, Prepared(o)
      PROVE  proc'[p].child # "live"
  <2>1. proc[o] = NoProc
    BY <1>7 DEF Unspawned, ToStart, Prepared
  <2>. QED
    BY <1>2, <1>5, <1>7, <2>1 DEF Prepared
<1>8. ASSUME NEW o \in Ops, StopEnds(o)
      PROVE  proc'[p].child # "live"
  <2>. DEFINE ps == Kill(op[o].target)
  <2>1. op[o].target \in Ops /\ Left0(ps)
    BY <1>8, Leftovers DEF StopEnds
  <2>2. ps[p].child # "live"
    BY <2>1, KillFacts
  <2>. HIDE DEF ps
  <2>3. CASE op[o].kind = "restart"
    <3>1. proc[o] = NoProc
      BY <1>8, <2>3 DEF Unspawned, ToStart, StopEnds
    <3>2. StartObject(o, op[o], row, None, ps)
      BY <1>8, <2>3 DEF StopEnds, ps
    <3>. QED
      BY <1>2, <2>1, <2>2, <3>1, <3>2
  <2>4. CASE op[o].kind # "restart"
    BY <1>8, <2>2, <2>4 DEF StopEnds, ps
  <2>. QED
    BY <2>3, <2>4
<1>9. ASSUME NEW o \in Ops, Settled(o) \/ Left(o)
      PROVE  proc'[p].child # "live"
  BY <1>4, <1>9 DEF Settled, Left
<1>10. ASSUME NEW q \in Ops, ChildExits(q)
       PROVE  proc'[p].child # "live"
  BY <1>10 DEF ChildExits, Procs
<1>11. ASSUME NEW q \in Ops, Wakes(q)
       PROVE  proc'[p].child # "live"
  BY <1>11 DEF Wakes, Procs
<1>12. CASE Crash
  BY <1>12 DEF Crash, Procs
<1>13. CASE UNCHANGED vars
  BY <1>13 DEF vars
<1>. QED
  BY <1>6, <1>7, <1>8, <1>9, <1>10, <1>11, <1>12, <1>13 DEF Next

\* A stop is final (process-manager.ts): neither the end of the backoff nor a
\* request that overlaps starts the child of a process that is being stopped.
THEOREM StoppingIsFinal == Spec => NoStartWhileStopping
<1>1. IInv /\ [Next]_vars =>
         [\A p \in Ops : proc[p].stopping /\ proc[p].child # "live" => proc'[p].child # "live"]_vars
  BY NoNewChild
<1>. QED
  BY <1>1, Inductive, PTL DEF Spec, NoStartWhileStopping

------------------------------------------------------------------------------
(* Docker networks: what a sync may leave.                                  *)
CONSTANTS Nets, Edge, Syncs, MaxEvents
VARIABLES skipped, exists, others, attached, enabled, leaveEmpty, excluded,
          rows, service, identified, syncs, events

Networks == INSTANCE DockerNetworks

(****************************************************************************)
(* What a sync knows of the networks, and what it may leave: if it is told  *)
(* to leave any, those excluded when it began and those it never joins.     *)
(****************************************************************************)
SyncStates ==
    [step : {"idle", "list", "inspect", "act"}, excluded : SUBSET Nets, leaveEmpty : BOOLEAN,
     listed : SUBSET Nets, seen : [Nets -> [read : BOOLEAN, others : BOOLEAN, self : BOOLEAN]],
     join : SUBSET Nets, leave : SUBSET Nets]

LeavesFit(r) == r.leave \subseteq skipped \cup r.excluded /\ (r.leave # {} => r.leaveEmpty)

SyncsInv ==
    /\ excluded \subseteq Nets /\ exists \subseteq Nets /\ leaveEmpty \in BOOLEAN
    /\ syncs \in [Syncs -> SyncStates]
    /\ \A s \in Syncs : LeavesFit(syncs[s])

\* A sync that begins has nothing to leave.
LEMMA FreshSyncs ==
    ASSUME NEW names \in SUBSET Nets, excluded \subseteq Nets, leaveEmpty \in BOOLEAN
    PROVE  \A r \in {Networks!Idle, Networks!Loaded, [Networks!Loaded EXCEPT !.excluded = names]} :
              r \in SyncStates /\ r.leave = {}
<1>. DEFINE unseen == [n \in Nets |-> Networks!Unseen]
<1>1. unseen \in [Nets -> [read : BOOLEAN, others : BOOLEAN, self : BOOLEAN]]
  BY DEF Networks!Unseen
<1>. HIDE DEF unseen
<1>2. Networks!Idle = [step |-> "idle", excluded |-> {}, leaveEmpty |-> FALSE, listed |-> {},
                       seen |-> unseen, join |-> {}, leave |-> {}]
  BY DEF Networks!Idle, unseen
<1>3. Networks!Idle \in SyncStates /\ Networks!Idle.leave = {}
  BY <1>1, <1>2 DEF SyncStates
<1>4. Networks!Loaded \in SyncStates /\ Networks!Loaded.leave = {}
  BY <1>3 DEF Networks!Loaded, SyncStates
<1>5. /\ [Networks!Loaded EXCEPT !.excluded = names] \in SyncStates
      /\ [Networks!Loaded EXCEPT !.excluded = names].leave = {}
  BY <1>4 DEF SyncStates
<1>. QED
  BY <1>3, <1>4, <1>5

\* One sync begins or goes on.
LEMMA OneSync ==
    ASSUME SyncsInv, NEW s \in Syncs, NEW r \in SyncStates, LeavesFit(r),
           syncs' = [syncs EXCEPT ![s] = r], skipped' = skipped,
           excluded' \subseteq Nets, exists' \subseteq Nets, leaveEmpty' \in BOOLEAN
    PROVE  SyncsInv'
BY DEF SyncsInv, LeavesFit

\* What a sync plans to leave it has seen itself in, and would not join.
LEMMA PlannedLeaves ==
    ASSUME NEW r \in SyncStates
    PROVE  Networks!Planned(r) \in SyncStates /\ LeavesFit(Networks!Planned(r))
<1>1. /\ Networks!Relevant(r) \subseteq Nets /\ Networks!Joined(r) \subseteq Nets
      /\ Networks!Joined(r) \ Networks!Relevant(r) \subseteq skipped \cup r.excluded
  BY DEF Networks!Relevant, Networks!Joined, SyncStates
<1>. QED
  BY <1>1 DEF Networks!Planned, SyncStates, LeavesFit

\* Whether the sync goes on or writes the rows and ends.
LEMMA ProceedKeeps ==
    ASSUME SyncsInv, NEW s \in Syncs, NEW r \in SyncStates, LeavesFit(r),
           Networks!Proceed(s, r),
           UNCHANGED <<skipped, excluded, exists, leaveEmpty>>
    PROVE  SyncsInv'
<1>1. Networks!Idle \in SyncStates /\ LeavesFit(Networks!Idle)
  BY FreshSyncs DEF SyncsInv, LeavesFit
<1>2. syncs' = [syncs EXCEPT ![s] = r] \/ syncs' = [syncs EXCEPT ![s] = Networks!Idle]
  BY DEF Networks!Proceed
<1>. QED
  BY <1>1, <1>2, OneSync DEF SyncsInv

LEMMA NetworksStep ==
    ASSUME Edge \in Nets, SyncsInv, [Networks!Next]_Networks!vars
    PROVE  SyncsInv'
<1>. excluded \subseteq Nets /\ exists \subseteq Nets /\ leaveEmpty \in BOOLEAN
  BY DEF SyncsInv
<1>1. ASSUME NEW s \in Syncs PROVE syncs[s] \in SyncStates /\ LeavesFit(syncs[s])
  BY <1>1 DEF SyncsInv
<1>2. \A r \in {Networks!Idle, Networks!Loaded} :
         r \in SyncStates /\ r.leave = {} /\ LeavesFit(r)
  BY FreshSyncs DEF LeavesFit
<1>3. ASSUME NEW s \in Syncs, Networks!Tick(s) PROVE SyncsInv'
  BY <1>2, <1>3, OneSync DEF Networks!Tick, Networks!Begin, Networks!docker, Networks!settings
<1>4. ASSUME NEW s \in Syncs, Networks!List(s) PROVE SyncsInv'
  <2>. DEFINE r == [syncs[s] EXCEPT !.step = "inspect", !.listed = exists]
  <2>1. r \in SyncStates /\ LeavesFit(r)
    BY <1>1 DEF SyncStates, LeavesFit
  <2>2. syncs' = [syncs EXCEPT ![s] = r] \/ syncs' = [syncs EXCEPT ![s] = Networks!Idle]
    BY <1>4 DEF Networks!List, SyncsInv
  <2>. HIDE DEF r
  <2>. QED
    BY <1>2, <1>4, <2>1, <2>2, OneSync DEF Networks!List, Networks!docker, Networks!settings
<1>5. ASSUME NEW s \in Syncs, NEW n \in Nets, Networks!Inspect(s, n) PROVE SyncsInv'
  <2>1. PICK answer \in BOOLEAN :
           LET there == answer /\ n \in exists
               r == [syncs[s] EXCEPT !.seen[n] = [read |-> TRUE, others |-> there /\ n \in others,
                                                  self |-> there /\ n \in attached]]
           IN  Networks!Proceed(s, IF \A m \in r.listed : r.seen[m].read THEN Networks!Planned(r) ELSE r)
    BY <1>5 DEF Networks!Inspect
  <2>. DEFINE there == answer /\ n \in exists
              entry == [read |-> TRUE, others |-> there /\ n \in others, self |-> there /\ n \in attached]
              r == [syncs[s] EXCEPT !.seen[n] = entry]
  <2>2. entry \in [read : BOOLEAN, others : BOOLEAN, self : BOOLEAN]
    OBVIOUS
  <2>. HIDE DEF entry
  <2>3. r \in SyncStates /\ LeavesFit(r)
    BY <1>1, <2>2 DEF SyncStates, LeavesFit
  <2>4. Networks!Proceed(s, Networks!Planned(r)) \/ Networks!Proceed(s, r)
    BY <2>1 DEF entry
  <2>. HIDE DEF r
  <2>. QED
    BY <1>5, <2>3, <2>4, PlannedLeaves, ProceedKeeps
       DEF Networks!Inspect, Networks!docker, Networks!settings
<1>6. ASSUME NEW s \in Syncs, NEW n \in Nets, Networks!Join(s, n) \/ Networks!Leave(s, n) PROVE SyncsInv'
  <2>. DEFINE joined == [syncs[s] EXCEPT !.join = @ \ {n}]
              left   == [syncs[s] EXCEPT !.leave = @ \ {n}]
  <2>1. \A r \in {joined, left} : r \in SyncStates /\ LeavesFit(r)
    BY <1>1 DEF SyncStates, LeavesFit
  <2>2. Networks!Proceed(s, joined) \/ Networks!Proceed(s, left)
    BY <1>6 DEF Networks!Join, Networks!Leave
  <2>. HIDE DEF joined, left
  <2>. QED
    BY <1>6, <2>1, <2>2, ProceedKeeps DEF Networks!Join, Networks!Leave, Networks!settings
<1>7. CASE Networks!EnsureHomelabEdge
  <2>1. exists' \subseteq Nets /\ UNCHANGED <<skipped, excluded, leaveEmpty>>
    BY <1>7 DEF Networks!EnsureHomelabEdge, Networks!settings
  <2>2. CASE UNCHANGED syncs
    BY <2>1, <2>2 DEF SyncsInv, LeavesFit
  <2>3. CASE \E s \in Syncs : Networks!Begin(s)
    BY <1>2, <2>1, <2>3, OneSync DEF Networks!Begin
  <2>. QED
    BY <1>7, <2>2, <2>3 DEF Networks!EnsureHomelabEdge
<1>8. CASE Networks!Restart
  BY <1>2, <1>8 DEF Networks!Restart, Networks!docker, Networks!settings, SyncsInv, LeavesFit
<1>9. ASSUME NEW names \in SUBSET Nets, Networks!SetExcluded(names) PROVE SyncsInv'
  <2>1. UNCHANGED <<skipped, exists, leaveEmpty>> /\ excluded' \subseteq Nets
    BY <1>9 DEF Networks!SetExcluded, Networks!docker
  <2>2. CASE UNCHANGED syncs
    BY <2>1, <2>2 DEF SyncsInv, LeavesFit
  <2>3. CASE \E s \in Syncs : syncs' = [syncs EXCEPT ![s] = [Networks!Loaded EXCEPT !.excluded = names]]
    <3>1. /\ [Networks!Loaded EXCEPT !.excluded = names] \in SyncStates
          /\ LeavesFit([Networks!Loaded EXCEPT !.excluded = names])
      BY FreshSyncs DEF LeavesFit
    <3>. QED
      BY <2>1, <2>3, <3>1, OneSync
  <2>. QED
    BY <1>9, <2>2, <2>3 DEF Networks!SetExcluded
<1>10. CASE Networks!Start \/ Networks!Identify \/ Networks!UpdateSettings
  BY <1>10 DEF Networks!Start, Networks!Identify, Networks!UpdateSettings, Networks!docker,
     Networks!settings, SyncsInv, LeavesFit
<1>11. ASSUME NEW n \in Nets, Networks!ContainersStart(n) \/ Networks!ContainersStop(n)
       PROVE  SyncsInv'
  BY <1>11 DEF Networks!ContainersStart, Networks!ContainersStop, Networks!settings,
     SyncsInv, LeavesFit
<1>12. CASE UNCHANGED Networks!vars
  BY <1>12 DEF Networks!vars, Networks!docker, Networks!settings, SyncsInv, LeavesFit
<1>13. ASSUME NEW n \in Nets, Networks!Exclude(n) \/ Networks!Include(n) PROVE SyncsInv'
  BY <1>9, <1>13 DEF Networks!Exclude, Networks!Include
<1>. QED
  BY <1>3, <1>4, <1>5, <1>6, <1>7, <1>8, <1>10, <1>11, <1>12, <1>13
     DEF Networks!Next, Networks!Step

(* ProxyOS leaves a network in which containers run only if it was told to  *)
(* leave networks, and this one was excluded when the sync began or is of   *)
(* the kinds that are never joined, with any networks, syncs and failures   *)
(* (syncOnce, filterRelevant).                                              *)
THEOREM NetworksAreLeftRightly ==
    ASSUME Edge \in Nets
    PROVE  Networks!Spec => Networks!LeavesKnowingly
<1>. DEFINE Known(n) == \E s \in Syncs : /\ n \in syncs[s].leave /\ syncs[s].leaveEmpty
                                         /\ n \in syncs[s].excluded \cup skipped
<1>1. Networks!Init => SyncsInv
  <2>. SUFFICES ASSUME Networks!Init PROVE SyncsInv
    OBVIOUS
  <2>1. Networks!Idle \in SyncStates /\ LeavesFit(Networks!Idle)
    BY FreshSyncs DEF Networks!Init, LeavesFit
  <2>. QED
    BY <2>1 DEF Networks!Init, SyncsInv
<1>2. SyncsInv /\ [Networks!Next]_Networks!vars => SyncsInv'
  BY NetworksStep
<1>3. ASSUME SyncsInv, [Networks!Next]_Networks!vars,
             NEW n \in (attached \ attached') \cap others
      PROVE  Known(n)
  <2>1. PICK s \in Syncs, m \in Nets : Networks!Join(s, m) \/ Networks!Leave(s, m)
    BY <1>3 DEF Networks!Next, Networks!Step, Networks!Tick, Networks!Start, Networks!Identify,
       Networks!EnsureHomelabEdge, Networks!Restart, Networks!UpdateSettings, Networks!Exclude,
       Networks!Include, Networks!SetExcluded, Networks!ContainersStart, Networks!ContainersStop,
       Networks!List, Networks!Inspect, Networks!docker, Networks!vars
  <2>2. n = m /\ n \in syncs[s].leave
    BY <1>3, <2>1 DEF Networks!Join, Networks!Leave, Networks!Request
  <2>. QED
    BY <1>3, <2>2 DEF SyncsInv, LeavesFit
<1>. HIDE DEF Known
<1>4. SyncsInv /\ [Networks!Next]_Networks!vars =>
         [\A n \in (attached \ attached') \cap others : Known(n)]_Networks!vars
  BY <1>3
<1>. QED
  BY <1>1, <1>2, <1>4, PTL DEF Networks!Spec, Networks!LeavesKnowingly, Known

------------------------------------------------------------------------------
CONSTANT Sources
VARIABLES source, pos, kind, parent, nest, phase, stack, headers, transport, output,
          proxied, noted, warned

Converter == INSTANCE NginxConverter

\* How deep a place is, and whether it comes after a word.
DepthAt(p)   == Converter!Depth(p)
AfterWord(p) == Converter!AfterWord(p)

(****************************************************************************)
(* What the parser has read so far could be the begin of a source that is   *)
(* well-formed, it is in as many blocks as are open there, and it waits for *)
(* arguments just after a word.                                             *)
(****************************************************************************)
ReadRight ==
    /\ \A p \in 1 .. pos - 1 : source[p] \in {Converter!Semicolon, Converter!Open} => AfterWord(p)
    /\ \A p \in 1 .. pos - 1 : source[p] = Converter!Close => DepthAt(p) > 0 /\ ~AfterWord(p)

ParserInv ==
    /\ source \in Seq(Converter!Tokens) /\ pos \in 1 .. Len(source) + 1
    /\ phase \in {"item", "args", "error", "walk", "done"}
    /\ kind \in Seq(Converter!Words) /\ nest \in Seq(Nat) /\ Len(nest) = DepthAt(pos)
    /\ phase \in {"item", "args"} =>
          ReadRight /\ (phase = "args" <=> AfterWord(pos))
    /\ Converter!JustWellFormed

\* No token is of two sorts, and none is the end.
LEMMA TokensDiffer ==
    /\ Converter!Open # Converter!Close
    /\ Converter!Semicolon \notin {Converter!Open, Converter!Close}
    /\ Converter!Words \cap {Converter!Semicolon, Converter!Open, Converter!Close, "eof"} = {}
    /\ "eof" \notin Converter!Tokens
BY Zenon DEF Converter!Open, Converter!Close, Converter!Semicolon, Converter!Words, Converter!Tokens,
   Converter!Modifiers, Converter!Transport, Converter!Blocks

\* The converter's count is that of the library.
LEMMA SameCardinality == \A S : Converter!Cardinality(S) = Cardinality(S)
BY DEF Converter!Cardinality, Cardinality, Converter!IsFiniteSet, IsFiniteSet

\* A sequence without its last element.
LEMMA Shorter ==
    ASSUME NEW S, NEW s \in Seq(S), s # <<>>
    PROVE  SubSeq(s, 1, Len(s) - 1) \in Seq(S) /\ Len(SubSeq(s, 1, Len(s) - 1)) = Len(s) - 1
<1>1. Len(s) \in Nat /\ Len(s) > 0 
  OBVIOUS
<1>. DEFINE n == Len(s) - 1
<1>2. \A i \in 1 .. n : s[i] \in S
  OBVIOUS
<1>3. n \in Nat
  BY <1>1
<1>. HIDE DEF n
<1>4. /\ SubSeq(s, 1, n) \in Seq(S)
      /\ Len(SubSeq(s, 1, n)) = IF 1 <= n THEN n - 1 + 1 ELSE 0
  BY <1>2, <1>3, SubSeqProperties
<1>5. (IF 1 <= n THEN n - 1 + 1 ELSE 0) = n
  BY <1>3
<1>6. Len(SubSeq(s, 1, n)) = n
  BY <1>4, <1>5
<1>. QED
  BY <1>4, <1>6 DEF n

\* A token is counted from where it stands on.
LEMMA CountUp ==
    ASSUME NEW p \in Nat \ {0}, NEW t
    PROVE  LET before == Cardinality({q \in 1 .. p - 1 : source[q] = t})
               upto   == Cardinality({q \in 1 .. (p + 1) - 1 : source[q] = t})
           IN  before \in Nat /\ upto = IF source[p] = t THEN before + 1 ELSE before
<1>. DEFINE S == {q \in 1 .. p - 1 : source[q] = t}
            T == {q \in 1 .. (p + 1) - 1 : source[q] = t}
<1>1. 1 .. (p + 1) - 1 = (1 .. p - 1) \cup {p} /\ p \notin 1 .. p - 1
  OBVIOUS
<1>2. IsFiniteSet(S) /\ Cardinality(S) \in Nat
  <2>1. IsFiniteSet(1 .. p - 1) /\ S \in SUBSET (1 .. p - 1)
    BY FS_Interval
  <2>. QED
    BY <2>1, FS_Subset, FS_CardinalityType
<1>3. p \notin S /\ T = IF source[p] = t THEN S \cup {p} ELSE S
  BY <1>1
<1>4. Cardinality(S \cup {p}) = Cardinality(S) + 1
  BY <1>2, <1>3, FS_AddElement
<1>5. Cardinality(T) = IF source[p] = t THEN Cardinality(S) + 1 ELSE Cardinality(S)
  BY <1>3, <1>4
<1>. QED
  BY <1>2, <1>5

\* How a token changes the depth.
LEMMA DepthAfter ==
    ASSUME NEW p \in Nat \ {0}
    PROVE  /\ DepthAt(p) \in Int
           /\ source[p] = Converter!Open => DepthAt(p + 1) = DepthAt(p) + 1
           /\ source[p] = Converter!Close => DepthAt(p + 1) = DepthAt(p) - 1
           /\ source[p] \notin {Converter!Open, Converter!Close} => DepthAt(p + 1) = DepthAt(p)
<1>. DEFINE before(t) == Cardinality({q \in 1 .. p - 1 : source[q] = t})
            upto(t)   == Cardinality({q \in 1 .. (p + 1) - 1 : source[q] = t})
<1>1. \A t : before(t) \in Nat /\ upto(t) = IF source[p] = t THEN before(t) + 1 ELSE before(t)
  BY CountUp
<1>2. /\ DepthAt(p) = before(Converter!Open) - before(Converter!Close)
      /\ DepthAt(p + 1) = upto(Converter!Open) - upto(Converter!Close)
  BY SameCardinality DEF DepthAt, Converter!Depth
<1>. HIDE DEF before, upto
<1>3. Converter!Open # Converter!Close
  BY TokensDiffer
<1>. QED
  BY <1>1, <1>2, <1>3

\* Nothing is open at the beginning.
LEMMA DepthOne == DepthAt(1) = 0
<1>1. 1 .. 1 - 1 = {}
  OBVIOUS
<1>2. {q \in 1 .. 1 - 1 : source[q] = Converter!Open} = {} /\ {q \in 1 .. 1 - 1 : source[q] = Converter!Close} = {}
  BY <1>1
<1>. QED
  BY <1>2, FS_EmptySet, SameCardinality DEF DepthAt, Converter!Depth

\* The parser reads one token.
LEMMA ReadOn ==
    ASSUME pos \in 1 .. Len(source), source \in Seq(Converter!Tokens), ReadRight,
           source[pos] \in {Converter!Semicolon, Converter!Open} => AfterWord(pos),
           source[pos] = Converter!Close => DepthAt(pos) > 0 /\ ~AfterWord(pos),
           pos' = pos + 1, source' = source
    PROVE  /\ ReadRight' /\ pos' \in 1 .. Len(source) + 1
           /\ AfterWord(pos)' <=> source[pos] \in Converter!Words
<1>1. Len(source) \in Nat /\ pos \in Nat /\ pos + 1 \in 1 .. Len(source) + 1
  OBVIOUS
<1>2. 1 .. pos' - 1 = (1 .. pos - 1) \cup {pos} /\ pos' > 1 /\ pos' - 1 = pos
  BY <1>1
<1>3. ASSUME NEW p
      PROVE  DepthAt(p)' = DepthAt(p) /\ (AfterWord(p)' <=> AfterWord(p))
  BY DEF DepthAt, Converter!Depth, AfterWord, Converter!AfterWord
<1>4. ReadRight'
  BY <1>2, <1>3 DEF ReadRight
<1>. QED
  BY <1>1, <1>2, <1>4 DEF AfterWord, Converter!AfterWord

\* The token to be read is the one at pos, if there is one.
LEMMA TokenRead ==
    ASSUME pos \in 1 .. Len(source) + 1, source \in Seq(Converter!Tokens)
    PROVE  /\ Converter!Token = "eof" <=> pos = Len(source) + 1
           /\ Converter!Token # "eof" => pos \in 1 .. Len(source) /\ Converter!Token = source[pos]
<1>1. Len(source) \in Nat /\ (pos <= Len(source) => source[pos] \in Converter!Tokens)
  OBVIOUS
<1>. QED
  BY <1>1, TokensDiffer DEF Converter!Token

\* A token is read that fits: what remains to be shown are the block and the phase.
LEMMA ParserReads ==
    ASSUME ParserInv, phase \in {"item", "args"}, Converter!Token # "eof",
           Converter!Token \in {Converter!Semicolon, Converter!Open} => phase = "args",
           Converter!Token = Converter!Close => phase = "item" /\ nest # <<>>,
           pos' = pos + 1, source' = source,
           phase' = IF Converter!Token \in Converter!Words THEN "args" ELSE "item",
           kind' \in Seq(Converter!Words), nest' \in Seq(Nat),
           Len(nest') = Len(nest) + (IF Converter!Token = Converter!Open THEN 1
                                     ELSE IF Converter!Token = Converter!Close THEN -1 ELSE 0)
    PROVE  ParserInv'
<1>1. pos \in 1 .. Len(source) /\ Converter!Token = source[pos] /\ source \in Seq(Converter!Tokens)
  BY TokenRead DEF ParserInv
<1>2. pos \in Nat \ {0} /\ nest \in Seq(Nat) /\ Len(nest) = DepthAt(pos) /\ ReadRight
      /\ (phase = "args" <=> AfterWord(pos))
  BY <1>1 DEF ParserInv
<1>3. source[pos] = Converter!Close => DepthAt(pos) > 0
  BY <1>1, <1>2
<1>4. /\ ReadRight' /\ pos' \in 1 .. Len(source) + 1
      /\ AfterWord(pos)' <=> source[pos] \in Converter!Words
  BY <1>1, <1>2, <1>3, ReadOn
<1>5. DepthAt(pos)' = DepthAt(pos + 1)
  BY DEF DepthAt, Converter!Depth
<1>6. Len(nest') = DepthAt(pos)'
  BY <1>1, <1>2, <1>5, DepthAfter, TokensDiffer
<1>7. phase' \in {"item", "args"} /\ (phase' = "args" <=> AfterWord(pos)')
  BY <1>1, <1>4
<1>. QED
  BY <1>1, <1>4, <1>6, <1>7 DEF ParserInv, Converter!JustWellFormed

\* Where it stops, what it has read decides.
LEMMA ParserStops ==
    ASSUME ParserInv
    PROVE  /\ Converter!ParseError => ~Converter!WellFormed
           /\ phase = "item" /\ Converter!Token = "eof" /\ nest = <<>> => Converter!WellFormed
<1>. source \in Seq(Converter!Tokens) /\ pos \in 1 .. Len(source) + 1 /\ Len(source) \in Nat
  BY DEF ParserInv
<1>1. /\ Converter!WellFormed <=>
            /\ \A p \in 1 .. Len(source) : source[p] \in {Converter!Semicolon, Converter!Open} => AfterWord(p)
            /\ \A p \in 1 .. Len(source) : source[p] = Converter!Close => DepthAt(p) > 0 /\ ~AfterWord(p)
            /\ DepthAt(Len(source) + 1) = 0 /\ ~AfterWord(Len(source) + 1)
  BY DEF Converter!WellFormed, Converter!Positions, DepthAt, AfterWord
<1>2. /\ nest \in Seq(Nat) /\ Len(nest) = DepthAt(pos)
      /\ phase \in {"item", "args"} => ReadRight /\ (phase = "args" <=> AfterWord(pos))
  BY DEF ParserInv
<1>3. nest = <<>> <=> DepthAt(pos) = 0
  BY <1>2
<1>4. ASSUME Converter!ParseError PROVE ~Converter!WellFormed
  <2>1. CASE phase = "item" /\ Converter!Token \in {Converter!Semicolon, Converter!Open}
    <3>1. pos \in 1 .. Len(source) /\ source[pos] \in {Converter!Semicolon, Converter!Open}
      BY <2>1, TokenRead, TokensDiffer, Zenon DEF Converter!Tokens
    <3>2. ~AfterWord(pos)
      BY <1>2, <2>1
    <3>. QED
      BY <1>1, <3>1, <3>2, Zenon
  <2>2. CASE phase = "item" /\ Converter!Token = Converter!Close /\ nest = <<>>
    <3>1. pos \in 1 .. Len(source) /\ source[pos] = Converter!Close
      BY <2>2, TokenRead, TokensDiffer, Zenon DEF Converter!Tokens
    <3>2. ~(DepthAt(pos) > 0)
      BY <1>3, <2>2
    <3>. QED
      BY <1>1, <3>1, <3>2, Zenon
  <2>3. CASE phase = "item" /\ Converter!Token = "eof" /\ nest # <<>>
    BY <1>1, <1>3, <2>3, TokenRead
  <2>4. CASE phase = "args" /\ Converter!Token = "eof"
    BY <1>1, <1>2, <2>4, TokenRead
  <2>5. CASE phase = "args" /\ Converter!Token = Converter!Close
    <3>1. pos \in 1 .. Len(source) /\ source[pos] = Converter!Close
      BY <2>5, TokenRead, TokensDiffer, Zenon DEF Converter!Tokens
    <3>2. AfterWord(pos)
      BY <1>2, <2>5
    <3>. QED
      BY <1>1, <3>1, <3>2, Zenon
  <2>. QED
    BY <1>4, <2>1, <2>2, <2>3, <2>4, <2>5 DEF Converter!ParseError
<1>5. ASSUME phase = "item", Converter!Token = "eof", nest = <<>> PROVE Converter!WellFormed
  <2>1. pos = Len(source) + 1 /\ pos - 1 = Len(source)
    BY <1>5, TokenRead
  <2>. QED
    BY <1>1, <1>2, <1>3, <1>5, <2>1 DEF ReadRight
<1>. QED
  BY <1>4, <1>5

\* Where nothing is read, only what decides how the parse ends counts.
LEMMA ParserRests ==
    ASSUME ParserInv, UNCHANGED <<source, pos, kind, nest>>,
           \/ phase' = phase
           \/ phase' = "error" /\ ~Converter!WellFormed
           \/ phase' = "walk" /\ Converter!WellFormed
           \/ phase' = "done" /\ phase = "walk"
    PROVE  ParserInv'
<1>1. Converter!WellFormed' <=> Converter!WellFormed
  BY DEF Converter!WellFormed, Converter!Positions, Converter!AfterWord, Converter!Depth
<1>2. /\ \A p : DepthAt(p)' = DepthAt(p) /\ (AfterWord(p)' <=> AfterWord(p))
      /\ ReadRight' <=> ReadRight
  BY DEF DepthAt, Converter!Depth, AfterWord, Converter!AfterWord, ReadRight
<1>3. DepthAt(pos)' = DepthAt(pos) /\ (AfterWord(pos)' <=> AfterWord(pos))
  BY DEF DepthAt, Converter!Depth, AfterWord, Converter!AfterWord
<1>4. Converter!JustWellFormed'
  BY <1>1 DEF ParserInv, Converter!JustWellFormed
<1>. QED
  BY <1>2, <1>3, <1>4 DEF ParserInv

\* What took an argument stays a directive.
LEMMA SpoiltWords == \A k \in Converter!Words : Converter!Spoilt(k) \in Converter!Words
BY DEF Converter!Spoilt, Converter!Words, Converter!Modifiers, Converter!Transport, Converter!Blocks

\* Every step of the parser and of the walk.
LEMMA ParserStep ==
    ASSUME ParserInv, [Converter!Next]_Converter!vars
    PROVE  ParserInv'
<1>. kind \in Seq(Converter!Words) /\ nest \in Seq(Nat) /\ phase \in {"item", "args", "error", "walk", "done"}
  BY DEF ParserInv
<1>1. CASE Converter!Name
  <2>1. kind' \in Seq(Converter!Words)
    BY <1>1 DEF Converter!Name
  <2>. QED
    BY <1>1, <2>1, ParserReads, TokensDiffer DEF Converter!Name
<1>2. CASE Converter!Argument
  <2>1. \A k \in Converter!Words : Converter!Spoilt(k) \in Converter!Words
    BY SpoiltWords
  <2>2. kind' = [kind EXCEPT ![Len(kind)] = Converter!Spoilt(@)]
    BY <1>2 DEF Converter!Argument
  <2>3. kind' \in Seq(Converter!Words)
    <3>1. CASE Len(kind) \in DOMAIN kind
      BY <2>1, <2>2, <3>1
    <3>2. CASE Len(kind) \notin DOMAIN kind
      <4>1. kind' = kind
        BY <2>2, <3>2
      <4>. QED
        BY <4>1
    <3>. QED
      BY <3>1, <3>2
  <2>. QED
    BY <1>2, <2>3, ParserReads, TokensDiffer DEF Converter!Argument
<1>3. CASE Converter!EndDirective
  <2>1. nest' \in Seq(Nat) /\ Len(nest') = Len(nest) + (IF Converter!Token = Converter!Open THEN 1 ELSE 0)
    BY <1>3 DEF Converter!EndDirective
  <2>2. /\ phase = "args" /\ Converter!Token \in {Converter!Semicolon, Converter!Open}
        /\ pos' = pos + 1 /\ source' = source /\ kind' = kind /\ phase' = "item"
    BY <1>3 DEF Converter!EndDirective
  <2>3. Converter!Token \notin Converter!Words \cup {"eof", Converter!Close}
    <3>1. CASE Converter!Token = Converter!Semicolon
      BY <3>1, TokensDiffer, Zenon DEF Converter!Tokens
    <3>2. CASE Converter!Token = Converter!Open
      BY <3>2, TokensDiffer, Zenon DEF Converter!Tokens
    <3>. QED
      BY <2>2, <3>1, <3>2
  <2>. QED
    BY <2>1, <2>2, <2>3, ParserReads
<1>4. CASE Converter!EndBlock
  <2>3. nest' \in Seq(Nat) /\ Len(nest') = Len(nest) - 1
    BY <1>4, Shorter DEF Converter!EndBlock, Converter!Front
  <2>4. /\ phase = "item" /\ Converter!Token = Converter!Close /\ nest # <<>>
        /\ pos' = pos + 1 /\ source' = source /\ kind' = kind /\ phase' = "item"
    BY <1>4 DEF Converter!EndBlock
  <2>5. Converter!Token \notin Converter!Words \cup {"eof", Converter!Open, Converter!Semicolon}
    BY <2>4, TokensDiffer, Zenon DEF Converter!Tokens
  <2>. QED
    BY <2>3, <2>4, <2>5, ParserReads
<1>5. CASE Converter!ParseError
  BY <1>5, ParserStops, ParserRests DEF Converter!ParseError, Converter!parseVars
<1>6. CASE Converter!StartWalk
  BY <1>6, ParserStops, ParserRests DEF Converter!StartWalk, Converter!parseVars
<1>7. CASE Converter!EndWalk
  BY <1>7, ParserRests DEF Converter!EndWalk, Converter!parseVars
<1>8. CASE \/ Converter!ProxySetHeader \/ Converter!SetTransport \/ Converter!ProxyPass
           \/ Converter!Emit \/ Converter!Note \/ Converter!Skip
           \/ Converter!WalkUpstreamBlock \/ Converter!WalkServerBlock
           \/ Converter!WalkLocationBlock \/ Converter!IfBlock
           \/ UNCHANGED Converter!vars
  <2>1. UNCHANGED <<Converter!parseVars, phase>>
    BY <1>8, Zenon DEF Converter!ProxySetHeader, Converter!SetTransport, Converter!ProxyPass, Converter!Emit,
       Converter!Note, Converter!Skip, Converter!WalkUpstreamBlock, Converter!WalkServerBlock,
       Converter!WalkLocationBlock, Converter!IfBlock, Converter!vars
  <2>. QED
    BY <2>1, ParserRests DEF Converter!parseVars
<1>. QED
  BY <1>1, <1>2, <1>3, <1>4, <1>5, <1>6, <1>7, <1>8 DEF Converter!Next

(* Parsing ends in an error for every source whose braces and semicolons do *)
(* not match, and for no other (parser.ts parseBlock, parseDirective).      *)
THEOREM ParserIsExact ==
    ASSUME Converter!SourcesAssumption
    PROVE  Converter!Spec => []Converter!JustWellFormed
<1>1. Converter!Init => ParserInv
  <2>1. DepthAt(1) = 0 /\ ~AfterWord(1)
    BY DepthOne DEF AfterWord, Converter!AfterWord
  <2>. SUFFICES ASSUME Converter!Init PROVE ParserInv
    OBVIOUS
  <2>2. source \in Seq(Converter!Tokens)
    BY DEF Converter!Init, Converter!SourcesAssumption
  <2>3. pos = 1 /\ kind = <<>> /\ nest = <<>> /\ phase = "item" /\ 1 \in 1 .. Len(source) + 1
    BY <2>2 DEF Converter!Init
  <2>. QED
    BY <2>1, <2>2, <2>3 DEF ParserInv, ReadRight, Converter!JustWellFormed
<1>2. ParserInv /\ [Converter!Next]_Converter!vars => ParserInv'
  BY ParserStep
<1>3. ParserInv => Converter!JustWellFormed
  BY DEF ParserInv
<1>. QED
  BY <1>1, <1>2, <1>3, PTL DEF Converter!Spec
=============================================================================
