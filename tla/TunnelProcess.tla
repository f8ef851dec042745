---------------------------- MODULE TunnelProcess ---------------------------
(****************************************************************************)
(* One tunnel provider, the object that represents it in the memory of the  *)
(* application, and the sidecar program it runs (packages/tunnels/src:      *)
(* process-manager.ts, manager.ts, providers/*.ts; the provider operations  *)
(* of packages/api/src/routers/tunnels.ts).                                 *)
(*                                                                          *)
(* Every request may build at most one provider object and spawn at most    *)
(* one managed process: both are named after the request.  Two providers    *)
(* share nothing here.  Health checks, logs and the length of the backoff   *)
(* are left out; every provider has the restart policy "always".            *)
(****************************************************************************)
EXTENDS Integers, FiniteSets

CONSTANTS
    MaxOps,        \* requests, numbered in the order they arrive
    MaxCrashes,    \* how often the application process dies
    None

ASSUME BoundsAssumption == MaxOps \in Nat /\ MaxCrashes \in Nat
ASSUME NoneAssumption   == None \notin Nat

Ops    == 1 .. MaxOps
Types  == {"cloudflare", "ngrok", "tailscale"}
Kinds  == {"enable", "disable", "restart", "delete", "expose", "switch"}

VARIABLES
    type,          \* the provider's type
    row,           \* its row: does it exist, is it enabled, `process_status`
    registered,    \* TunnelManager.providers: the object of the provider
    tokens,        \* the objects that have a tunnel token
    managed,       \* ProcessManager.processes: the process of the sidecar
    proc,          \* every ManagedProcess with its supervisor and its child
    op,            \* the requests
    crashes,
    overlap        \* history: a request began while another one ran

vars == <<type, row, registered, tokens, managed, proc, op, crashes, overlap>>

Rows     == [exists : BOOLEAN, enabled : BOOLEAN,
             status : {"none", "starting", "crashed", "stopped"}]
Procs    == [state    : {"none", "running", "stopping", "crashed", "stopped"},
             sup      : {"none", "waiting", "sleeping", "done"},
             stopping : BOOLEAN,
             child    : {"none", "live", "killed", "failed"}]
Requests == [kind   : Kinds \cup {"none"},
             pc     : {"new", "preparing", "settling", "leaving", "stopping", "done"},
             obj    : Ops \cup {None},     \* the provider object it works on
             target : Ops \cup {None}]     \* the process it stops

TypeOK ==
    /\ type \in Types
    /\ row \in Rows
    /\ registered \in Ops \cup {None}
    /\ tokens \subseteq Ops
    /\ managed \in Ops \cup {None}
    /\ proc \in [Ops -> Procs]
    /\ op \in [Ops -> Requests]
    /\ \A o \in Ops : op[o].pc = "stopping" => op[o].target # None
    /\ crashes \in 0 .. MaxCrashes
    /\ overlap \in BOOLEAN

NoProc == [state |-> "none", sup |-> "none", stopping |-> FALSE, child |-> "none"]
NoOp   == [kind |-> "none", pc |-> "new", obj |-> None, target |-> None]

(* The provider has just been created. *)
Init ==
    /\ type \in Types
    /\ row = [exists |-> TRUE, enabled |-> FALSE, status |-> "none"]
    /\ registered = None
    /\ tokens = {}
    /\ managed = None
    /\ proc = [p \in Ops |-> NoProc]
    /\ op = [o \in Ops |-> NoOp]
    /\ crashes = 0
    /\ overlap = FALSE

Runs(o)  == op[o].pc \notin {"new", "done"}
Idle     == \A o \in Ops : ~Runs(o)

(***************************************************************************)
(* What follows takes the state a request has reached within one step: r   *)
(* is its own record, w the row, m the process managed, ps the processes.  *)
(*                                                                         *)
(* The end of a start: `update` records success and failure, the others    *)
(* only success, and `switchProvider` records nothing.  The end of a stop: *)
(* the object is deregistered and the row says so, or is deleted.          *)
(***************************************************************************)
Ends(o, r) == op' = [op EXCEPT ![o] = [r EXCEPT !.pc = "done"]]
Goes(o, r, pc) == op' = [op EXCEPT ![o] = [r EXCEPT !.pc = pc]]

\* Seeded fault: a start that failed is recorded like one that succeeded.
EndStartAnyway(o, r, w, ok) ==
    /\ Ends(o, r)
    /\ row' = IF w.exists THEN [w EXCEPT !.status = "starting"] ELSE w

EndStart(o, r, w, ok) ==
    /\ Ends(o, r)
    /\ row' = IF w.exists /\ (r.kind = "enable" \/ (ok /\ r.kind # "switch"))
              THEN [w EXCEPT !.status = IF ok THEN "starting" ELSE "crashed"]
              ELSE w

EndLeave(o, r, w) ==
    /\ Ends(o, r)
    /\ registered' = None
    /\ row' = IF r.kind = "delete" THEN [w EXCEPT !.exists = FALSE]
              ELSE IF w.exists THEN [w EXCEPT !.status = "stopped"]
              ELSE w

(***************************************************************************)
(* ProcessManager.spawn: an id that is managed is refused.  The supervisor *)
(* starts the child at once; a program that is not there yields no child   *)
(* and no exit.  Two of the types then wait for their agent.               *)
(***************************************************************************)
Fresh(c) == [state |-> "running", sup |-> "waiting", stopping |-> FALSE, child |-> c]

Spawn(o, r, w, m, ps) ==
    \/ /\ m # None
       /\ managed' = m /\ proc' = ps
       /\ EndStart(o, r, w, FALSE)
    \/ /\ m = None
       /\ managed' = o
       /\ \E c \in {"live", "failed"} : proc' = [ps EXCEPT ![o] = Fresh(c)]
       /\ IF type = "cloudflare" THEN EndStart(o, r, w, TRUE)
                                 ELSE Goes(o, r, "settling") /\ row' = w

(* provider.start: a Cloudflare object without a token fetches one first. *)
StartObject(o, r, w, m, ps) ==
    IF type = "cloudflare" /\ r.obj \notin tokens
    THEN Goes(o, r, "preparing") /\ row' = w /\ managed' = m /\ proc' = ps
    ELSE Spawn(o, r, w, m, ps)

Prepared(o) ==
    /\ op[o].pc = "preparing"
    /\ \/ tokens' = tokens \cup {op[o].obj} /\ Spawn(o, op[o], row, managed, proc)
       \/ EndStart(o, op[o], row, FALSE) /\ UNCHANGED <<tokens, managed, proc>>
    /\ UNCHANGED <<type, registered, crashes, overlap>>

(* ngrok gives up waiting after 20 attempts; the login of Tailscale throws. *)
Settled(o) ==
    /\ op[o].pc = "settling"
    /\ \E ok \in (IF type = "tailscale" THEN BOOLEAN ELSE {TRUE}) : EndStart(o, op[o], row, ok)
    /\ UNCHANGED <<type, registered, tokens, managed, proc, crashes, overlap>>

(***************************************************************************)
(* ProcessManager.stop: SIGTERM, then SIGKILL unless the supervisor has    *)
(* come to an end within the grace period; then the id is deleted from the *)
(* map, whatever process it stands for by now.                             *)
(***************************************************************************)
\* Seeded fault: only the child is signalled, the process is not marked.
SignalChild(o, r, w) ==
    /\ row' = w
    /\ op' = [op EXCEPT ![o] = [r EXCEPT !.pc = "stopping", !.target = managed]]
    /\ UNCHANGED <<proc, registered, managed>>

Signal(o, r, w) ==
    /\ row' = w
    /\ op' = [op EXCEPT ![o] = [r EXCEPT !.pc = "stopping", !.target = managed]]
    /\ proc' = [proc EXCEPT ![managed].stopping = TRUE, ![managed].state = "stopping"]
    /\ UNCHANGED <<registered, managed>>

\* Seeded fault: a process that ignores SIGTERM is left alone.
KillNothing(p) == proc

Kill(p) == IF proc[p].state # "stopped" /\ proc[p].child = "live"
           THEN [proc EXCEPT ![p].child = "killed"]
           ELSE proc

StopEnds(o) ==
    /\ op[o].pc = "stopping"
    /\ LET killed == Kill(op[o].target)
       IN  IF op[o].kind = "restart"
           THEN StartObject(o, op[o], row, None, killed) /\ UNCHANGED registered
           ELSE EndLeave(o, op[o], row) /\ managed' = None /\ proc' = killed
    /\ UNCHANGED <<type, tokens, crashes, overlap>>

(* stopProvider once provider.stop(), for which two of the types wait, ends. *)
Leave(o, r, w) ==
    \/ managed = None /\ EndLeave(o, r, w) /\ UNCHANGED <<managed, proc>>
    \/ managed # None /\ Signal(o, r, w)

Left(o) ==
    /\ op[o].pc = "leaving"
    /\ Leave(o, op[o], row)
    /\ UNCHANGED <<type, tokens, crashes, overlap>>

(***************************************************************************)
(* The requests, each up to its first wait.  "expose" is the part of       *)
(* enabling a route's tunnel that starts its provider, "switch" the part   *)
(* of moving a route to this provider that does: it looks no different.    *)
(***************************************************************************)
StartNew(o, r, w) ==
    /\ registered = None
    /\ registered' = o
    /\ StartObject(o, [r EXCEPT !.obj = o], w, managed, proc)

Already(o, r, w) ==
    /\ registered # None
    /\ row' = w
    /\ Ends(o, r)
    /\ UNCHANGED <<registered, managed, proc>>

Enable(o, r) == LET w == [row EXCEPT !.enabled = TRUE]
                IN  StartNew(o, r, w) \/ Already(o, r, w)

Expose(o, r) == StartNew(o, r, row) \/ Already(o, r, row)

StopProvider(o, r, w) ==
    IF registered = None THEN EndLeave(o, r, w) /\ UNCHANGED <<managed, proc>>
    ELSE IF type = "cloudflare" THEN Leave(o, r, w)
    ELSE Goes(o, r, "leaving") /\ row' = w /\ UNCHANGED <<registered, managed, proc>>

Disable(o, r) == StopProvider(o, r, [row EXCEPT !.enabled = FALSE])
Delete(o, r)  == StopProvider(o, r, row)

Restart(o, r) ==
    \/ StartNew(o, r, row)
    \/ /\ registered # None
       /\ LET own == [r EXCEPT !.obj = registered]
          IN  IF managed = None
              THEN StartObject(o, own, row, managed, proc) /\ UNCHANGED registered
              ELSE Signal(o, own, row)

Request(o, kind) ==
    /\ op[o].pc = "new"
    /\ \A q \in Ops : q < o => op[q].pc # "new"
    /\ row.exists
    /\ LET r == [NoOp EXCEPT !.kind = kind]
       IN  \/ kind = "enable"  /\ Enable(o, r)
           \/ kind = "disable" /\ Disable(o, r)
           \/ kind = "restart" /\ Restart(o, r)
           \/ kind = "delete"  /\ Delete(o, r)
           \/ kind \in {"expose", "switch"} /\ Expose(o, r)
    /\ overlap' = (overlap \/ ~Idle)
    /\ UNCHANGED <<type, tokens, crashes>>

(***************************************************************************)
(* The supervisor: the child exits, for whatever reason, and is started    *)
(* again after the backoff unless the process is being stopped.            *)
(***************************************************************************)
ChildExits(p) ==
    /\ proc[p].child \in {"live", "killed"}
    /\ proc' = [proc EXCEPT ![p] =
          IF proc[p].sup = "done"  THEN [@ EXCEPT !.child = "none"]
          ELSE IF @.stopping       THEN [@ EXCEPT !.child = "none", !.state = "stopped", !.sup = "done"]
          ELSE                          [@ EXCEPT !.child = "none", !.state = "crashed", !.sup = "sleeping"]]
    /\ UNCHANGED <<type, row, registered, tokens, managed, op, crashes, overlap>>

\* Seeded fault: the supervisor does not look again after its backoff.
WakesBlindly(p) ==
    /\ proc[p].sup = "sleeping"
    /\ \E c \in {"live", "failed"} : proc' = [proc EXCEPT ![p].sup = "waiting", ![p].child = c]
    /\ UNCHANGED <<type, row, registered, tokens, managed, op, crashes, overlap>>

Wakes(p) ==
    /\ proc[p].sup = "sleeping"
    /\ \/ /\ proc[p].stopping
          /\ proc' = [proc EXCEPT ![p].state = "stopped", ![p].sup = "done"]
       \/ /\ ~proc[p].stopping
          /\ \E c \in {"live", "failed"} : proc' = [proc EXCEPT ![p] = Fresh(c)]
    /\ UNCHANGED <<type, row, registered, tokens, managed, op, crashes, overlap>>

(***************************************************************************)
(* The application dies and is started again: its children outlive it, and *)
(* nothing starts the enabled providers.                                   *)
(***************************************************************************)
Crash ==
    /\ crashes < MaxCrashes
    /\ crashes' = crashes + 1
    /\ registered' = None
    /\ managed' = None
    /\ op' = [o \in Ops |-> IF Runs(o) THEN [op[o] EXCEPT !.pc = "done"] ELSE op[o]]
    /\ proc' = [p \in Ops |-> IF proc[p].sup = "none" THEN proc[p] ELSE [proc[p] EXCEPT !.sup = "done"]]
    /\ UNCHANGED <<type, row, tokens, overlap>>

Next ==
    \/ \E o \in Ops, kind \in Kinds : Request(o, kind)
    \/ \E o \in Ops : Prepared(o) \/ Settled(o) \/ Left(o) \/ StopEnds(o)
    \/ \E p \in Ops : ChildExits(p) \/ Wakes(p)
    \/ Crash

Spec == Init /\ [][Next]_vars

(* Timers fire, requests to other programs end or time out, and a killed   *)
(* child ends; a child that is only asked to end need not.                 *)
Fairness ==
    \A o \in Ops :
        /\ WF_vars(Prepared(o)) /\ WF_vars(Settled(o)) /\ WF_vars(Left(o))
        /\ WF_vars(StopEnds(o)) /\ WF_vars(Wakes(o))
        /\ WF_vars(proc[o].child = "killed" /\ ChildExits(o))

FairSpec == Spec /\ Fairness

(***************************************************************************)
(* Properties                                                              *)
(***************************************************************************)
Supervised(p) == proc[p].sup \in {"waiting", "sleeping"} /\ ~proc[p].stopping

(* While requests for the provider come one at a time and the application  *)
(* does not die, a sidecar that is kept alive by a supervisor is the one   *)
(* that is managed, so that the next stop or restart finds it.             *)
NoOrphan ==
    ~overlap /\ crashes = 0 => \A p \in Ops : Supervised(p) => managed = p

(* In the same circumstances there is at most one sidecar: a restart waits *)
(* for the old child to end or kills it before it starts the new one.      *)
OneSidecar ==
    ~overlap /\ crashes = 0 =>
        \A p, q \in Ops : proc[p].child = "live" /\ proc[q].child = "live" => p = q

(* The two together: what runs is what the next request will find.         *)
SidecarsAreManaged == NoOrphan /\ OneSidecar

(* What the row says once the requests are done: "starting" means that a   *)
(* sidecar is managed, "stopped" that none is, with two exceptions: a      *)
(* Tailscale daemon whose login failed after it was started, and a sidecar *)
(* that was started because a route was switched to its provider, which    *)
(* leaves the row saying "stopped" until the provider is restarted.        *)
StatusIsTrue ==
    ~overlap /\ crashes = 0 /\ Idle /\ row.exists =>
        /\ row.status = "starting" => managed # None
        /\ row.status = "stopped" /\ type # "tailscale" =>
              managed = None \/ op[managed].kind = "switch"

(* Whatever overlaps: a process that is being stopped starts no child any  *)
(* more, neither after its backoff nor because the old one exits.          *)
NoStartWhileStopping ==
    [][\A p \in Ops : proc[p].stopping /\ proc[p].child # "live" => proc'[p].child # "live"]_vars

(* Whatever overlaps: the child of a process that is being stopped ends,   *)
(* even if it ignores SIGTERM, unless the application dies before that.    *)
StoppedChildEnds ==
    \A p \in Ops : proc[p].stopping ~> proc[p].child \notin {"live", "killed"} \/ crashes > 0
=============================================================================
