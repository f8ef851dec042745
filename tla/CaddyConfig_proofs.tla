-------------------------- MODULE CaddyConfig_proofs --------------------------
(****************************************************************************)
(* Whatever overlaps, is lost or restarts, for any number of routes,        *)
(* domains and handlers: policies stay disjoint, what was put stays, and    *)
(* the stream follows its row.                                              *)
(****************************************************************************)
EXTENDS CaddyConfig, TLAPS

USE KindsAssumption, BoundAssumption

(***************************************************************************)
(* The inductive invariant.                                                *)
(***************************************************************************)
TablesOK ==
    /\ routes \subseteq Routes /\ forced \subseteq routes
    /\ forceHttps \in BOOLEAN
    /\ host \in [exists : BOOLEAN, enabled : BOOLEAN, to : Targets \cup {None}]
    /\ stream \in [exists : BOOLEAN, enabled : BOOLEAN]
    /\ stream.enabled => stream.exists
    /\ host.exists => host.to \in Targets

Handlers == [op : RouteOps \cup HostOps \cup StreamOps \cup WideOps \cup {"none"},
             pc : Pending, x : Routes \cup Targets \cup {None},
             todo : SUBSET Routes, read : Confs, alone : BOOLEAN]

Owings == [main : SUBSET (Routes \cup Targets), policies : SUBSET Routes]

Openers == {"streamCreate", "streamUpdate", "streamOn"}
Closers == {"streamDelete", "streamOff"}

\* Which requests the handlers make, and about what.
Fits(q) ==
    /\ q.op = "none" <=> q.pc = "idle"
    /\ q.op \in Openers <=> q.pc = "open"
    /\ q.op \in Closers <=> q.pc = "close"
    /\ q.pc \in {"read", "write"} /\ q.op # "renew" => q.x \in Routes
    /\ q.pc \in {"read", "write"} => q.op \in {"create", "update", "reload", "renew"}
    /\ q.op \in RouteOps => q.x \in Routes
    /\ q.pc = "write" => q.op # "renew"
    /\ q.pc = "load" => q.op = "renew"
    /\ q.pc = "post" => q.x \in Routes \cup Targets

Once(policies) == \A pol, other \in policies : pol # other => pol \cap other = {}

\* What a handler that is alone has read is what there is.
Current(q, c) ==
    q.alone => /\ q.pc = "load"  => q.read = c
               /\ q.pc = "write" => q.read.policies = c.policies

\* The stream's row is as the one handler that is alone with it has left it.
AsLeft(q, s) ==
    q.alone => /\ q.op \in {"streamCreate", "streamOn"} => s.enabled
               /\ q.op = "streamOff" => ~s.enabled

HandlersOK ==
    \A p \in Procs : /\ Fits(proc[p])
                     /\ Once(proc[p].read.policies)
                     /\ Current(proc[p], conf)
                     /\ AsLeft(proc[p], stream)

StreamAlone ==
    \A p, r \in Procs : p # r /\ proc[p].op \in StreamOps /\ proc[p].alone => proc[r].op \notin StreamOps

Stays(o, c) == /\ o.main \subseteq c.main
               /\ \A r \in o.policies : subjects[r] \in c.policies

IInv == TypeOK /\ TablesOK /\ HandlersOK /\ StreamAlone
        /\ WhatWasPutStays /\ OneSubjectOnePolicy /\ StreamFollowsRow


------------------------------------------------------------------------------
(* What one request does to the configuration.                              *)

LEMMA DedupedIsOnce ==
    ASSUME NEW policies, NEW ss, Once(policies)
    PROVE  Once(Deduped(policies, ss))
BY DEF Once, Deduped

LEMMA EffectFacts ==
    ASSUME IInv, NEW p \in Procs
    PROVE  LET q == proc[p] IN
           /\ Effect(q) \in Confs
           /\ Once(Effect(q).policies)
           /\ q.pc \notin {"write", "load", "base"} => Effect(q).policies = conf.policies
           /\ q.pc \notin {"base", "load", "open", "close"} => Effect(q).stream = conf.stream
           /\ q.pc = "open" => Effect(q).stream = TRUE
           /\ q.pc = "close" => Effect(q).stream = FALSE
           /\ q.pc \in {"server", "read", "patch"} => Effect(q) = conf
<1>. DEFINE q == proc[p]
<1>1. conf \in Confs /\ q \in Handlers /\ Fits(q) /\ Once(q.read.policies) /\ Once(conf.policies)
  BY DEF IInv, TypeOK, Handlers, HandlersOK, OneSubjectOnePolicy, Once
<1>2. q.read \in Confs /\ q.todo \in SUBSET Routes /\ q.pc \in Pending
  BY <1>1 DEF Handlers
<1>3. CASE q.pc = "base"
  BY <1>3 DEF Effect, Base, Confs, Once
<1>4. CASE q.pc = "replace"
  BY <1>1, <1>2, <1>4 DEF Effect, Confs
<1>5. CASE q.pc = "write"
  <2>1. q.x \in Routes
    BY <1>1, <1>5 DEF Fits
  <2>2. subjects[q.x] \in SUBSET Domains
    BY <2>1 DEF IInv, TypeOK
  <2>3. Effect(q) = [conf EXCEPT !.policies = Deduped(q.read.policies, subjects[q.x])]
    BY <1>5 DEF Effect
  <2>4. Deduped(q.read.policies, subjects[q.x]) \in SUBSET SUBSET Domains
    BY <1>2, <2>2 DEF Deduped, Confs
  <2>5. Once(Deduped(q.read.policies, subjects[q.x]))
    BY <1>1, DedupedIsOnce
  <2>. QED
    BY <1>1, <1>5, <2>3, <2>4, <2>5 DEF Confs
<1>6. CASE q.pc = "load"
  BY <1>1, <1>2, <1>6 DEF Effect
<1>7. CASE q.pc = "post"
  BY <1>1, <1>7 DEF Effect, Confs, Fits
<1>8. CASE q.pc = "remove"
  BY <1>1, <1>8 DEF Effect, Confs
<1>9. CASE q.pc \in {"open", "close"}
  BY <1>1, <1>9 DEF Effect, Confs, ServedAfter
<1>10. CASE q.pc \in {"redirectOn", "redirectOff"}
  BY <1>1, <1>10 DEF Effect, Confs
<1>11. CASE q.pc \in {"idle", "server", "read", "patch"}
  BY <1>1, <1>11 DEF Effect
<1>. QED
  BY <1>2, <1>3, <1>4, <1>5, <1>6, <1>7, <1>8, <1>9, <1>10, <1>11 DEF Pending

\* What is owed after a request is there whether or not the request was carried out.
LEMMA OwedFacts ==
    ASSUME IInv, NEW p \in Procs, NEW ok \in BOOLEAN, NEW c \in {conf, Effect(proc[p])},
           ok => c = Effect(proc[p])
    PROVE  OwedAfter(proc[p], ok) \in Owings /\ Stays(OwedAfter(proc[p], ok), c)
<1>. DEFINE q == proc[p]
            o == OwedAfter(q, ok)
<1>1. /\ conf \in Confs /\ q \in Handlers /\ Fits(q) /\ Current(q, conf)
      /\ owed \in Owings /\ Stays(owed, conf)
  BY DEF IInv, TypeOK, Handlers, HandlersOK, Owings, WhatWasPutStays, Stays
<1>2. q.read \in Confs /\ q.todo \in SUBSET Routes /\ q.pc \in Pending
  BY <1>1 DEF Handlers
<1>3. Nothing \in Owings /\ Stays(Nothing, c)
  BY DEF Nothing, Owings, Stays
<1>4. CASE q.pc = "base"
  BY <1>3, <1>4 DEF OwedAfter
<1>5. CASE q.pc = "load"
  BY <1>1, <1>3, <1>5 DEF OwedAfter, Lone, Effect, Current
<1>6. CASE q.pc = "replace"
  BY <1>1, <1>2, <1>6 DEF OwedAfter, Effect, Owings, Stays, Confs
<1>7. CASE q.pc = "write"
  <2>. DEFINE kept == IF q.alone THEN owed.policies \ Sharing(q.x) ELSE {}
  <2>1. q.x \in Routes
    BY <1>1, <1>7 DEF Fits
  <2>2. o = [owed EXCEPT !.policies = kept \cup IF ok THEN {q.x} ELSE {}]
    BY <1>7 DEF OwedAfter
  <2>3. Effect(q) = [conf EXCEPT !.policies = Deduped(q.read.policies, subjects[q.x])]
    BY <1>7 DEF Effect
  <2>4. o \in Owings /\ o.main = owed.main
        /\ o.policies = kept \cup IF ok THEN {q.x} ELSE {}
    BY <1>1, <2>1, <2>2 DEF Owings
  <2>5. /\ Effect(q).main = conf.main
        /\ Effect(q).policies = Deduped(q.read.policies, subjects[q.x])
    BY <1>1, <2>3 DEF Confs
  <2>6. ASSUME NEW r \in kept PROVE subjects[r] \in conf.policies /\ subjects[r] \in Effect(q).policies
    <3>1. q.alone /\ r \in owed.policies /\ r \notin Sharing(q.x) /\ r \in Routes
      BY <1>1, <2>6 DEF Owings
    <3>2. subjects[r] \in conf.policies /\ q.read.policies = conf.policies
      BY <1>1, <1>7, <3>1 DEF Stays, Current
    <3>3. subjects[r] \cap subjects[q.x] = {}
      BY <3>1 DEF Sharing
    <3>. QED
      BY <2>5, <3>2, <3>3 DEF Deduped
  <2>7. ok => c = Effect(q) /\ subjects[q.x] \in Effect(q).policies
    BY <2>5 DEF Deduped
  <2>8. o.main \subseteq c.main
    BY <1>1, <2>4, <2>5 DEF Stays
  <2>9. \A r \in o.policies : subjects[r] \in c.policies
    BY <2>4, <2>6, <2>7
  <2>. QED
    BY <2>4, <2>8, <2>9 DEF Stays
<1>8. CASE q.pc = "post"
  BY <1>1, <1>8 DEF OwedAfter, Effect, Owings, Stays, Confs, Fits
<1>9. CASE q.pc = "remove"
  BY <1>1, <1>9 DEF OwedAfter, Effect, Owings, Stays, Confs
<1>10. CASE q.pc \in {"open", "close", "redirectOn", "redirectOff"}
  BY <1>1, <1>10 DEF OwedAfter, Effect, Stays, Confs
<1>11. CASE q.pc \in {"idle", "server", "read", "patch"}
  BY <1>1, <1>11 DEF OwedAfter, Effect
<1>. QED
  BY <1>2, <1>4, <1>5, <1>6, <1>7, <1>8, <1>9, <1>10, <1>11 DEF Pending

------------------------------------------------------------------------------
(* How a handler goes on.                                                   *)

LEMMA IdleFits == Idle \in Handlers /\ Fits(Idle) /\ Once(Idle.read.policies)
<1>1. Base \in Confs /\ Once(Base.policies)
  BY DEF Base, Confs, Once
<1>2. Idle \in Handlers
  BY <1>1 DEF Idle, Handlers, Pending
<1>3. Fits(Idle)
  BY DEF Idle, Fits, Openers, Closers, RouteOps
<1>. QED
  BY <1>1, <1>2, <1>3 DEF Idle

LEMMA UpsertingFacts ==
    ASSUME NEW q \in Handlers, NEW rs \in SUBSET Routes, q.op = "reload", NEW f \in Upserting(q, rs)
    PROVE  /\ f \in Handlers /\ Fits(f) /\ Once(f.read.policies)
           /\ f.op \in {"none", q.op} /\ f.pc \notin {"load", "write"}
<1>1. Base \in Confs /\ Once(Base.policies)
  BY DEF Base, Confs, Once
<1>2. CASE rs = {}
  <2>1. f = Idle
    BY <1>2 DEF Upserting
  <2>. QED
    BY <2>1, IdleFits DEF Idle
<1>3. CASE rs # {}
  <2>1. PICK r \in rs : f = [q EXCEPT !.pc = "read", !.x = r, !.todo = rs \ {r}, !.read = Base]
    BY <1>3 DEF Upserting
  <2>2. f \in Handlers /\ f.pc = "read" /\ f.op = "reload" /\ f.x \in Routes /\ f.read = Base
    BY <1>1, <2>1 DEF Handlers, Pending
  <2>. QED
    <3>1. Fits(f)
      BY <2>2 DEF Fits, Openers, Closers, RouteOps
    <3>. QED
      BY <1>1, <2>2, <3>1
<1>. QED
  BY <1>2, <1>3

LEMMA HasFacts ==
    ASSUME NEW q \in Handlers, q.op \in {"create", "update"}, q.x \in Routes,
           NEW pc \in {"post", "patch", "redirectOn", "redirectOff"}
    PROVE  LET f == Has(q, pc) IN
           /\ f \in Handlers /\ Fits(f) /\ Once(f.read.policies)
           /\ f.op = q.op /\ f.pc \notin {"load", "write"}
<1>. DEFINE f == Has(q, pc)
<1>1. Base \in Confs /\ Once(Base.policies)
  BY DEF Base, Confs, Once
<1>2. /\ f \in Handlers /\ f.pc = pc /\ f.op = q.op /\ f.x = q.x /\ f.read = Base
  BY <1>1 DEF Has, Handlers, Pending
<1>3. Fits(f)
  BY <1>2 DEF Fits, Openers, Closers
<1>. QED
  BY <1>1, <1>2, <1>3

\* A handler goes on with a request of its own, or is done; what it is about to
\* write is what it has just read.
Continues(q, f) ==
    /\ f \in Handlers /\ Fits(f) /\ Once(f.read.policies)
    /\ f.op \in {"none", q.op}
    /\ q.op \in StreamOps => f.op = "none"
    /\ f.pc \in {"load", "write"} => q.pc = "read" /\ Current(f, conf)

LEMMA FollowingFacts ==
    ASSUME IInv, NEW p \in Procs, proc[p].pc # "idle", NEW f \in {Idle} \cup Following(proc[p])
    PROVE  Continues(proc[p], f)
<1>. DEFINE q == proc[p]
<1>1. /\ q \in Handlers /\ Fits(q) /\ Once(q.read.policies)
      /\ conf \in Confs /\ Once(conf.policies) /\ routes \in SUBSET Routes
  BY DEF IInv, TypeOK, Handlers, HandlersOK, OneSubjectOnePolicy, Once
<1>2. q.op # "none" /\ q.todo \in SUBSET Routes /\ q.pc \in Pending /\ q.op \in RouteOps \cup HostOps \cup StreamOps \cup WideOps
  BY <1>1 DEF Handlers, Fits
<1>3. CASE f = Idle
  BY <1>3, IdleFits DEF Continues, Idle
<1>4. CASE f \in Following(q) /\ q.pc \in {"server", "base"}
  <2>1. f = [q EXCEPT !.pc = "replace", !.todo = routes]
    BY <1>4 DEF Following
  <2>2. f \in Handlers /\ f.pc = "replace" /\ f.op = q.op /\ f.x = q.x /\ f.read = q.read
    BY <1>1, <2>1 DEF Handlers, Pending
  <2>3. q.op \notin Openers \cup Closers
    BY <1>1, <1>4 DEF Fits
  <2>4. Fits(f)
    BY <1>1, <1>2, <2>2, <2>3 DEF Fits
  <2>. QED
    BY <1>1, <1>2, <2>2, <2>3, <2>4 DEF Continues, StreamOps, Openers, Closers
<1>5. CASE f \in Following(q) /\ q.pc \in {"replace", "write"} /\ q.op = "reload"
  <2>1. f \in Upserting(q, q.todo)
    BY <1>5 DEF Following
  <2>. QED
    BY <1>1, <1>2, <1>5, <2>1, UpsertingFacts DEF Continues, StreamOps
<1>6. CASE f \in Following(q) /\ q.pc = "read"
  <2>. DEFINE v == IF q.op = "renew" THEN conf ELSE [Base EXCEPT !.policies = conf.policies]
  <2>1. f = [q EXCEPT !.pc = IF q.op = "renew" THEN "load" ELSE "write", !.read = v, !.alone = TRUE]
    BY <1>6 DEF Following
  <2>2. v \in Confs /\ v.policies = conf.policies /\ (q.op = "renew" => v = conf)
    BY <1>1 DEF Base, Confs
  <2>3. /\ f \in Handlers /\ f.op = q.op /\ f.x = q.x /\ f.read = v
        /\ f.pc = IF q.op = "renew" THEN "load" ELSE "write"
    BY <1>1, <2>1, <2>2 DEF Handlers, Pending
  <2>4. q.op \notin Openers \cup Closers /\ (q.op # "renew" => q.x \in Routes)
    BY <1>1, <1>6 DEF Fits
  <2>5. Fits(f)
    BY <1>1, <1>2, <1>6, <2>3, <2>4 DEF Fits
  <2>. QED
    BY <1>1, <1>2, <1>6, <2>2, <2>3, <2>4, <2>5 DEF Continues, Current, StreamOps, Openers, Closers
<1>7. CASE f \in Following(q) /\ f # Idle /\ (q.pc = "patch" \/ (q.pc = "write" /\ q.op # "reload"))
  <2>1. PICK pc \in {"post", "patch", "redirectOn", "redirectOff"} : f = Has(q, pc)
    BY <1>7 DEF Following
  <2>2. q.op \in {"create", "update"} /\ q.x \in Routes
    <3>1. q.pc = "write" \/ q.op = "update"
      BY <1>7 DEF Following
    <3>. QED
      BY <1>1, <1>7, <3>1 DEF Fits, RouteOps
  <2>. QED
    BY <1>1, <1>2, <2>1, <2>2, HasFacts DEF Continues, StreamOps
<1>8. CASE f \in Following(q) /\ q.pc \in {"load", "post", "remove", "open", "close", "redirectOn", "redirectOff"}
  <2>1. f = Idle
    BY <1>8 DEF Following
  <2>. QED
    BY <1>3, <2>1
<1>9. CASE f \in Following(q) /\ q.pc = "replace" /\ q.op # "reload"
  BY <1>3, <1>9 DEF Following
<1>10. f = Idle \/ f \in Following(q)
  OBVIOUS
<1>11. \/ q.pc \in {"server", "base", "read", "replace", "write", "patch"}
       \/ q.pc \in {"load", "post", "remove", "open", "close", "redirectOn", "redirectOff"}
  BY <1>2 DEF Pending
<1>. QED
  BY <1>3, <1>4, <1>5, <1>6, <1>7, <1>8, <1>9, <1>10, <1>11

------------------------------------------------------------------------------
(* A step keeps the invariant.                                              *)

\* The others are at most no longer alone.
Spared(r, q) ==
    /\ proc'[r] \in Handlers
    /\ proc'[r].op = proc[r].op /\ proc'[r].pc = proc[r].pc /\ proc'[r].x = proc[r].x
    /\ proc'[r].read = proc[r].read
    /\ proc'[r].alone => proc[r].alone /\ ~Writes(q, proc[r])

LEMMA BecomesFacts ==
    ASSUME IInv, NEW p \in Procs, NEW f \in Handlers, Becomes(p, f)
    PROVE  /\ proc' \in [Procs -> Handlers] /\ proc'[p] = f
           /\ \A r \in Procs \ {p} : Spared(r, proc[p])
<1>1. proc \in [Procs -> Handlers]
  BY DEF IInv, TypeOK, Handlers
<1>2. proc'[p] = f
  BY DEF Becomes
<1>3. ASSUME NEW r \in Procs \ {p} PROVE Spared(r, proc[p])
  <2>1. proc[r] \in Handlers
    BY <1>1
  <2>2. proc'[r] = IF Writes(proc[p], proc[r]) THEN [proc[r] EXCEPT !.alone = FALSE] ELSE proc[r]
    BY DEF Becomes
  <2>3. CASE Writes(proc[p], proc[r])
    BY <2>1, <2>2, <2>3 DEF Spared, Handlers
  <2>4. CASE ~Writes(proc[p], proc[r])
    BY <2>1, <2>2, <2>4 DEF Spared, Handlers
  <2>. QED
    BY <2>3, <2>4
<1>4. \A r \in Procs : proc'[r] \in Handlers
  BY <1>2, <1>3 DEF Spared
<1>5. proc' \in [Procs -> Handlers]
  BY <1>4 DEF Becomes
<1>. QED
  BY <1>2, <1>3, <1>5

LEMMA RequestKeeps ==
    ASSUME IInv, NEW p \in Procs, proc[p].pc # "idle", NEW f \in {Idle} \cup Following(proc[p]),
           NEW ok \in BOOLEAN, conf' \in {conf, Effect(proc[p])}, ok => conf' = Effect(proc[p]),
           Becomes(p, f), Remember(proc[p], ok),
           routes' \subseteq routes, forced' = forced \cap routes', host' \in {host, NoHost},
           stream' = IF proc[p].op = "streamDelete" THEN NoStream ELSE stream,
           UNCHANGED <<forceHttps, fixed, ops>>
    PROVE  IInv'
<1>. DEFINE q == proc[p]
<1>1. q \in Handlers /\ Fits(q) /\ Once(q.read.policies) /\ Current(q, conf) /\ AsLeft(q, stream)
  BY DEF IInv, TypeOK, Handlers, HandlersOK
<1>2. Continues(q, f)
  BY FollowingFacts
<1>3. /\ proc' \in [Procs -> Handlers] /\ proc'[p] = f
      /\ \A r \in Procs \ {p} : Spared(r, q)
  BY <1>2, BecomesFacts DEF Continues
<1>4. /\ conf' \in Confs /\ Once(conf'.policies)
      /\ q.pc \notin {"write", "load", "base"} => conf'.policies = conf.policies
      /\ q.pc \notin {"base", "load", "open", "close"} => conf'.stream = conf.stream
      /\ q.pc \in {"server", "read", "patch"} => conf' = conf
  <2>1. conf \in Confs /\ Once(conf.policies)
    BY DEF IInv, TypeOK, OneSubjectOnePolicy, Once
  <2>2. CASE conf' = conf
    BY <2>1, <2>2
  <2>3. CASE conf' = Effect(q)
    BY <2>3, EffectFacts
  <2>. QED
    BY <2>2, <2>3
<1>5. owed' \in Owings /\ Stays(owed', conf')
  BY OwedFacts DEF Remember
<1>6. TypeOK' /\ TablesOK'
  <2>1. streamOk' \in BOOLEAN
    BY DEF Remember, StreamAfter, IInv, TypeOK
  <2>2. /\ stream' \in [exists : BOOLEAN, enabled : BOOLEAN] /\ (stream'.enabled => stream'.exists)
        /\ host' \in [exists : BOOLEAN, enabled : BOOLEAN, to : Targets \cup {None}]
        /\ (host'.exists => host'.to \in Targets)
    <3>1. /\ stream \in [exists : BOOLEAN, enabled : BOOLEAN] /\ (stream.enabled => stream.exists)
          /\ host \in [exists : BOOLEAN, enabled : BOOLEAN, to : Targets \cup {None}]
          /\ (host.exists => host.to \in Targets)
      BY DEF IInv, TablesOK
    <3>2. /\ NoStream \in [exists : BOOLEAN, enabled : BOOLEAN] /\ ~NoStream.enabled
          /\ NoHost \in [exists : BOOLEAN, enabled : BOOLEAN, to : Targets \cup {None}]
          /\ ~NoHost.exists
      BY DEF NoStream, NoHost
    <3>. QED
      BY <3>1, <3>2
  <2>3. routes' \subseteq Routes /\ forced' \subseteq routes' /\ forceHttps' \in BOOLEAN
    BY DEF IInv, TablesOK
  <2>4. TablesOK'
    BY <2>2, <2>3 DEF TablesOK
  <2>5. /\ subjects' \in [Routes -> SUBSET Domains] /\ hostKind' \in {"redirect", "error"}
        /\ ops' \in 0 .. MaxOps
    BY DEF IInv, TypeOK, fixed
  <2>6. TypeOK'
    BY <1>3, <1>4, <1>5, <2>1, <2>2, <2>3, <2>5 DEF TypeOK, Handlers, Owings
  <2>. QED
    BY <2>4, <2>6
<1>7. HandlersOK'
  <2>1. ASSUME NEW r \in Procs
        PROVE  /\ Fits(proc'[r]) /\ Once(proc'[r].read.policies)
               /\ Current(proc'[r], conf') /\ AsLeft(proc'[r], stream')
    <3>1. CASE r = p
      <4>1. Current(f, conf')
        BY <1>2, <1>4 DEF Continues, Current
      <4>2. AsLeft(f, stream')
        BY <1>1, <1>2 DEF Continues, AsLeft, StreamOps
      <4>. QED
        BY <1>2, <1>3, <3>1, <4>1, <4>2 DEF Continues
    <3>2. CASE r # p
      <4>1. Spared(r, q)
        BY <1>3, <3>2
      <4>2. /\ proc[r] \in Handlers /\ Fits(proc[r]) /\ Once(proc[r].read.policies)
            /\ Current(proc[r], conf) /\ AsLeft(proc[r], stream)
        BY DEF IInv, TypeOK, Handlers, HandlersOK
      <4>3. Fits(proc'[r]) /\ Once(proc'[r].read.policies)
        BY <4>1, <4>2 DEF Spared, Fits
      <4>4. Current(proc'[r], conf')
        BY <1>1, <1>4, <4>1, <4>2 DEF Spared, Current, Writes
      <4>5. AsLeft(proc'[r], stream')
        <5>1. proc[r].alone /\ proc[r].op \in StreamOps => q.op \notin StreamOps
          BY <3>2 DEF IInv, StreamAlone
        <5>. QED
          BY <4>1, <4>2, <5>1 DEF Spared, AsLeft, StreamOps
      <4>. QED
        BY <4>3, <4>4, <4>5
    <3>. QED
      BY <3>1, <3>2
  <2>. QED
    BY <2>1 DEF HandlersOK
<1>8. StreamAlone'
  <2>1. ASSUME NEW a \in Procs, NEW b \in Procs, a # b, proc'[a].op \in StreamOps, proc'[a].alone
        PROVE  proc'[b].op \notin StreamOps
    <3>1. a # p
      BY <1>2, <1>3, <2>1 DEF Continues, StreamOps, RouteOps, HostOps, WideOps
    <3>2. proc[a].op \in StreamOps /\ proc[a].alone
      BY <1>3, <2>1, <3>1 DEF Spared
    <3>3. proc[b].op \notin StreamOps
      BY <2>1, <3>2 DEF IInv, StreamAlone
    <3>4. proc'[b].op \in {"none", proc[b].op}
      BY <1>2, <1>3 DEF Continues, Spared
    <3>. QED
      BY <3>3, <3>4 DEF StreamOps
  <2>. QED
    BY <2>1 DEF StreamAlone
<1>9. StreamFollowsRow'
  <2>. SUFFICES ASSUME streamOk', Running(StreamOps)' = {}
                PROVE  conf'.stream <=> stream'.exists /\ stream'.enabled
    BY DEF StreamFollowsRow
  <2>1. StreamAfter(q, ok)
    BY DEF Remember
  <2>2. \A r \in Procs \ {p} : proc[r].op \notin StreamOps
    BY <1>3 DEF Spared, Running
  <2>3. q.op \notin StreamOps => Running(StreamOps) = {}
    BY <2>2 DEF Running
  <2>4. conf \in Confs /\ stream \in [exists : BOOLEAN, enabled : BOOLEAN] /\ (stream.enabled => stream.exists)
    BY DEF IInv, TypeOK, TablesOK
  <2>5. q.pc # "base"
    BY <2>1 DEF StreamAfter
  <2>6. CASE q.pc = "load"
    <3>1. streamOk /\ q.alone /\ q.op = "renew"
      BY <1>1, <2>1, <2>6 DEF StreamAfter, Fits
    <3>2. conf' = conf
      BY <1>1, <2>6, <3>1 DEF Current, Effect
    <3>3. stream' = stream /\ Running(StreamOps) = {}
      BY <2>3, <3>1 DEF StreamOps
    <3>. QED
      BY <3>1, <3>2, <3>3 DEF IInv, StreamFollowsRow
  <2>7. CASE q.op \in StreamOps /\ q.pc # "load"
    <3>1. ok /\ q.alone /\ (q.op = "streamUpdate" => stream.enabled)
      BY <2>1, <2>5, <2>7 DEF StreamAfter
    <3>2. conf' = Effect(q)
      BY <3>1
    <3>3. CASE q.op \in Openers
      <4>1. conf'.stream = TRUE
        BY <1>1, <3>2, <3>3, EffectFacts DEF Fits
      <4>. QED
        BY <1>1, <2>4, <3>1, <3>3, <4>1 DEF AsLeft, Openers
    <3>4. CASE q.op \in Closers
      <4>1. conf'.stream = FALSE
        BY <1>1, <3>2, <3>4, EffectFacts DEF Fits
      <4>. QED
        BY <1>1, <2>4, <3>1, <3>4, <4>1 DEF AsLeft, Closers, NoStream
    <3>. QED
      BY <2>7, <3>3, <3>4 DEF StreamOps, Openers, Closers
  <2>8. CASE q.op \notin StreamOps /\ q.pc # "load"
    <3>1. streamOk /\ Running(StreamOps) = {} /\ stream' = stream
      BY <2>1, <2>3, <2>5, <2>8 DEF StreamAfter, StreamOps
    <3>2. q.pc \notin {"open", "close"}
      BY <1>1, <2>8 DEF Fits, StreamOps, Openers, Closers
    <3>3. conf'.stream = conf.stream
      BY <1>4, <2>5, <2>8, <3>2
    <3>. QED
      BY <3>1, <3>3 DEF IInv, StreamFollowsRow
  <2>. QED
    BY <2>6, <2>7, <2>8
<1>10. WhatWasPutStays' /\ OneSubjectOnePolicy'
  <2>1. subjects' = subjects
    BY DEF fixed
  <2>. QED
    BY <1>4, <1>5, <2>1 DEF WhatWasPutStays, Stays, OneSubjectOnePolicy, Once
<1>. QED
  BY <1>6, <1>7, <1>8, <1>9, <1>10 DEF IInv

LEMMA BeginKeeps ==
    ASSUME IInv, NEW p \in Procs, NEW op \in RouteOps \cup HostOps \cup StreamOps \cup WideOps,
           NEW pc \in Pending \ {"load", "write"}, NEW x \in Routes \cup Targets \cup {None},
           Begin(p, op, pc, x), TablesOK',
           Fits([op |-> op, pc |-> pc, x |-> x]),
           op \in {"streamCreate", "streamOn"} => stream'.enabled,
           op = "streamOff" => ~stream'.enabled,
           op \notin StreamOps => stream' = stream
    PROVE  IInv'
<1>. DEFINE rivals == {r \in Procs : op \in StreamOps /\ proc[r].op \in StreamOps}
            f == [Idle EXCEPT !.op = op, !.pc = pc, !.x = x, !.alone = (rivals = {})]
<1>1. proc \in [Procs -> Handlers] /\ proc[p].op = "none"
  BY DEF IInv, TypeOK, Handlers, HandlersOK, Fits, Begin
<1>2. Base \in Confs /\ Once(Base.policies)
  BY DEF Base, Confs, Once
<1>3. /\ f \in Handlers /\ f.op = op /\ f.pc = pc /\ f.x = x /\ f.read = Base
      /\ f.alone = (rivals = {})
  BY <1>2 DEF Idle, Handlers
<1>4. Fits(f)
  BY <1>3 DEF Fits
<1>5. /\ ops' = ops + 1 /\ ops < MaxOps /\ UNCHANGED <<fixed, conf, history>>
      /\ proc' = [r \in Procs |-> IF r = p THEN f
                                   ELSE IF r \in rivals THEN [proc[r] EXCEPT !.alone = FALSE]
                                   ELSE proc[r]]
  BY DEF Begin
<1>6. proc'[p] = f
  BY <1>5
<1>. DEFINE Rival(r) == op \in StreamOps /\ proc[r].op \in StreamOps
<1>14. \A r \in Procs : r \in rivals <=> Rival(r)
  OBVIOUS
<1>15. f.alone => \A r \in Procs : ~Rival(r)
  BY <1>3
<1>. HIDE DEF rivals, f
<1>7. ASSUME NEW r \in Procs \ {p}
      PROVE  /\ proc'[r] \in Handlers
             /\ proc'[r].op = proc[r].op /\ proc'[r].pc = proc[r].pc /\ proc'[r].x = proc[r].x
             /\ proc'[r].read = proc[r].read
             /\ proc'[r].alone => proc[r].alone /\ ~Rival(r)
  <2>1. proc[r] \in Handlers
    BY <1>1
  <2>2. proc'[r] = IF r \in rivals THEN [proc[r] EXCEPT !.alone = FALSE] ELSE proc[r]
    BY <1>5
  <2>3. CASE r \in rivals
    <3>1. proc'[r] = [proc[r] EXCEPT !.alone = FALSE]
      BY <2>2, <2>3
    <3>. QED
      BY ONLY <2>1, <3>1 DEF Handlers
  <2>4. CASE r \notin rivals
    BY <1>14, <2>1, <2>2, <2>4
  <2>. QED
    BY <2>3, <2>4
<1>8. /\ conf' = conf /\ owed' = owed /\ streamOk' = streamOk
      /\ subjects' = subjects /\ hostKind' = hostKind
  BY <1>5 DEF fixed, history
<1>9. TypeOK'
  <2>1. proc' \in [Procs -> Handlers]
    <3>1. \A r \in Procs : proc'[r] \in Handlers
      BY <1>3, <1>6, <1>7
    <3>. QED
      BY <1>5, <3>1
  <2>2. ops' \in 0 .. MaxOps
    <3>1. ops \in 0 .. MaxOps
      BY DEF IInv, TypeOK
    <3>. QED
      BY <1>5, <3>1
  <2>3. /\ routes' \subseteq Routes /\ forced' \subseteq routes' /\ forceHttps' \in BOOLEAN
        /\ host' \in [exists : BOOLEAN, enabled : BOOLEAN, to : Targets \cup {None}]
        /\ stream' \in [exists : BOOLEAN, enabled : BOOLEAN]
    BY DEF TablesOK
  <2>4. /\ subjects \in [Routes -> SUBSET Domains] /\ hostKind \in {"redirect", "error"}
        /\ conf \in Confs /\ streamOk \in BOOLEAN
        /\ owed \in [main : SUBSET (Routes \cup Targets), policies : SUBSET Routes]
    BY DEF IInv, TypeOK
  <2>. QED
    BY <1>8, <2>1, <2>2, <2>3, <2>4 DEF TypeOK, Handlers
<1>10. HandlersOK'
  <2>1. ASSUME NEW r \in Procs
        PROVE  /\ Fits(proc'[r]) /\ Once(proc'[r].read.policies)
               /\ Current(proc'[r], conf') /\ AsLeft(proc'[r], stream')
    <3>1. CASE r = p
      <4>1. Current(f, conf') /\ AsLeft(f, stream')
        BY <1>3 DEF Current, AsLeft
      <4>. QED
        BY <1>2, <1>3, <1>4, <1>6, <3>1, <4>1
    <3>2. CASE r # p
      <4>1. /\ proc[r] \in Handlers /\ Fits(proc[r]) /\ Once(proc[r].read.policies)
            /\ Current(proc[r], conf) /\ AsLeft(proc[r], stream)
        BY DEF IInv, TypeOK, Handlers, HandlersOK
      <4>2. Fits(proc'[r]) /\ Once(proc'[r].read.policies)
        BY <1>7, <3>2, <4>1 DEF Fits
      <4>3. Current(proc'[r], conf')
        BY <1>7, <1>8, <3>2, <4>1 DEF Current
      <4>4. AsLeft(proc'[r], stream')
        BY <1>7, <3>2, <4>1 DEF AsLeft, StreamOps
      <4>. QED
        BY <4>2, <4>3, <4>4
    <3>. QED
      BY <3>1, <3>2
  <2>. QED
    BY <2>1 DEF HandlersOK
<1>11. StreamAlone'
  <2>1. ASSUME NEW a \in Procs, NEW b \in Procs, a # b, proc'[a].op \in StreamOps, proc'[a].alone
        PROVE  proc'[b].op \notin StreamOps
    <3>1. CASE a = p
      <4>1. op \in StreamOps /\ \A r \in Procs : ~Rival(r)
        BY <1>3, <1>6, <1>15, <2>1, <3>1
      <4>2. proc[b].op \notin StreamOps /\ proc'[b].op = proc[b].op
        BY <1>7, <2>1, <3>1, <4>1
      <4>. QED
        BY <4>2
    <3>2. CASE a # p
      <4>1. proc[a].op \in StreamOps /\ proc[a].alone /\ op \notin StreamOps
        BY <1>7, <2>1, <3>2
      <4>2. proc[b].op \notin StreamOps
        BY <2>1, <4>1 DEF IInv, StreamAlone
      <4>. QED
        BY <1>3, <1>6, <1>7, <4>1, <4>2
    <3>. QED
      BY <3>1, <3>2
  <2>. QED
    BY <2>1 DEF StreamAlone
<1>12. StreamFollowsRow'
  <2>. SUFFICES ASSUME streamOk', Running(StreamOps)' = {}
                PROVE  conf'.stream <=> stream'.exists /\ stream'.enabled
    BY DEF StreamFollowsRow
  <2>1. op \notin StreamOps
    BY <1>3, <1>6 DEF Running
  <2>2. \A r \in Procs : proc[r].op \notin StreamOps
    BY <1>1, <1>7 DEF Running, StreamOps
  <2>. QED
    BY <1>8, <2>1, <2>2 DEF IInv, StreamFollowsRow, Running
<1>13. WhatWasPutStays' /\ OneSubjectOnePolicy'
  BY <1>8 DEF IInv, WhatWasPutStays, OneSubjectOnePolicy
<1>. QED
  BY <1>9, <1>10, <1>11, <1>12, <1>13 DEF IInv

THEOREM InitIInv == Init => IInv
<1>. SUFFICES ASSUME Init PROVE IInv
  OBVIOUS
<1>1. \A p \in Procs : proc[p] = Idle
  BY DEF Init
<1>2. Idle \in Handlers /\ Fits(Idle) /\ Once(Idle.read.policies)
  BY IdleFits
<1>3. Base \in Confs /\ Once(Base.policies) /\ Base.policies = {} /\ Base.stream = FALSE
  BY DEF Base, Confs, Once
<1>4. PICK there \in BOOLEAN : /\ stream = [exists |-> there, enabled |-> there]
                               /\ conf = [Base EXCEPT !.stream = there]
  BY DEF Init
<1>5. /\ conf \in Confs /\ conf.policies = {} /\ conf.stream = there
      /\ stream \in [exists : BOOLEAN, enabled : BOOLEAN]
      /\ stream.exists = there /\ stream.enabled = there
  BY <1>3, <1>4 DEF Confs
<1>6. TypeOK /\ TablesOK
  <2>1. proc \in [Procs -> Handlers]
    BY <1>2 DEF Init
  <2>2. host \in [exists : BOOLEAN, enabled : BOOLEAN, to : Targets \cup {None}] /\ ~host.exists
    BY DEF Init, NoHost
  <2>3. /\ subjects \in [Routes -> SUBSET Domains] /\ hostKind \in {"redirect", "error"}
        /\ ops \in 0 .. MaxOps /\ streamOk \in BOOLEAN
    BY DEF Init
  <2>4. owed \in [main : SUBSET (Routes \cup Targets), policies : SUBSET Routes]
    BY DEF Init, Nothing
  <2>5. routes \subseteq Routes /\ forced \subseteq routes /\ forceHttps \in BOOLEAN
    BY DEF Init
  <2>. QED
    BY <1>5, <2>1, <2>2, <2>3, <2>4, <2>5 DEF TypeOK, TablesOK, Handlers
<1>7. HandlersOK
  BY <1>1, <1>2 DEF HandlersOK, Current, AsLeft, Idle
<1>8. StreamAlone
  BY <1>1 DEF StreamAlone, Idle, StreamOps
<1>9. StreamFollowsRow
  BY <1>5 DEF StreamFollowsRow
<1>10. WhatWasPutStays /\ OneSubjectOnePolicy
  BY <1>5 DEF Init, WhatWasPutStays, Nothing, OneSubjectOnePolicy
<1>. QED
  BY <1>6, <1>7, <1>8, <1>9, <1>10 DEF IInv

------------------------------------------------------------------------------
(* The steps.                                                               *)

LEMMA RequestsKeep ==
    ASSUME IInv, NEW p \in Procs, Answered(p) \/ Rejected(p) \/ Fails(p) \/ NoSuchServer(p)
    PROVE  IInv'
<1>. DEFINE q == proc[p]
<1>2. CASE Answered(p)
  <2>1. PICK f \in Following(q) : Becomes(p, f)
    BY <1>2 DEF Answered
  <2>. QED
    BY <1>2, <2>1, RequestKeeps DEF Answered, Concludes, Settled
<1>3. CASE Rejected(p)
  <2>1. q.pc # "idle" /\ Refused(q) /\ UNCHANGED conf /\ Remember(q, q.pc = "open")
    BY <1>3 DEF Rejected
  <2>2. q.pc = "open" => conf' = Effect(q)
    BY <2>1 DEF Refused, Effect, ServedAfter, IInv, TypeOK, Confs
  <2>3. PICK ok \in BOOLEAN : Remember(q, ok) /\ (ok <=> q.pc = "open")
    BY <2>1
  <2>. QED
    BY <1>3, <2>1, <2>2, <2>3, RequestKeeps DEF Rejected, GivesUp, Settled
<1>4. CASE Fails(p)
  BY <1>4, RequestKeeps DEF Fails, GivesUp, Settled
<1>5. CASE NoSuchServer(p)
  <2>. DEFINE f == [q EXCEPT !.pc = "base"]
  <2>1. q \in Handlers /\ Fits(q) /\ Once(q.read.policies) /\ q.pc = "server"
    BY <1>5 DEF NoSuchServer, IInv, TypeOK, Handlers, HandlersOK
  <2>2. /\ f \in Handlers /\ f.pc = "base" /\ f.op = q.op /\ f.x = q.x /\ f.read = q.read
        /\ f.alone = q.alone
    BY <2>1 DEF Handlers, Pending
  <2>3. Fits(f)
    BY <2>1, <2>2 DEF Fits
  <2>4. /\ proc' \in [Procs -> Handlers] /\ proc'[p] = f
        /\ \A r \in Procs \ {p} : Spared(r, q)
    BY <1>5, <2>2, BecomesFacts DEF NoSuchServer
  <2>5. UNCHANGED <<subjects, hostKind, routes, forced, forceHttps, host, stream, conf, ops, owed, streamOk>>
    BY <1>5 DEF NoSuchServer, fixed, tables, history
  <2>6. TypeOK' /\ TablesOK' /\ WhatWasPutStays' /\ OneSubjectOnePolicy'
    BY <2>4, <2>5 DEF IInv, TypeOK, TablesOK, Handlers, WhatWasPutStays, OneSubjectOnePolicy
  <2>7. \A r \in Procs : proc'[r].op = proc[r].op /\ (proc'[r].alone => proc[r].alone)
    BY <2>2, <2>4 DEF Spared
  <2>8. HandlersOK'
    <3>1. ASSUME NEW r \in Procs
          PROVE  /\ Fits(proc'[r]) /\ Once(proc'[r].read.policies)
                 /\ Current(proc'[r], conf') /\ AsLeft(proc'[r], stream')
      <4>1. /\ Fits(proc[r]) /\ Once(proc[r].read.policies)
            /\ Current(proc[r], conf) /\ AsLeft(proc[r], stream)
        BY DEF IInv, HandlersOK
      <4>2. CASE r = p
        BY <2>1, <2>2, <2>3, <2>4, <2>5, <4>1, <4>2 DEF Current, AsLeft
      <4>3. CASE r # p
        <5>1. /\ proc'[r].op = proc[r].op /\ proc'[r].pc = proc[r].pc /\ proc'[r].x = proc[r].x
              /\ proc'[r].read = proc[r].read /\ (proc'[r].alone => proc[r].alone)
          BY <2>4, <4>3 DEF Spared
        <5>. QED
          BY <2>5, <4>1, <5>1 DEF Fits, Current, AsLeft
      <4>. QED
        BY <4>2, <4>3
    <3>. QED
      BY <3>1 DEF HandlersOK
  <2>9. StreamAlone'
    BY <2>7 DEF IInv, StreamAlone
  <2>10. StreamFollowsRow'
    BY <2>5, <2>7 DEF IInv, StreamFollowsRow, Running
  <2>. QED
    BY <2>6, <2>8, <2>9, <2>10 DEF IInv
<1>. QED
  BY <1>2, <1>3, <1>4, <1>5

LEMMA RouteHandlersKeep ==
    ASSUME IInv, NEW p \in Procs, NEW r \in Routes,
           CreateRoute(p, r) \/ UpdateRoute(p, r) \/ DeleteRoute(p, r)
    PROVE  IInv'
<1>1. TablesOK
  BY DEF IInv
<1>2. CASE CreateRoute(p, r)
  <2>1. TablesOK' /\ stream' = stream /\ Begin(p, "create", "read", r)
    BY <1>1, <1>2 DEF CreateRoute, TablesOK
  <2>2. Fits([op |-> "create", pc |-> "read", x |-> r])
    BY DEF Fits, Openers, Closers, RouteOps
  <2>. QED
    BY <2>1, <2>2, BeginKeeps DEF RouteOps, Pending, StreamOps
<1>3. CASE UpdateRoute(p, r)
  <2>1. TablesOK' /\ stream' = stream /\ Begin(p, "update", "read", r)
    BY <1>1, <1>3 DEF UpdateRoute, TablesOK
  <2>2. Fits([op |-> "update", pc |-> "read", x |-> r])
    BY DEF Fits, Openers, Closers, RouteOps
  <2>. QED
    BY <2>1, <2>2, BeginKeeps DEF RouteOps, Pending, StreamOps
<1>4. CASE DeleteRoute(p, r)
  <2>1. TablesOK' /\ stream' = stream /\ Begin(p, "delete", "remove", r)
    BY <1>1, <1>4 DEF DeleteRoute, TablesOK, tables
  <2>2. Fits([op |-> "delete", pc |-> "remove", x |-> r])
    BY DEF Fits, Openers, Closers, RouteOps
  <2>. QED
    BY <2>1, <2>2, BeginKeeps DEF RouteOps, Pending, StreamOps
<1>. QED
  BY <1>2, <1>3, <1>4

LEMMA HostHandlersKeep ==
    ASSUME IInv, NEW p \in Procs, NEW to \in Targets, NEW on \in BOOLEAN,
           CreateHost(p, to) \/ UpdateHost(p, to) \/ DeleteHost(p) \/ ToggleHost(p, on)
    PROVE  IInv'
<1>1. TablesOK
  BY DEF IInv
<1>2. CASE CreateHost(p, to)
  <2>1. TablesOK' /\ Begin(p, "hostCreate", "post", to) /\ stream' = stream
    BY <1>1, <1>2 DEF CreateHost, TablesOK
  <2>2. Fits([op |-> "hostCreate", pc |-> "post", x |-> to])
    BY <1>1, <1>2 DEF CreateHost, TablesOK, Fits, Openers, Closers, RouteOps
  <2>. QED
    BY <1>1, <1>2, <2>1, <2>2, BeginKeeps DEF HostOps, Pending, StreamOps, CreateHost, TablesOK
<1>3. CASE UpdateHost(p, to)
  <2>1. TablesOK' /\ Begin(p, "hostUpdate", "patch", to) /\ stream' = stream
    BY <1>1, <1>3 DEF UpdateHost, TablesOK
  <2>2. Fits([op |-> "hostUpdate", pc |-> "patch", x |-> to])
    BY <1>1, <1>3 DEF UpdateHost, TablesOK, Fits, Openers, Closers, RouteOps
  <2>. QED
    BY <1>1, <1>3, <2>1, <2>2, BeginKeeps DEF HostOps, Pending, StreamOps, UpdateHost, TablesOK
<1>4. CASE DeleteHost(p)
  <2>1. TablesOK' /\ Begin(p, "hostDelete", "remove", host.to) /\ stream' = stream
    BY <1>1, <1>4 DEF DeleteHost, TablesOK, tables
  <2>2. Fits([op |-> "hostDelete", pc |-> "remove", x |-> host.to])
    BY <1>1, <1>4 DEF DeleteHost, TablesOK, Fits, Openers, Closers, RouteOps
  <2>. QED
    BY <1>1, <1>4, <2>1, <2>2, BeginKeeps DEF HostOps, Pending, StreamOps, DeleteHost, TablesOK
<1>5. CASE ToggleHost(p, on)
  <2>1. TablesOK' /\ stream' = stream /\ host.to \in Targets
    BY <1>1, <1>5 DEF ToggleHost, TablesOK
  <2>2. PICK op \in HostOps, pc \in {"remove", "post", "patch"} : Begin(p, op, pc, host.to)
    BY <1>5 DEF ToggleHost, HostOps
  <2>3. Fits([op |-> op, pc |-> pc, x |-> host.to])
    BY <2>1, <2>2 DEF Fits, Openers, Closers, RouteOps, HostOps
  <2>. QED
    BY <2>1, <2>2, <2>3, BeginKeeps DEF HostOps, Pending, StreamOps
<1>. QED
  BY <1>2, <1>3, <1>4, <1>5

LEMMA StreamHandlersKeep ==
    ASSUME IInv, NEW p \in Procs, NEW on \in BOOLEAN,
           CreateStream(p) \/ UpdateStream(p) \/ DeleteStream(p) \/ ToggleStream(p, on)
    PROVE  IInv'
<1>1. TablesOK
  BY DEF IInv
<1>2. CASE CreateStream(p)
  <2>1. TablesOK' /\ Begin(p, "streamCreate", "open", None) /\ stream'.enabled
    BY <1>1, <1>2 DEF CreateStream, TablesOK
  <2>2. Fits([op |-> "streamCreate", pc |-> "open", x |-> None])
    BY <1>1, <1>2 DEF CreateStream, TablesOK, Fits, Openers, Closers, RouteOps
  <2>. QED
    BY <1>1, <1>2, <2>1, <2>2, BeginKeeps DEF StreamOps, Pending, StreamOps, CreateStream, TablesOK
<1>3. CASE UpdateStream(p)
  <2>1. TablesOK' /\ Begin(p, "streamUpdate", "open", None)
    BY <1>1, <1>3 DEF UpdateStream, TablesOK, tables
  <2>2. Fits([op |-> "streamUpdate", pc |-> "open", x |-> None])
    BY <1>1, <1>3 DEF UpdateStream, TablesOK, Fits, Openers, Closers, RouteOps
  <2>. QED
    BY <1>1, <1>3, <2>1, <2>2, BeginKeeps DEF StreamOps, Pending, StreamOps, UpdateStream, TablesOK
<1>4. CASE DeleteStream(p)
  <2>1. TablesOK' /\ Begin(p, "streamDelete", "close", None)
    BY <1>1, <1>4 DEF DeleteStream, TablesOK, tables
  <2>2. Fits([op |-> "streamDelete", pc |-> "close", x |-> None])
    BY <1>1, <1>4 DEF DeleteStream, TablesOK, Fits, Openers, Closers, RouteOps
  <2>. QED
    BY <1>1, <1>4, <2>1, <2>2, BeginKeeps DEF StreamOps, Pending, StreamOps, DeleteStream, TablesOK
<1>5. CASE ToggleStream(p, on) /\ on
  <2>1. TablesOK' /\ Begin(p, "streamOn", "open", None) /\ stream'.enabled
    BY <1>1, <1>5 DEF ToggleStream, TablesOK
  <2>2. Fits([op |-> "streamOn", pc |-> "open", x |-> None])
    BY <1>1, <1>5 DEF ToggleStream, TablesOK, Fits, Openers, Closers, RouteOps
  <2>. QED
    BY <1>1, <1>5, <2>1, <2>2, BeginKeeps DEF StreamOps, Pending, StreamOps, ToggleStream, TablesOK
<1>6. CASE ToggleStream(p, on) /\ ~on
  <2>1. TablesOK' /\ Begin(p, "streamOff", "close", None) /\ ~stream'.enabled
    BY <1>1, <1>6 DEF ToggleStream, TablesOK
  <2>2. Fits([op |-> "streamOff", pc |-> "close", x |-> None])
    BY <1>1, <1>6 DEF ToggleStream, TablesOK, Fits, Openers, Closers, RouteOps
  <2>. QED
    BY <1>1, <1>6, <2>1, <2>2, BeginKeeps DEF StreamOps, Pending, StreamOps, ToggleStream, TablesOK
<1>. QED
  BY <1>2, <1>3, <1>4, <1>5, <1>6

LEMMA WideHandlersKeep ==
    ASSUME IInv, NEW p \in Procs, NEW on \in BOOLEAN,
           SetForceHttps(p, on) \/ Renew(p) \/ Reload(p) \/ Bootstrap(p)
    PROVE  IInv'
<1>1. TablesOK' /\ stream' = stream
  BY DEF IInv, TablesOK, SetForceHttps, Renew, Reload, Bootstrap, tables
<1>2. PICK op \in WideOps, pc \in {"redirectOn", "redirectOff", "read", "server"} :
          Begin(p, op, pc, None) /\ (pc = "read" => op = "renew")
  BY DEF SetForceHttps, Renew, Reload, Bootstrap, WideOps
<1>3. Fits([op |-> op, pc |-> pc, x |-> None])
  BY <1>2 DEF Fits, Openers, Closers, RouteOps, WideOps
<1>. QED
  BY <1>1, <1>2, <1>3, BeginKeeps DEF WideOps, Pending, StreamOps

LEMMA RestartsKeep ==
    ASSUME IInv, CaddyRestarts \/ ApplicationRestarts
    PROVE  IInv'
<1>1. /\ Base \in Confs /\ Once(Base.policies) /\ Idle \in Handlers /\ Fits(Idle)
      /\ Once(Idle.read.policies)
  BY IdleFits DEF Base, Confs, Once
<1>2. CASE CaddyRestarts
  <2>1. UNCHANGED <<subjects, hostKind, routes, forced, forceHttps, host, stream, ops>>
    BY <1>2 DEF CaddyRestarts, fixed, tables
  <2>2. conf' = Base /\ owed' = Nothing /\ streamOk' = FALSE
    BY <1>2 DEF CaddyRestarts
  <2>3. proc \in [Procs -> Handlers]
    BY DEF IInv, TypeOK, Handlers
  <2>4. ASSUME NEW r \in Procs
        PROVE  /\ proc'[r] \in Handlers /\ proc'[r].alone = FALSE
               /\ proc'[r].op = proc[r].op /\ proc'[r].pc = proc[r].pc /\ proc'[r].x = proc[r].x
               /\ proc'[r].read = proc[r].read
    BY <1>2, <2>3 DEF CaddyRestarts, Handlers
  <2>5. proc' \in [Procs -> Handlers]
    BY <1>2, <2>4 DEF CaddyRestarts
  <2>6. TypeOK' /\ TablesOK'
    BY <1>1, <2>1, <2>2, <2>5 DEF IInv, TypeOK, TablesOK, Handlers, Nothing
  <2>7. HandlersOK'
    <3>1. \A r \in Procs : Fits(proc[r]) /\ Once(proc[r].read.policies)
      BY DEF IInv, HandlersOK
    <3>2. \A r \in Procs : Fits(proc'[r]) /\ Once(proc'[r].read.policies)
      BY <2>4, <3>1 DEF Fits
    <3>. QED
      BY <2>4, <3>2 DEF HandlersOK, Current, AsLeft
  <2>8. StreamAlone' /\ StreamFollowsRow' /\ WhatWasPutStays' /\ OneSubjectOnePolicy'
    BY <1>1, <2>2, <2>4 DEF StreamAlone, StreamFollowsRow, WhatWasPutStays, Nothing, OneSubjectOnePolicy, Once
  <2>. QED
    BY <2>6, <2>7, <2>8 DEF IInv
<1>3. CASE ApplicationRestarts
  <2>1. /\ UNCHANGED <<subjects, hostKind, routes, forced, forceHttps, host, stream, conf, ops, owed>>
        /\ streamOk' = (streamOk /\ Running(StreamOps) = {})
        /\ proc' = [r \in Procs |-> Idle]
    BY <1>3 DEF ApplicationRestarts, fixed, tables
  <2>2. TypeOK' /\ TablesOK'
    BY <1>1, <2>1 DEF IInv, TypeOK, TablesOK, Handlers
  <2>3. HandlersOK' /\ StreamAlone'
    BY <1>1, <2>1 DEF HandlersOK, StreamAlone, Current, AsLeft, Idle, StreamOps
  <2>4. StreamFollowsRow' /\ WhatWasPutStays' /\ OneSubjectOnePolicy'
    BY <2>1 DEF IInv, StreamFollowsRow, WhatWasPutStays, OneSubjectOnePolicy
  <2>. QED
    BY <2>2, <2>3, <2>4 DEF IInv
<1>. QED
  BY <1>2, <1>3

THEOREM NextIInv == IInv /\ [Next]_vars => IInv'
<1>. SUFFICES ASSUME IInv, [Next]_vars PROVE IInv'
  OBVIOUS
<1>1. ASSUME NEW p \in Procs, Answered(p) \/ Rejected(p) \/ Fails(p) \/ NoSuchServer(p)
      PROVE  IInv'
  BY <1>1, RequestsKeep
<1>2. ASSUME NEW p \in Procs, NEW r \in Routes,
             CreateRoute(p, r) \/ UpdateRoute(p, r) \/ DeleteRoute(p, r)
      PROVE  IInv'
  BY <1>2, RouteHandlersKeep
<1>3. ASSUME NEW p \in Procs, NEW to \in Targets, CreateHost(p, to) \/ UpdateHost(p, to)
      PROVE  IInv'
  BY <1>3, HostHandlersKeep
<1>4. ASSUME NEW p \in Procs, DeleteHost(p)
      PROVE  IInv'
  <2>1. PICK to \in Targets : to = host.to
    BY <1>4 DEF DeleteHost, IInv, TablesOK
  <2>. QED
    BY <1>4, <2>1, HostHandlersKeep
<1>5. ASSUME NEW p \in Procs, NEW on \in BOOLEAN, ToggleHost(p, on)
      PROVE  IInv'
  <2>1. PICK to \in Targets : to = host.to
    BY <1>5 DEF ToggleHost, IInv, TablesOK
  <2>. QED
    BY <1>5, <2>1, HostHandlersKeep
<1>6. ASSUME NEW p \in Procs, NEW on \in BOOLEAN,
             CreateStream(p) \/ UpdateStream(p) \/ DeleteStream(p) \/ ToggleStream(p, on)
      PROVE  IInv'
  BY <1>6, StreamHandlersKeep
<1>7. ASSUME NEW p \in Procs, NEW on \in BOOLEAN,
             SetForceHttps(p, on) \/ Renew(p) \/ Reload(p) \/ Bootstrap(p)
      PROVE  IInv'
  BY <1>7, WideHandlersKeep
<1>8. CASE CaddyRestarts \/ ApplicationRestarts
  BY <1>8, RestartsKeep
<1>9. CASE UNCHANGED vars
  BY <1>9 DEF vars, fixed, tables, history, IInv, TypeOK, TablesOK, HandlersOK, Fits, Once, Current,
     AsLeft, StreamAlone, WhatWasPutStays, OneSubjectOnePolicy, StreamFollowsRow, Running
<1>10. TRUE \in BOOLEAN
  OBVIOUS
<1>. QED
  BY <1>1, <1>2, <1>3, <1>4, <1>5, <1>6, <1>7, <1>8, <1>9, <1>10 DEF Next

THEOREM Inductive == Spec => []IInv
BY InitIInv, NextIInv, PTL DEF Spec

------------------------------------------------------------------------------
(* The handlers, the tables and the configuration are what they should be,  *)
(* whatever they are made of.                                               *)
THEOREM TypeCorrect == Spec => []TypeOK
<1>1. IInv => TypeOK
  BY DEF IInv
<1>. QED
  BY Inductive, <1>1, PTL

(* However upserts of policies, reloads and renewals overlap, fail or are   *)
(* cut short (client.ts, upsertTlsPolicy), no domain has two policies.      *)
THEOREM PolicyIsUnique == Spec => []OneSubjectOnePolicy
<1>1. IInv => OneSubjectOnePolicy
  BY DEF IInv
<1>. QED
  BY Inductive, <1>1, PTL

(* What Caddy accepted stays until something that says so takes it away     *)
(* (client.ts, addRoute, replaceRoutes, upsertTlsPolicy; certificates.ts).  *)
THEOREM PutIsKept == Spec => []WhatWasPutStays
<1>1. IInv => WhatWasPutStays
  BY DEF IInv
<1>. QED
  BY Inductive, <1>1, PTL

(* A stream is open just if it is switched on, when its handlers ran one at *)
(* a time and were answered (streams.ts).                                   *)
THEOREM StreamIsRight == Spec => []StreamFollowsRow
<1>1. IInv => StreamFollowsRow
  BY DEF IInv
<1>. QED
  BY Inductive, <1>1, PTL
===============================================================================
