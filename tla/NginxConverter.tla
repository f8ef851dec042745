--------------------------- MODULE NginxConverter ---------------------------
(****************************************************************************)
(* The converter from nginx configurations to Caddy directives              *)
(* (packages/converter/src: parser/parser.ts, translator/walker.ts,         *)
(* translator/translators.ts).                                              *)
(*                                                                          *)
(* A source is a sequence of tokens: words, each standing for a directive   *)
(* of some kind, and punctuation.  The parser numbers the directives in     *)
(* document order; the walk is a stack of the calls of walkDirectives (and  *)
(* of the translator of `if`), each with the context it works on.  A        *)
(* context refers to the object with its pending headers and to the one     *)
(* with its pending transport options, and contexts may share these.        *)
(****************************************************************************)
EXTENDS Integers, FiniteSets, SequencesExt

CONSTANT Sources     \* the token sequences converted

(* Directives whose translators do the same to the state of the walk are   *)
(* one kind.  "read" stands for the timeout that keepalive_timeout sets    *)
(* too and "write" for the one that send_timeout sets too; "emit" for what *)
(* answers with a directive, "note" for what answers with a note only,     *)
(* "silent" for gzip off and its like, "if" for a test of the method.      *)
Modifiers == {"header", "read", "write"}
Transport == {"read", "write", "keepalive", "send"}
Blocks    == {"http", "server", "location", "if"}
Words     == Modifiers \cup Transport \cup Blocks
             \cup {"pass", "emit", "note", "silent", "unknown", "upstream"}
Semicolon == ";"
Open      == "{"
Close     == "}"
Tokens    == Words \cup {Semicolon, Open, Close}

ASSUME SourcesAssumption == Sources \subseteq Seq(Tokens)

\* What a directive is when the next one became its argument (no semicolon).
Spoilt(k) ==
    CASE k \in {"header", "read", "write", "pass", "if"} -> "note"
      [] k = "send" -> "silent"
      [] OTHER      -> k

VARIABLES
    source,
    pos,           \* the parser's next token
    kind, parent,  \* the directives parsed; the parent of one outside blocks is 0
    nest,          \* the blocks the parser is in, the innermost last
    phase,         \* "item", "args" (the parser), "walk", "done" or "error"
    stack,         \* the calls of the walk, the innermost last
    headers,       \* objects with pending headers: sets of directives
    transport,     \* objects with pending options: field -> directive, 0 if unset
    output,        \* the items of the whole translation
    proxied,       \* the headers and options every proxy_pass has picked up
    noted,         \* directives some note is about
    warned         \* headers reported to have no effect

parseVars == <<source, pos, kind, parent, nest>>
walkVars  == <<stack, headers, transport, output, proxied, noted, warned>>
vars      == <<parseVars, phase, walkVars>>

Directives   == 1 .. Len(kind)
InnermostOf(s) == IF s = <<>> THEN 0 ELSE Last(s)

Init ==
    /\ source \in Sources
    /\ pos = 1 /\ kind = <<>> /\ parent = <<>> /\ nest = <<>>
    /\ phase = "item"
    /\ stack = <<>> /\ headers = <<>> /\ transport = <<>> /\ output = <<>>
    /\ proxied = <<>> /\ noted = {} /\ warned = {}

(***************************************************************************)
(* The parser.                                                             *)
(***************************************************************************)
Token == IF pos > Len(source) THEN "eof" ELSE source[pos]

Name ==
    /\ phase = "item" /\ Token \in Words
    /\ kind' = Append(kind, Token)
    /\ parent' = Append(parent, InnermostOf(nest))
    /\ pos' = pos + 1
    /\ phase' = "args"
    /\ UNCHANGED <<source, nest, walkVars>>

Argument ==
    /\ phase = "args" /\ Token \in Words
    /\ kind' = [kind EXCEPT ![Len(kind)] = Spoilt(@)]
    /\ pos' = pos + 1
    /\ UNCHANGED <<source, parent, nest, phase, walkVars>>

EndDirective ==
    /\ phase = "args" /\ Token \in {Semicolon, Open}
    /\ nest' = IF Token = Open THEN Append(nest, Len(kind)) ELSE nest
    /\ pos' = pos + 1
    /\ phase' = "item"
    /\ UNCHANGED <<source, kind, parent, walkVars>>

EndBlock ==
    /\ phase = "item" /\ Token = Close /\ nest # <<>>
    /\ nest' = Front(nest)
    /\ pos' = pos + 1
    /\ UNCHANGED <<source, kind, parent, phase, walkVars>>

ParseError ==
    /\ \/ phase = "item" /\ Token \in {Semicolon, Open}
       \/ phase = "item" /\ Token = Close /\ nest = <<>>
       \/ phase = "item" /\ Token = "eof" /\ nest # <<>>
       \/ phase = "args" /\ Token \in {Close, "eof"}
    /\ phase' = "error"
    /\ UNCHANGED <<parseVars, walkVars>>

(***************************************************************************)
(* The walk.                                                               *)
(***************************************************************************)
IsIf(b)   == b # 0 /\ kind[b] = "if"
Children(b) == SelectSeq([i \in Directives |-> i], LAMBDA c : parent[c] = b)

\* An item of the output: its directive, the locations whose handles it is in,
\* and whether it is, or is in, a handle at the top of its list.
Item(d, under, handle) == [d |-> d, under |-> under, handle |-> handle]

NoOptions == [read |-> 0, write |-> 0]

\* Seeded fault: one pass, in the order of the source.
OnePass(ds) == ds

\* Modifiers first, so that emitters find them whatever the source's order.
TwoPasses(ds) ==
    SelectSeq(ds, LAMBDA d : kind[d] \in Modifiers) \o SelectSeq(ds, LAMBDA d : kind[d] \notin Modifiers)

\* A call: its block, the location it is in, what is left to do, its output,
\* and the two objects of its context.  `if` takes its children in their order.
Call(b, loc, h, t) ==
    [block |-> b, loc |-> loc, items |-> <<>>, headers |-> h, transport |-> t,
     todo |-> IF IsIf(b) THEN Children(b) ELSE TwoPasses(Children(b))]

\* Seeded fault: the end of the source ends the blocks that are open.
UnclosedStartWalk ==
    /\ phase = "item" /\ Token = "eof"
    /\ phase' = "walk"
    /\ headers' = <<{}>>
    /\ transport' = <<NoOptions>>
    /\ proxied' = [d \in Directives |-> [headers |-> {}, transport |-> NoOptions]]
    /\ stack' = <<Call(0, 0, 1, 1)>>
    /\ UNCHANGED <<parseVars, output, noted, warned>>

StartWalk ==
    /\ phase = "item" /\ Token = "eof" /\ nest = <<>>
    /\ phase' = "walk"
    /\ headers' = <<{}>>
    /\ transport' = <<NoOptions>>
    /\ proxied' = [d \in Directives |-> [headers |-> {}, transport |-> NoOptions]]
    /\ stack' = <<Call(0, 0, 1, 1)>>
    /\ UNCHANGED <<parseVars, output, noted, warned>>

Top          == Last(stack)
InIf         == IsIf(Top.block)
Ready(kinds) == phase = "walk" /\ Top.todo # <<>> /\ kind[Head(Top.todo)] \in kinds
Current      == Head(Top.todo)

\* The innermost call, with one directive done and some items added.
Done(items)   == [Top EXCEPT !.todo = Tail(@), !.items = @ \o items]
Becomes(call) == stack' = Append(Front(stack), call)
\* `if` keeps the directives its children answer with, not their notes.
Notes(d)      == noted' = IF InIf THEN noted ELSE noted \cup {d}

ProxySetHeader ==
    /\ Ready({"header"})
    /\ headers' = [headers EXCEPT ![Top.headers] = @ \cup {Current}]
    /\ Becomes(Done(<<>>))
    /\ UNCHANGED <<parseVars, phase, transport, output, proxied, noted, warned>>

\* Only two of these answer with a note; keepalive_timeout leaves a value
\* that is there already.
SetTransport ==
    /\ Ready(Transport)
    /\ LET d == Current
       IN  /\ transport' = [transport EXCEPT ![Top.transport] =
                 CASE kind[d] = "read"              -> [@ EXCEPT !.read = d]
                   [] kind[d] = "keepalive"         -> [@ EXCEPT !.read = IF @ = 0 THEN d ELSE @]
                   [] kind[d] \in {"write", "send"} -> [@ EXCEPT !.write = d]]
           /\ IF kind[d] \in {"read", "keepalive"} THEN Notes(d) ELSE UNCHANGED noted
    /\ Becomes(Done(<<>>))
    /\ UNCHANGED <<parseVars, phase, headers, output, proxied, warned>>

(* proxy_pass picks up what is pending and gives its own context new,      *)
(* empty objects; a context that shares the old ones keeps them.           *)
ProxyPass ==
    /\ Ready({"pass"})
    /\ LET d == Current
       IN  /\ proxied' = [proxied EXCEPT ![d] =
                 [headers |-> headers[Top.headers], transport |-> transport[Top.transport]]]
           /\ headers' = Append(headers, {})
           /\ transport' = Append(transport, NoOptions)
           /\ Becomes([Done(<<Item(d, {Top.loc} \ {0}, Top.loc # 0)>>)
                          EXCEPT !.headers = Len(headers) + 1, !.transport = Len(transport) + 1])
    /\ UNCHANGED <<parseVars, phase, output, noted, warned>>

Emit ==
    /\ Ready({"emit"})
    /\ Becomes(Done(<<Item(Current, {}, FALSE)>>))
    /\ UNCHANGED <<parseVars, phase, headers, transport, output, proxied, noted, warned>>

Note ==
    /\ \/ Ready({"note"})
       \/ Ready({"unknown"}) /\ ~InIf
    /\ Notes(Current)
    /\ Becomes(Done(<<>>))
    /\ UNCHANGED <<parseVars, phase, headers, transport, output, proxied, warned>>

\* Inside `if` what is not in the registry is dropped, blocks included.
Skip ==
    /\ \/ Ready({"silent"})
       \/ Ready({"unknown", "upstream", "http", "server", "location"}) /\ InIf
    /\ Becomes(Done(<<>>))
    /\ UNCHANGED <<parseVars, phase, headers, transport, output, proxied, noted, warned>>

WalkUpstreamBlock ==
    /\ Ready({"upstream"}) /\ ~InIf
    /\ noted' = noted \cup {Current}
    /\ Becomes(Done(<<Item(Current, {}, FALSE)>>))
    /\ UNCHANGED <<parseVars, phase, headers, transport, output, proxied, warned>>

(* The contexts of http and server are copies that refer to the objects of *)
(* the context around them; those of location and if have new ones.        *)
Opens(call) == stack' = Append(Append(Front(stack), Done(<<>>)), call)

WalkServerBlock ==
    /\ Ready({"http", "server"}) /\ ~InIf
    /\ Opens(Call(Current, Top.loc, Top.headers, Top.transport))
    /\ UNCHANGED <<parseVars, phase, headers, transport, output, proxied, noted, warned>>

WalkLocationBlock ==
    /\ Ready({"location"}) /\ ~InIf
    /\ headers' = Append(headers, {})
    /\ transport' = Append(transport, NoOptions)
    /\ Opens(Call(Current, Current, Len(headers) + 1, Len(transport) + 1))
    /\ UNCHANGED <<parseVars, phase, output, proxied, noted, warned>>

\* Seeded fault: the context of `if` does not take over the location's path.
PathlessIfBlock ==
    /\ Ready({"if"})
    /\ Notes(Current)
    /\ headers' = Append(headers, {})
    /\ transport' = Append(transport, NoOptions)
    /\ Opens(Call(Current, 0, Len(headers) + 1, Len(transport) + 1))
    /\ UNCHANGED <<parseVars, phase, output, proxied, warned>>

IfBlock ==
    /\ Ready({"if"})
    /\ Notes(Current)
    /\ headers' = Append(headers, {})
    /\ transport' = Append(transport, NoOptions)
    /\ Opens(Call(Current, Top.loc, Len(headers) + 1, Len(transport) + 1))
    /\ UNCHANGED <<parseVars, phase, output, proxied, warned>>

InHandle(items, under) ==
    [i \in DOMAIN items |-> Item(items[i].d, items[i].under \cup under, TRUE)]

(* A location's list with a handle in it is left as it is, any other is    *)
(* put in one; the children of `if` are put in the handle of its matcher.  *)
Wrap(b, items) ==
    CASE IsIf(b) -> Append(InHandle(items, {}), Item(b, {}, TRUE))
      [] b # 0 /\ kind[b] = "location" /\ \A i \in DOMAIN items : ~items[i].handle
                 -> InHandle(items, {b})
      [] OTHER   -> items

\* Seeded fault: what is pending at the end of a block is left to the one around.
SilentEndWalk ==
    /\ phase = "walk" /\ Top.todo = <<>>
    /\ warned' = IF Len(stack) = 1 THEN warned \cup headers[Top.headers] ELSE warned
    /\ LET items == Wrap(Top.block, Top.items)
       IN  IF Len(stack) = 1
           THEN stack' = <<>> /\ output' = items /\ phase' = "done"
           ELSE /\ stack' = Append(SubSeq(stack, 1, Len(stack) - 2),
                                   [stack[Len(stack) - 1] EXCEPT !.items = @ \o items])
                /\ UNCHANGED <<output, phase>>
    /\ UNCHANGED <<parseVars, headers, transport, proxied, noted>>

(* The end of a block: headers that are still pending are reported and     *)
(* forgotten by its own context, but not by `if`.                          *)
EndWalk ==
    /\ phase = "walk" /\ Top.todo = <<>>
    /\ warned' = IF InIf THEN warned ELSE warned \cup headers[Top.headers]
    /\ LET items == Wrap(Top.block, Top.items)
       IN  IF Len(stack) = 1
           THEN stack' = <<>> /\ output' = items /\ phase' = "done"
           ELSE /\ stack' = Append(SubSeq(stack, 1, Len(stack) - 2),
                                   [stack[Len(stack) - 1] EXCEPT !.items = @ \o items])
                /\ UNCHANGED <<output, phase>>
    /\ UNCHANGED <<parseVars, headers, transport, proxied, noted>>

Next ==
    \/ Name \/ Argument \/ EndDirective \/ EndBlock \/ ParseError \/ StartWalk
    \/ ProxySetHeader \/ SetTransport \/ ProxyPass \/ Emit \/ Note \/ Skip
    \/ WalkUpstreamBlock \/ WalkServerBlock \/ WalkLocationBlock \/ IfBlock \/ EndWalk

Spec == Init /\ [][Next]_vars

(***************************************************************************)
(* What the converter promises.  The parser's result is compared with the  *)
(* reading of the source by nesting depth.                                 *)
(***************************************************************************)
Positions == 1 .. Len(source)
Depth(p) == Cardinality({q \in 1 .. p - 1 : source[q] = Open}) - Cardinality({q \in 1 .. p - 1 : source[q] = Close})
AfterWord(p) == p > 1 /\ source[p - 1] \in Words

WellFormed ==
    /\ \A p \in Positions : source[p] \in {Semicolon, Open} => AfterWord(p)
    /\ \A p \in Positions : source[p] = Close => Depth(p) > 0 /\ ~AfterWord(p)
    /\ Depth(Len(source) + 1) = 0 /\ ~AfterWord(Len(source) + 1)

Names == SelectSeq([p \in Positions |-> p], LAMBDA p : source[p] \in Words /\ ~AfterWord(p))
Punctuation(d) == CHOOSE p \in Names[d] .. Len(source) :
    source[p] \notin Words /\ \A q \in Names[d] .. p - 1 : source[q] \in Words
Inside(d, b) ==
    /\ b < d /\ source[Punctuation(b)] = Open
    /\ \A p \in Punctuation(b) + 1 .. Names[d] : Depth(p) > Depth(Punctuation(b))

Ancestors(d) ==
    LET up[n \in 0 .. Len(kind)] == IF n = 0 THEN {} ELSE {n} \cup up[parent[n]]
    IN  up[parent[d]]

(* What does not match is an error, and nothing else is (parse).           *)
JustWellFormed ==
    /\ phase = "error" => ~WellFormed
    /\ phase \in {"walk", "done"} => WellFormed

(* Every source is either translated or reported as wrong (convertNginxTo- *)
(* Caddy, parse): braces and semicolons that do not match are an error,    *)
(* and otherwise the tree is that of the nesting, a directive without its  *)
(* semicolon having taken the next one for an argument.                    *)
ParsedRight ==
    /\ JustWellFormed
    /\ phase \in {"walk", "done"} =>
        /\ Len(kind) = Len(Names)
        /\ \A d \in Directives :
            /\ kind[d] = IF source[Names[d] + 1] \in Words THEN Spoilt(source[Names[d]]) ELSE source[Names[d]]
            /\ Ancestors(d) = {b \in Directives : Inside(d, b)}

Walked(d)  == \A b \in Ancestors(d) : kind[b] \in {"http", "server", "location"}
Answers(d) == {i \in DOMAIN output : output[i].d = d}
Scope(d)   == LET around == {b \in Ancestors(d) : kind[b] \in {"location", "if"}}
              IN  IF around = {} THEN 0 ELSE CHOOSE b \in around : \A c \in around : c <= b
Of(b, k)   == {d \in Directives : parent[d] = b /\ kind[d] = k}

Field(d)     == IF kind[d] \in {"read", "keepalive"} THEN "read" ELSE "write"
PickedUp(o)  == \E p \in Directives : proxied[p].transport[Field(o)] = o
Before(o, p) == kind[o] \in Modifiers \/ o < p

(* What the output and the notes hold of a source, outside `if`: a direc-  *)
(* tive that has a counterpart is in the output, and once, in a handle of  *)
(* `if` too; a header is in a reverse_proxy or in a warning; what has no   *)
(* counterpart is noted.  Only timeouts may get lost without a warning     *)
(* (walkDirectives looks at the pending headers alone, and two of the      *)
(* translators say they were translated): one that no reverse_proxy has,   *)
(* has given way to another, or every proxy_pass of its block came first.  *)
OnlyTimeoutsAreLost ==
    phase = "done" => \A d \in Directives : Walked(d) =>
        /\ kind[d] \in {"emit", "pass", "upstream", "if"} => Cardinality(Answers(d)) = 1
        /\ kind[d] = "header" => d \in warned \/ \E p \in Directives : d \in proxied[p].headers
        /\ kind[d] \in {"note", "unknown", "upstream", "read", "keepalive", "if"} => d \in noted
        /\ kind[d] \in Transport /\ ~PickedUp(d) =>
               \/ \A p \in Of(parent[d], "pass") : ~Before(d, p)
               \/ \E o \in Directives \ {d} :
                      kind[o] \in Transport /\ Field(o) = Field(d) /\ Scope(o) = Scope(d)
        /\ kind[d] = "if" => \A e \in Of(d, "emit") \cup Of(d, "pass") : Cardinality(Answers(e)) = 1

(* A proxy_pass gets no header and no timeout from outside its location or *)
(* `if`.  The first of a block without servers in it gets every header     *)
(* declared beside it; the last of the proxy_ timeouts of each field,      *)
(* wherever they stand, but for a send_timeout before it, which comes      *)
(* last; and some timeout where only a keepalive_timeout stands before it. *)
(* One of these two that stands behind it does not reach it: they are not  *)
(* among the modifiers of walkDirectives.                                  *)
PassGetsItsOptions ==
    phase = "done" => \A p \in Directives : kind[p] = "pass" =>
        LET b    == parent[p]
            read == proxied[p].transport.read
            write == proxied[p].transport.write
            sent == {o \in Of(b, "send") : o < p}
        IN  /\ \A h \in proxied[p].headers : Scope(h) = Scope(p)
            /\ \A o \in {read, write} \ {0} : Scope(o) = Scope(p) /\ (parent[o] = b => Before(o, p))
            /\ Walked(p) /\ Of(b, "http") \cup Of(b, "server") = {} /\ (\A q \in Of(b, "pass") : p <= q) =>
                /\ Of(b, "header") \subseteq proxied[p].headers
                /\ Of(b, "read") # {} => read = Max(Of(b, "read"))
                /\ sent # {} => write = Max(sent)
                /\ sent = {} /\ Of(b, "write") # {} => write = Max(Of(b, "write"))
                /\ (\E o \in Of(b, "keepalive") : o < p) => read # 0

(* walker.ts:22-25: the modifiers are processed first, so that a proxy_pass *)
(* picks them up regardless of source order.                               *)
OptionsInAnyOrder ==
    phase = "done" => \A p, o \in Directives :
        kind[p] = "pass" /\ kind[o] \in Transport /\ parent[o] = parent[p] /\ Walked(p)
        /\ Of(parent[p], "pass") = {p} => proxied[p].transport[Field(o)] # 0

(* walker.ts:55-57: pending headers and transport options that no          *)
(* proxy_pass consumed are surfaced as a warning.                          *)
OrphansAreReported ==
    phase = "done" => \A o \in Directives :
        kind[o] \in Transport /\ Walked(o) /\ (\A p \in Directives : kind[p] # "pass") => o \in warned

(* What a location says applies to its path only: its directives are in a  *)
(* handle of that path, those beside a proxy_pass, an `if` or another      *)
(* location excepted (wrapStandaloneInHandle), the proxy_pass itself       *)
(* always, inside `if` too; and no directive is in a handle of a location  *)
(* that is not around it.                                                  *)
LocationsAreKept ==
    phase = "done" => \A i \in DOMAIN output :
        LET d   == output[i].d
            loc == {b \in Ancestors(d) : kind[b] = "location"}
            b   == parent[d]
        IN  /\ output[i].under \subseteq loc
            /\ kind[d] = "pass" /\ loc # {} => \E l \in output[i].under : \A c \in loc : c <= l
            /\ b \in loc /\ Of(b, "pass") \cup Of(b, "if") \cup Of(b, "location") = {} => b \in output[i].under

(* walker.ts:163: if a location's directives produced anything that wasn't *)
(* already wrapped in a handle, it is wrapped in one of the location.      *)
StandaloneIsWrapped ==
    phase = "done" => \A i \in DOMAIN output :
        kind[output[i].d] = "emit" /\ Scope(output[i].d) # 0 /\ kind[Scope(output[i].d)] = "location"
            => Scope(output[i].d) \in output[i].under
=============================================================================
