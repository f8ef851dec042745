-------------------------- MODULE MCNginxConverter --------------------------
(****************************************************************************)
(* Configurations for NginxConverter: four shapes of nesting with every     *)
(* choice of a few leaves, and the same with one token left out.            *)
(****************************************************************************)
EXTENDS NginxConverter

Leaf(k)     == <<k, ";">>
Block(k, b) == <<k, "{">> \o b \o <<"}">>

\* Two servers in one http block: what one leaves behind for the other.
Servers ==
    {Block("http", Leaf(k[1]) \o Block("server", Leaf(k[2]) \o Leaf(k[3])) \o Block("server", Leaf(k[4]) \o Leaf(k[5]))) :
        k \in {"header", "keepalive"} \X {"header", "read", "pass"} \X {"header", "pass"} \X {"keepalive", "header"}
              \X {"pass", "send"}}

\* A location with an if, between the leaves of its server.
Locations ==
    {Block("server", Leaf(k[1]) \o Block("location", Leaf(k[2]) \o Leaf(k[3]) \o Block(k[4], Leaf(k[5]))) \o Leaf(k[6])) :
        k \in {"header", "emit"} \X {"pass", "emit", "read"} \X {"header", "keepalive", "unknown"}
              \X {"if", "location", "note"} \X {"pass", "emit", "header"} \X {"pass", "upstream"}}

Nested ==
    {Block("location", Leaf(k[1]) \o Block("if", Leaf(k[2]) \o Block(k[3], Leaf("emit"))) \o Leaf(k[4])) :
        k \in {"silent", "emit"} \X {"write", "header"} \X {"if", "server"} \X {"emit", "pass"}}

\* Headers and timeouts around one or more proxy_pass of a location.
Options ==
    {Block("location", Leaf(k[1]) \o Leaf(k[2]) \o Leaf(k[3])) :
        k \in {"header", "read", "write", "keepalive", "send", "pass"} \X {"read", "write", "keepalive", "send", "pass"}
              \X {"header", "read", "write", "keepalive", "send", "pass"}}

Broken == {RemoveAt(s, i) : <<s, i>> \in
    {Block("http", Block("location", Leaf(k) \o Leaf("pass"))) : k \in {"header", "send", "emit"}} \X (1 .. 10)}

MCSources == Servers \cup Locations \cup Nested \cup Options \cup Broken \cup {<<"emit">>}
=============================================================================
