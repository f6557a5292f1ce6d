------------------------------- MODULE Relay -------------------------------
(***************************************************************************)
(* What a chain of conversions promises, whatever the formats in between:  *)
(* nodes may be lost on the way, but those that arrive are nodes that were *)
(* sent, in the order they were sent, at the same endpoint or at what a    *)
(* link cut out of theirs, of the same kind, and without the credential of *)
(* another one.                                                            *)
(***************************************************************************)
EXTENDS LineConf

VARIABLE nodes

\* A plain ShadowsocksR node may be passed on as Shadowsocks, HTTPS as HTTP.
Family(type) == CASE type = "ssr" -> "ss" [] type = "https" -> "http" [] OTHER -> type

SameEndpoint(n, m) == n.server = m.server /\ n.port = m.port
\* What a link does to an address that has a ':', and to a password that has an '@' and
\* what ends the place of a url.
Cut(n, m) ==
    \/ n.type \in {"ss", "ssr"} /\ StartsWith(n.server, m.server \o ":" \o m.port)
    \/ n.type = "trojan" /\ Has(n.secret, {"/", "?", "#"}) /\ Within(n.secret, "@" \o m.server)
\* A password may come out in quotes.  An empty one is nobody's, nor is the option
\* that stands where the reader of another format looks for a password.
Nobodys == {"", "tls=true", "tls=false"}
NotOf(o, n, m) ==
    Unquote(o.secret) \notin Nobodys /\ ~Within(n.secret, o.secret) =>
        ~Within(m.secret, o.secret) /\ ~Within(m.user, o.secret)

Arrives(sent, j, m) ==
    /\ Family(sent[j].type) = Family(m.type)
    /\ SameEndpoint(sent[j], m) \/ Cut(sent[j], m)
    /\ \A i \in DOMAIN sent \ {j} : NotOf(sent[i], sent[j], m)

\* The first node after the last one matched that may be this one.
Passed(sent, arrived) ==
    LET at[i \in 0..Len(arrived)] ==
            IF i = 0 THEN 0
            ELSE LET last == at[i - 1]
                     later == {j \in DOMAIN sent : j > last /\ Arrives(sent, j, arrived[i])}
                 IN  IF later = {} THEN Len(sent) + 1
                     ELSE CHOOSE j \in later : \A k \in later : j <= k
    IN  at[Len(arrived)] <= Len(sent)

Init == \A i \in DOMAIN nodes : nodes[i].type \in Types
Next == Passed(nodes, nodes')
Spec == Init /\ [][Next]_nodes
=============================================================================
