----------------------------- MODULE LineConf -----------------------------
(***************************************************************************)
(* parser/explodes/surge.rs and quan.rs: the parsers of configurations     *)
(* that hold one proxy per line.                                           *)
(*                                                                         *)
(* Data: a line is its name (the text before the first '=') and its items, *)
(* split at the commas; a section header is a line without items.  A value *)
(* may hold an '=' or a quote, like in the code; other lines are left out. *)
(***************************************************************************)
EXTENDS ProxyNode

Line(name, items) == [name |-> name, items |-> items]
IsText(lines) ==
    IsList(lines) /\ \A i \in DOMAIN lines : lines[i] = Line(lines[i].name, lines[i].items)
Header(section) == Line("[" \o section \o "]", <<>>)

HasEq(v) == \E i \in 1..Len(v) : CharAt(v, i) = "="
Quote(v) == "\"" \o v \o "\""
Unquote(v) ==
    LET upto[i \in 0..Len(v)] ==
            IF i = 0 THEN "" ELSE upto[i - 1] \o (IF CharAt(v, i) = "\"" THEN "" ELSE CharAt(v, i))
    IN  upto[Len(v)]

-----------------------------------------------------------------------------
(* Surge: item 1 is the type, 2 the server, 3 the port.                    *)

Kind(c) == Arg(c, 1)
Server(c) == Arg(c, 2)
Port(c) == Arg(c, 3)

\* The `key=value` parts from a position on; `split('=')` drops those whose value holds an '='.
Options(c, from) ==
    SelectSeq(SubSeq(c, from, Len(c)), LAMBDA item : item[1] # "" /\ ~HasEq(item[2]))
SurgeFlag(opts, k) == Flag(Opt(opts, k))
SimpleObfs(opts) == IF \E i \in DOMAIN opts : opts[i][1] = "obfs" THEN "simple-obfs" ELSE ""

\* Options are read from the seventh part on: the sixth is the url of the module.
ParseSurgeCustomSs(name, c) ==
    Given(Len(c) >= 5 /\ Port(c) \in Ports,
        <<SsConstruct(name, Server(c), Port(c), Arg(c, 5), Arg(c, 4),
                      SimpleObfs(Options(c, 7)), "")>>)

ParseSurgeSs(name, c) ==
    LET opts == Options(c, 4) IN
    Given(Len(c) >= 3 /\ Port(c) \in Ports,
        <<SsConstruct(name, Server(c), Port(c), Opt(opts, "password"),
                      Opt(opts, "encrypt-method"), SimpleObfs(opts),
                      SurgeFlag(opts, "skip-cert-verify"))>>)

\* A prefix is compared here, so that a value may hold an '='; 0 is a port.
ParseSurgeHttp(name, c) ==
    LET opts == SubSeq(c, 4, Len(c)) IN
    Given(Len(c) >= 3 /\ IsU16(Port(c)),
        <<HttpConstruct(name, Server(c), Port(c), Opt(opts, "username"), Opt(opts, "password"),
            Kind(c) = "https",
            IF <<"skip-cert-verify", "true">> \in ToSet(opts) THEN "true" ELSE "")>>)

\* The credentials are the fourth and the fifth part, whatever they say.
ParseSurgeSocks(name, c) ==
    LET named(i) == IF Len(c) >= 5 THEN Arg(c, i) ELSE "" IN
    Given(Len(c) >= 3 /\ IsU16(Port(c)),
        <<SocksConstruct(name, Server(c), Port(c), named(4), named(5),
                         SurgeFlag(Options(c, 6), "skip-cert-verify"))>>)

ParseSurgeVmess(name, c) ==
    LET opts == Options(c, 4)
        host == SelectSeq(opts, LAMBDA item : item[1] \in {"obfs-host", "ws-headers"})
    IN  Given(Len(c) >= 3 /\ Port(c) \in Ports,
            <<VmessConstruct(name, Server(c), Port(c), Opt(opts, "username"),
                IF Opt(opts, "ws") = "true" THEN "ws" ELSE "tcp", "auto",
                IF host = <<>> THEN "" ELSE host[Len(host)][2],
                IF Opt(opts, "tls") = "true" THEN "tls" ELSE "", "",
                SurgeFlag(opts, "skip-cert-verify"))>>)

ParseSurgeTrojan(name, c) ==
    LET opts == Options(c, 4)
        fourth == IF c[4][1] = "password" THEN c[4][2] ELSE Arg(c, 4)
    IN  Given(Len(c) >= 4 /\ Port(c) \in Ports,
            <<TrojanConstruct(name, Server(c), Port(c), Or(Opt(opts, "password"), fourth), "",
                Opt(opts, "sni"), "", TRUE, SurgeFlag(opts, "skip-cert-verify"))>>)

ParseSurgeSnell(name, c) ==
    LET opts == Options(c, 4) IN
    Given(Len(c) >= 3 /\ Port(c) \in Ports /\ Opt(opts, "psk") # "",
        <<SnellConstruct(name, Server(c), Port(c), Opt(opts, "psk"), Opt(opts, "obfs"),
                         Opt(opts, "obfs-host"), SurgeFlag(opts, "skip-cert-verify"))>>)

ParseSurgeLine(l) ==
    CASE Kind(l.items) = "custom" -> ParseSurgeCustomSs(l.name, l.items)
      [] Kind(l.items) \in {"ss", "shadowsocks"} -> ParseSurgeSs(l.name, l.items)
      [] Kind(l.items) \in {"socks5", "socks5-tls"} -> ParseSurgeSocks(l.name, l.items)
      [] Kind(l.items) = "vmess" -> ParseSurgeVmess(l.name, l.items)
      [] Kind(l.items) \in {"http", "https"} -> ParseSurgeHttp(l.name, l.items)
      [] Kind(l.items) = "trojan" -> ParseSurgeTrojan(l.name, l.items)
      [] Kind(l.items) = "snell" -> ParseSurgeSnell(l.name, l.items)
      [] OTHER -> <<>>       \* direct and reject too

\* Only the lines below a "[Proxy]" header, to the next header.
IsHeader(l) == l.items = <<>>
InProxySection(lines, i) ==
    LET before == {j \in 1..(i - 1) : IsHeader(lines[j])}
    IN  /\ ~IsHeader(lines[i]) /\ before # {}
        /\ lines[CHOOSE j \in before : \A k \in before : k <= j] = Header("Proxy")
ExplodeSurge(lines) ==
    FlattenSeq([i \in DOMAIN lines |->
        IF InProxySection(lines, i) THEN ParseSurgeLine(lines[i]) ELSE <<>>])

-----------------------------------------------------------------------------
(* Quantumult: most of a line is read by position, and quotes stay.        *)

QuanScv(c, from) ==
    IF <<"tls-verification", "false">> \in ToSet(SubSeq(c, from, Len(c))) THEN "true" ELSE ""

ParseQuanSs(name, c) ==
    Given(Len(c) >= 5 /\ Port(c) \in Ports,
        <<SsConstruct(name, Server(c), Port(c), Arg(c, 5), Arg(c, 4),
            IF \E i \in 6..Len(c) : c[i][1] = "obfs" THEN "obfs" ELSE "", QuanScv(c, 6))>>)

ParseQuanSsr(name, c) ==
    Given(Len(c) >= 9 /\ Port(c) \in Ports,
        <<SsrConstruct(name, Server(c), Port(c), Arg(c, 6), Arg(c, 4), Arg(c, 8), Arg(c, 5),
                       QuanScv(c, 10))>>)

\* Of "tls-host" and the Host of "obfs-header" the last one written counts; one "obfs=ws" is enough.
ParseQuanVmess(name, c) ==
    LET opts == SubSeq(c, 6, Len(c))
        host == SelectSeq(opts, LAMBDA item : item[1] \in {"tls-host", "obfs-header"})
    IN  Given(Len(c) >= 6 /\ Port(c) \in Ports,
            <<VmessConstruct(name, Server(c), Port(c), Unquote(Arg(c, 5)),
                IF <<"obfs", "ws">> \in ToSet(opts) THEN "ws" ELSE "tcp", Arg(c, 4),
                IF host = <<>> THEN "" ELSE Unquote(host[Len(host)][2]),
                IF Opt(opts, "over-tls") = "true" THEN "tls" ELSE "", "", "")>>)

ParseQuanHttp(name, c) ==
    Given(Len(c) >= 3 /\ Port(c) \in Ports,
        <<HttpConstruct(name, Server(c), Port(c), Arg(c, 4), Arg(c, 5),
            <<"over-tls", "true">> \in ToSet(SubSeq(c, 6, Len(c))), QuanScv(c, 6))>>)

ParseQuanTrojan(name, c) ==
    LET host == Opt(SubSeq(c, 5, Len(c)), "tls-host") IN
    Given(Len(c) >= 4 /\ Port(c) \in Ports,
        <<TrojanConstruct(name, Server(c), Port(c), Arg(c, 4), "", host, host, TRUE,
                          QuanScv(c, 5))>>)

ParseQuanLine(l) ==
    CASE Kind(l.items) = "vmess" -> ParseQuanVmess(l.name, l.items)
      [] Kind(l.items) = "shadowsocks" -> ParseQuanSs(l.name, l.items)
      [] Kind(l.items) = "shadowsocksr" -> ParseQuanSsr(l.name, l.items)
      [] Kind(l.items) = "http" -> ParseQuanHttp(l.name, l.items)
      [] Kind(l.items) = "trojan" -> ParseQuanTrojan(l.name, l.items)
      [] OTHER -> <<>>
ExplodeQuan(lines) == FlattenSeq([i \in DOMAIN lines |-> ParseQuanLine(lines[i])])
=============================================================================
