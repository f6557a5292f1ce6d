----------------------------- MODULE ProxyNode -----------------------------
(***************************************************************************)
(* A node (models/proxy.rs, models/builder.rs) and the text it is read     *)
(* from and written to.                                                    *)
(*                                                                         *)
(* Data: every value is a string, "" for an absent or empty one, and a     *)
(* flag is "", "true" or "false".  Of a node's fields those are kept that  *)
(* say where it is, who may use it and how it is protected; paths,         *)
(* fingerprints, alter ids, udp, fast open, speeds and peers are left out. *)
(* A line of text is a sequence of items <<key, value>>, the key "" where  *)
(* the value stands alone.  Names and secrets hold no comma and no line    *)
(* break; a server is a name or an IP address, an IPv6 address with or     *)
(* without brackets and spelt as Url::parse spells it; a plugin comes with *)
(* its options.                                                            *)
(***************************************************************************)
EXTENDS Integers, Sequences, SequencesExt

CONSTANTS Ports,     \* the texts of numbers from 1 to 65535
          Wrapped,   \* the texts of numbers above, to their last 16 bits
          Addresses, \* servers that are IP addresses, IPv6 ones without brackets
          NoEq       \* names with '=', to the same with '-'

ASSUME TextAssumption ==
    /\ Ports \subseteq STRING /\ "0" \notin Ports /\ "" \notin Ports
    /\ {"80", "443", "8388", "51820"} \subseteq Ports      \* the defaults of the parsers
    /\ DOMAIN Wrapped \subseteq STRING /\ DOMAIN Wrapped \cap (Ports \cup {"0", ""}) = {}
    /\ \A p \in DOMAIN Wrapped : Wrapped[p] \in Ports \cup {"0"}
    /\ \A s \in DOMAIN NoEq : NoEq[s] \notin DOMAIN NoEq

-----------------------------------------------------------------------------
(* Text.                                                                   *)

Or(v, default) == IF v = "" THEN default ELSE v
Given(cond, seq) == IF cond THEN seq ELSE <<>>
IsList(s) == s \in Seq(ToSet(s))
\* The elements that pass a test, in their order.
Those(seq, Test(_)) == FlattenSeq([i \in DOMAIN seq |-> Given(Test(seq[i]), <<seq[i]>>)])
CharAt(v, i) == SubSeq(v, i, i)
StartsWith(v, head) == Len(v) >= Len(head) /\ SubSeq(v, 1, Len(head)) = head
Within(v, w) == \E i \in 1..(Len(v) - Len(w) + 1) : SubSeq(v, i, i + Len(w) - 1) = w
\* A text has one of these characters; what is before the first, and behind it.
Has(v, chars) == \E i \in 1..Len(v) : CharAt(v, i) \in chars
FirstAt(v, chars) ==
    CHOOSE i \in 1..Len(v) : CharAt(v, i) \in chars /\ \A j \in 1..(i - 1) : CharAt(v, j) \notin chars
Before(v, chars) == IF Has(v, chars) THEN SubSeq(v, 1, FirstAt(v, chars) - 1) ELSE v
After(v, chars) == IF Has(v, chars) THEN SubSeq(v, FirstAt(v, chars) + 1, Len(v)) ELSE ""
TextOf(b) == IF b THEN "true" ELSE "false"

\* parse::<u16>(), .unwrap_or(0) and `as u16`
IsU16(text) == text \in Ports \cup {"0"}
U16(text) == IF IsU16(text) THEN text ELSE "0"
AsU16_Kept(text) == text          \* mutant: the number is not cut to 16 bits
AsU16(text) == IF text \in DOMAIN Wrapped THEN Wrapped[text] ELSE U16(text)

\* is_ipv6(), "a placeholder", and what it leaves for is_ipv4()
IsIpv6(server) == Has(server, {":"})
IsIpv4(server) == server \in Addresses /\ ~IsIpv6(server)

Flag(text) == IF text = "" THEN "" ELSE IF text \in {"1", "true"} THEN "true" ELSE "false"

\* The value of a key (the last one counts) and of a position of a line. A part
\* that is read by its position is taken whole, so "key=value" is a value too.
Opt(line, k) ==
    LET at == {i \in DOMAIN line : line[i][1] = k}
    IN  IF at = {} THEN "" ELSE line[CHOOSE i \in at : \A j \in at : j <= i][2]
Arg(line, i) ==
    IF i > Len(line) THEN ""
    ELSE IF line[i][1] = "" THEN line[i][2] ELSE line[i][1] \o "=" \o line[i][2]

Pos(values) == [i \in DOMAIN values |-> <<"", values[i]>>]
\* `key=value` when there is something to write
Item(k, v) == Given(v # "", << <<k, v>> >>)

Default(name, server, port) == Or(name, server \o " (" \o port \o ")")

-----------------------------------------------------------------------------
(* Nodes.                                                                  *)

Types == {"ss", "ssr", "vmess", "trojan", "snell", "http", "https", "socks5",
          "wireguard", "hysteria", "hysteria2", "vless", "anytls"}

CommonConstruct(type, name, server, port) ==
    [type |-> type, name |-> name, server |-> server, port |-> port,
     user |-> "", secret |-> "", cipher |-> "", plugin |-> "", protocol |-> "",
     obfs |-> "", net |-> "", host |-> "", sni |-> "", tls |-> FALSE, scv |-> ""]

NilUuid == "00000000"

VmessConstruct(name, server, port, id, net, cipher, host, tls, sni, scv) ==
    [CommonConstruct("vmess", name, server, port) EXCEPT
        !.user = Or(id, NilUuid), !.cipher = cipher, !.net = Or(net, "tcp"),
        !.host = IF net = "quic" THEN ""
                 ELSE IF server \in Addresses THEN host ELSE Or(host, server),
        !.tls = (tls = "tls"), !.sni = sni, !.scv = scv]

SsConstruct(name, server, port, password, method, plugin, scv) ==
    [CommonConstruct("ss", name, server, port) EXCEPT
        !.secret = password, !.cipher = method, !.plugin = plugin, !.scv = scv]

SsrConstruct(name, server, port, protocol, method, obfs, password, scv) ==
    [CommonConstruct("ssr", name, server, port) EXCEPT
        !.secret = password, !.cipher = method, !.protocol = protocol,
        !.obfs = obfs, !.scv = scv]

SocksConstruct(name, server, port, username, password, scv) ==
    [CommonConstruct("socks5", name, server, port) EXCEPT
        !.user = username, !.secret = password, !.scv = scv]

HttpConstruct(name, server, port, username, password, tls, scv) ==
    [CommonConstruct(IF tls THEN "https" ELSE "http", name, server, port) EXCEPT
        !.user = username, !.secret = password, !.tls = tls, !.scv = scv]

TrojanConstruct(name, server, port, password, net, host, sni, tls, scv) ==
    [CommonConstruct("trojan", name, server, port) EXCEPT
        !.secret = password, !.net = net, !.host = host, !.sni = sni,
        !.tls = tls, !.scv = scv]

SnellConstruct(name, server, port, password, obfs, host, scv) ==
    [CommonConstruct("snell", name, server, port) EXCEPT
        !.secret = password, !.obfs = obfs, !.host = host, !.scv = scv]

\* user: the public key
WireguardConstruct(name, server, port, private_key, public_key) ==
    [CommonConstruct("wireguard", name, server, port) EXCEPT
        !.user = public_key, !.secret = private_key]

HysteriaConstruct(type, name, server, port, password, obfs, sni, scv) ==
    [CommonConstruct(type, name, server, port) EXCEPT
        !.secret = password, !.obfs = obfs, !.sni = sni, !.scv = scv]

\* process_remark(): '=' is replaced, and a name in the list gets the first free number.
Numbered(name, c) == name \o " " \o ToString(c)

\* mutant: the new name is not looked up again.
ProcessRemark_Once(name, list) ==
    IF name \in ToSet(list) THEN Numbered(name, 2) ELSE name

ProcessRemark(name, list) ==
    LET n == IF name \in DOMAIN NoEq THEN NoEq[name] ELSE name
    IN  IF n \notin ToSet(list) THEN n
        ELSE Numbered(n, CHOOSE c \in 2..(Len(list) + 2) :
                            /\ Numbered(n, c) \notin ToSet(list)
                            /\ \A d \in 2..(c - 1) : Numbered(n, d) \in ToSet(list))
=============================================================================
