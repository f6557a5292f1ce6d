----------------------------- MODULE Republish -----------------------------
(***************************************************************************)
(* A subscription that is converted, served, and converted again: what one *)
(* /sub request answers (generator/, as interfaces/subconverter.rs calls   *)
(* it) is what the next one reads (parser/explodes/common.rs).             *)
(*                                                                         *)
(* A content is [form, top, lines]: "ini", "quanx" and "mellow" are texts  *)
(* of lines, "links" a list of share links, "clash", "ssd", "v2ray",       *)
(* "netch", "sip008" and "singbox" documents.  top: the airport of SSD.    *)
(* The requests neither filter, rename nor sort, and all have the same ext.*)
(***************************************************************************)
EXTENDS ShareLinks, JsonConf, JsonTargets, ClashText

CONSTANTS Sources,   \* the contents a chain starts from
          Exts,      \* the settings of its requests
          MaxHops    \* bounds the length of a chain

\* The forms that are read: what is not recognised has no node.
Readable == {"ini", "links", "clash", "ssd", "v2ray", "netch"}
ASSUME RequestAssumption ==
    /\ MaxHops \in Nat
    /\ \A c \in Sources : c.form \in Readable /\ IsList(c.lines)
    /\ \A e \in Exts : /\ e.max \in Nat /\ IsList(e.rulesets)
                        /\ e.scv \in {"", "true", "false"}
                        /\ \A i \in DOMAIN e.rulesets : IsList(e.rulesets[i].rules)

VARIABLES content,   \* the subscription as it was last answered
          nodes,     \* the nodes read from it
          ext,
          hops

vars == <<content, nodes, ext, hops>>

Content(form, lines) ==
    [form |-> form, top |-> <<>>, lines |-> lines, groups |-> <<>>, rules |-> <<>>]

-----------------------------------------------------------------------------
(* Reading: explode_conf_content() looks for what is typical of a format.  *)

QuanHeads == {"vmess", "shadowsocks", "shadowsocksr", "http", "trojan"}
LooksQuan(l) == ~IsHeader(l) /\ \E head \in QuanHeads : StartsWith(Kind(l.items), head)

\* One "[Proxy]" anywhere makes it a text of Surge.
ReadIni(lines) ==
    IF Header("Proxy") \in ToSet(lines) THEN ExplodeSurge(lines)
    ELSE Given(\E i \in DOMAIN lines : LooksQuan(lines[i]), ExplodeQuan(lines))

\* explode_sub(): a link a line, and a line that is none is passed over.
ReadLinks(links) == FlattenSeq([i \in DOMAIN links |-> Explode(links[i])])

\* What QuantumultX, Mellow, SIP008 and sing-box are given is not recognised.
ReadContent(c) ==
    CASE c.form = "ini" -> ReadIni(c.lines)
      [] c.form = "links" -> ReadLinks(c.lines)
      [] c.form = "clash" -> ExplodeClash(c.lines)
      [] c.form = "ssd" -> ExplodeSsd(c.top, c.lines)
      [] c.form = "v2ray" -> ExplodeVmessConf(c.lines)
      [] c.form = "netch" -> ExplodeNetchConf(c.lines)
      [] OTHER -> <<>>

-----------------------------------------------------------------------------
Init ==
    /\ content \in Sources /\ ext \in Exts /\ hops = 0
    /\ nodes = ReadContent(content)

\* "No nodes were found!" ends a request before anything is written.
Publish(c) ==
    /\ hops < MaxHops /\ nodes # <<>>
    /\ content' = c /\ nodes' = ReadContent(content')
    /\ hops' = hops + 1 /\ UNCHANGED ext

\* A generator that panics answers nothing.
PublishWhole(form, out) ==
    /\ ~out.panic
    /\ Publish([Content(form, out.lines) EXCEPT !.groups = out.groups, !.rules = out.rules])

ToClash(clash_r) == PublishWhole("clash", ProxyToClash(nodes, clash_r, ext))
ToSurge(ver) == PublishWhole("ini", ProxyToSurge(nodes, ver, ext))
ToLoon == PublishWhole("ini", ProxyToLoon(nodes, ext))
ToQuan == PublishWhole("ini", ProxyToQuan(nodes, ext))
ToQuanX == PublishWhole("quanx", ProxyToQuanX(nodes, ext))
ToMellow == PublishWhole("mellow", ProxyToMellow(nodes, ext))
ToLinks(types) == Publish(Content("links", ProxyToSingle(nodes, types)))
ToSsd == Publish([Content("ssd", ProxyToSsd(nodes)) EXCEPT !.top = SsdTop])
ToSsSub == Publish(Content("sip008", ProxyToSsSub(nodes)))
ToSingBox == PublishWhole("singbox", ProxyToSingBox(nodes, ext))

\* The targets of links: ss, ssr (with ss), v2ray, trojan and mixed.
LinkTargets == {{"SS"}, {"SS", "SSR"}, {"VMESS"}, {"TROJAN"}, {"SS", "SSR", "VMESS", "TROJAN"}}

Next ==
    \/ \E clash_r \in BOOLEAN : ToClash(clash_r)
    \/ \E ver \in {2, 3, 4, Surfboard} : ToSurge(ver)
    \/ ToLoon \/ ToQuan \/ ToQuanX \/ ToMellow
    \/ \E types \in LinkTargets : ToLinks(types)
    \/ ToSsd \/ ToSsSub \/ ToSingBox

Spec == Init /\ [][Next]_vars

-----------------------------------------------------------------------------
(* Properties.                                                             *)

\* The types of the variables: a node has a known type, its flag is a flag and
\* its port a number of 16 bits.
TypeOK ==
    /\ content.form \in Readable \cup {"quanx", "mellow", "sip008", "singbox"}
    /\ hops \in 0..MaxHops /\ ext \in Exts
    /\ \A i \in DOMAIN nodes :
        nodes[i].type \in Types /\ nodes[i].scv \in {"", "true", "false"} /\ IsU16(nodes[i].port)

\* Whatever is written and read on the way, no node is made up, moved before
\* another one, given another endpoint or the credential of another node.
Chain == INSTANCE Relay
Relays == Chain!Spec

\* The texts of a line, and the nodes it may be the line of.
Texts(c, i) ==
    IF c.form = "links" THEN {c.lines[i].host}
    ELSE {c.lines[i].items[k][2] : k \in DOMAIN c.lines[i].items}
Mentions(c, i, n) == \E v \in Texts(c, i) : Within(v, n.server)

\* The spellings of "do not verify the certificate"; the end of a line may have an '='.
OffItems == {<<k, v>> : k \in {"skip-cert-verify", "insecure", "tls.allowinsecure"},
                        v \in {"true", "true="}}
            \cup {<<"tls-verification", "false">>, <<"certificate", "0">>, <<"certificate", "0=">>}
Off(c, i) ==
    IF c.form = "links" THEN Q(c.lines[i], "allowInsecure") = "1"
    ELSE ToSet(c.lines[i].items) \cap OffItems # {}

\* A node's own flag comes before the request's, save for VLESS, whose own is not asked.
Asked(n) ==
    IF n.type # "vless" /\ n.scv # "" THEN n.scv = "true" ELSE ext.scv = "true"

\* In every format, the certificate of a server is left unverified only if the
\* node said so, or said nothing and the request did.
VerificationKept ==
    [][\A i \in DOMAIN content'.lines :
          Off(content', i) =>
            \E j \in DOMAIN nodes : Asked(nodes[j]) /\ Mentions(content', i, nodes[j])]_vars

\* The name the line of a node has in its format.
NameOf(c, i) ==
    IF c.form = "quanx" THEN Opt(c.lines[i].items, "tag") ELSE c.lines[i].name

\* Two nodes never have one name in a text whose groups name them, even if the
\* source names them alike or names one like another with a number.
NamesApart ==
    [][content'.form \in {"ini", "clash", "quanx", "mellow", "singbox"} /\ ~ext.nodelist =>
        \A i, k \in DOMAIN content'.lines :
            /\ i # k /\ NameOf(content', i) # "" /\ NameOf(content', i) = NameOf(content', k)
            => ~\E j \in DOMAIN nodes : Mentions(content', i, nodes[j])]_vars

\* The nodes whose link is another one's, or none: an IPv6 server is written without the
\* brackets a url wants, and a Shadowsocks link is split at every ':'; a Trojan password is
\* written as it is.
Breaks(n) ==
    \/ n.type \in {"ss", "ssr"} /\ IsIpv6(n.server)
    \/ n.type = "trojan" /\ (~HostParses(n.server) \/ Has(n.secret, {":", "/", "?", "#"}))

\* The nodes that links of these types carry to a reader: its parsers want a port, and of
\* Trojan a server and a password; links of ShadowsocksR are written and not read.
Carried(n, types) ==
    /\ ~Breaks(n)
    /\ \/ n.type = "ss" /\ "SS" \in types /\ n.port # "0"
       \/ n.type = "ssr" /\ "SS" \in types /\ "SSR" \notin types /\ n.port # "0"
          /\ PlainSsr(n, SsCiphers)
       \/ n.type = "vmess" /\ "VMESS" \in types
       \/ n.type = "trojan" /\ "TROJAN" \in types /\ n.port # "0"
          /\ n.server # "" /\ n.secret # ""

\* A broken link may be read all the same, with a part for the whole.
Misread(n, types) == Breaks(n) /\ ReadLinks(SingleLink(n, types)) # <<>>

\* m is n as its link tells it: the same endpoint and credentials, a name if it had none,
\* TLS if it had TLS or is Trojan, and verified unless a Trojan node said otherwise.  What
\* a url escapes in a Trojan password stays escaped.
ToldByLink(m, n) ==
    /\ m.type = IF n.type = "ssr" THEN "ss" ELSE n.type
    /\ m.server = n.server /\ m.port = n.port
    /\ m.name = IF n.type = "vmess" THEN n.name ELSE Default(n.name, n.server, n.port)
    /\ m.user = IF n.type = "vmess" THEN Or(n.user, NilUuid) ELSE ""
    /\ m.secret = CASE n.type = "trojan" -> Encoded(n.secret)
                    [] n.type = "vmess" -> ""
                    [] OTHER -> n.secret
    /\ n.type \in {"ss", "ssr"} => m.cipher = n.cipher
    /\ m.tls <=> n.type = "trojan" \/ (n.type = "vmess" /\ n.tls)
    /\ m.scv = "true" <=> n.type = "trojan" /\ n.scv = "true"

\* A list of links arrives whole: one node for each that its type of link can carry, in
\* the order they were sent, and each is the node that was sent.  A link that breaks is
\* lost, or stands for one node in its place; it costs no other link its node.
LinksReadBack ==
    [][\A types \in LinkTargets : ToLinks(types) =>
        LET sent == Those(nodes, LAMBDA n : Carried(n, types) \/ Misread(n, types)) IN
        /\ Len(nodes') = Len(sent)
        /\ \A k \in DOMAIN sent :
              Carried(sent[k], types) => ToldByLink(nodes'[k], sent[k])]_vars

\* The nodes whose entries Clash's own parser reads: it wants a port, and every credential
\* of the type, which are not written when they are empty.
Legible(n) ==
    /\ n.port # "0"
    /\ n.type \in {"ss", "ssr", "vmess"} => n.cipher # ""
    /\ n.type \in {"ss", "ssr", "trojan", "hysteria2", "snell", "wireguard"} => n.secret # ""
    /\ n.type \in {"vmess", "wireguard"} => n.user # ""
    /\ n.type = "ssr" => n.protocol # "" /\ n.obfs # ""

\* m is n as its entry tells it: the name of the entry, the same endpoint, credentials and
\* protection, and verified or not as it was asked.  VMess entries do not tell TLS, and
\* Snell and WireGuard have no certificate.
ToldByClash(m, name, n) ==
    /\ m.type = n.type /\ m.name = name /\ m.server = n.server /\ m.port = n.port
    /\ n.type \in {"vmess", "vless", "http", "socks5", "wireguard"} => m.user = n.user
    /\ n.type \notin {"vmess", "vless"} => m.secret = n.secret
    /\ n.type \in {"ss", "ssr", "vmess"} => m.cipher = n.cipher
    /\ n.type = "ss" => m.plugin = n.plugin
    /\ n.type = "ssr" => m.protocol = n.protocol
    /\ n.type \in {"ssr", "snell", "hysteria", "hysteria2"} => m.obfs = n.obfs
    /\ n.type \in {"vmess", "trojan", "vless"} => m.net = n.net
    /\ n.type \in {"trojan", "hysteria", "hysteria2", "vless", "anytls"} => m.sni = n.sni
    /\ m.tls <=> n.type = "vless" /\ n.tls
    /\ m.scv = "true" <=> n.type \notin {"snell", "wireguard"} /\ Asked(n)

\* A Clash configuration has an entry for every node that is not skipped, in their order,
\* and Clash's own parser reads back every legible one, whole.
ClashReadBack ==
    [][\A clash_r \in BOOLEAN : ToClash(clash_r) =>
        LET put == Those(nodes, LAMBDA n : ~ShouldSkip(n, clash_r, ext))
            entries == [i \in DOMAIN put |-> [name |-> content'.lines[i].name, node |-> put[i]]]
            sent == Those(entries, LAMBDA e : Legible(e.node)) IN
        /\ Len(content'.lines) = Len(put) /\ Len(nodes') = Len(sent)
        /\ \A k \in DOMAIN sent : ToldByClash(nodes'[k], sent[k].name, sent[k].node)]_vars

\* What a ruleset may contribute, in its order, as <<value, group>>: Surge leaves a
\* logical rule the group it names itself, and a url may stand for its list.
Listed(rs) ==
    LET rules == IF Panics(rs) THEN <<>> ELSE ConvertRuleset(rs)
        value(r) == IF Len(r) = 1 THEN "" ELSE r[2]
    IN  FlattenSeq([i \in DOMAIN rules |->
            << <<value(rules[i]), rs.group>> >>
            \o Given(Logical(rules[i]) /\ Len(rules[i]) > 2, <<Tail(rules[i])>>)])
        \o Given(rs.at = "url", << <<rs.path, rs.group>> >>)
ListedAll(list) == FlattenSeq([i \in DOMAIN list |-> Listed(list[i])])
KeyOf(rule) == IF Len(rule) = 2 THEN <<"", rule[2]>> ELSE <<rule[2], rule[3]>>

\* What was written for the rulesets, and which of it the limit is for.
Fixed == ToSet(ClashModes) \cup ToSet(BaseConf["clash"]) \cup ToSet(BaseConf["singbox"])
         \cup {<<"protocol", "dns", "dns-out">>}
Own(rules) == SelectSeq(rules, LAMBDA r : r \notin Fixed /\ r[1] # "final")
CountedOf(rules) == SelectSeq(Own(rules), LAMBDA r : r[1] # "RULE-SET")

\* A rule stands in the list, and the next one behind it.
InOrder(written, listed) ==
    \A k \in DOMAIN written : \E i \in DOMAIN listed :
        /\ listed[i] = KeyOf(written[k])
        /\ k < Len(written) => \E j \in (i + 1)..Len(listed) : listed[j] = KeyOf(written[k + 1])

WithPolicy(c) == c.form \in {"ini", "quanx", "mellow", "singbox", "clash"} /\ ~ext.nodelist

\* sing-box is given no rule of a list that is an IPv6 network, for it has none of Clash's
\* types of that name.
Foreign(rs, form) == form = "singbox" /\ ~rs.marked /\ rs.rules[1][1] = "IP-CIDR6"

\* The first rule that matches decides, so in every format the rules stand in the order of
\* the rulesets, each with its own group; no more than allowed are written, and while
\* there is room no inline rule is missing.
RulesInOrder ==
    [][WithPolicy(content') =>
        LET rules == content'.rules
            list == RulesetsOf(nodes, ext) IN
        /\ \E own \in {Own(rules)}, listed \in {ListedAll(list)} : InOrder(own, listed)
        /\ ext.max > 0 => Len(CountedOf(rules)) <= ext.max
        /\ ext.max = 0 \/ Len(CountedOf(rules)) < ext.max =>
            \A i \in DOMAIN list : list[i].at = "inline" /\ ~Foreign(list[i], content'.form) =>
                \E k \in DOMAIN rules : KeyOf(rules[k]) \in ToSet(Listed(list[i]))]_vars

\* With prepend_proxy_direct_ruleset the traffic to a server of a node never goes through
\* a node: in Clash and sing-box every server has a rule that sends it directly, and only
\* what no ruleset wrote, or another such rule, stands before it.  In sing-box this fails
\* the servers that are IPv6 addresses, which get no rule at all.
DirectKey(n) ==
    <<IF IsIpv6(n.server) THEN n.server \o "/128"
      ELSE IF IsIpv4(n.server) THEN n.server \o "/32" ELSE n.server, "DIRECT">>
Ruled(n, form) == form = "clash" \/ ~IsIpv6(n.server)
DirectFirst ==
    [][WithPolicy(content') /\ content'.form \in {"clash", "singbox"} /\ ext.direct
       /\ (ext.max = 0 \/ Len(nodes) <= ext.max) =>
        \A j \in DOMAIN nodes : Ruled(nodes[j], content'.form) =>
            \E k \in DOMAIN content'.rules :
                /\ KeyOf(content'.rules[k]) = DirectKey(nodes[j])
                /\ \A i \in 1..(k - 1) :
                    \/ content'.rules[i] \in Fixed
                    \/ \E m \in DOMAIN nodes :
                          KeyOf(content'.rules[i]) = DirectKey(nodes[m])]_vars

\* Every group is written, with at least one member, and a member is one the request
\* spelt out, a policy the client has, or the name of a proxy of the same text (but for
\* the '=' of LinesAsWritten).  Surge and Loon list the names from before the numbering
\* and are left out of the last part.
ByNumber(c) == c.form # "ini" \/ Header("POLICY") \in ToSet(c.lines)
SpeltOut == UNION {ToSet(RuleTexts(Groups[g])) : g \in DOMAIN Groups}
GroupsTold ==
    [][WithPolicy(content') /\ content'.form # "clash" =>
        LET groups == content'.groups
            named == {NameOf(content', i) : i \in DOMAIN content'.lines} IN
        /\ \A g \in DOMAIN Groups : Groups[g].type \in StaticTypes =>
            \E h \in DOMAIN groups : groups[h].name = Groups[g].name /\ groups[h].members # <<>>
        /\ ByNumber(content') => \A h \in DOMAIN groups :
            \A m \in ToSet(groups[h].members) \ (SpeltOut \cup {"DIRECT", "direct"}) :
                {m, m \o "="} \cap named # {}]_vars

\* A line set under "{NONAME}" is written as it is (the comment of
\* set_current_with_noname(), ini_reader.rs:700).  It is not: the generators
\* pass the line as the key, and the '=' of an empty value is written after it.
LinesAsWritten ==
    [][content'.form = "ini" /\ ~ext.nodelist =>
        \A i \in DOMAIN content'.lines :
            LET l == content'.lines[i] IN
            ~IsHeader(l) => ~HasEq(l.items[Len(l.items)][2])]_vars
=============================================================================
