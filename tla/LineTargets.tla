---------------------------- MODULE LineTargets ----------------------------
(***************************************************************************)
(* generator/config/formats: surge.rs, loon.rs, quan.rs, quanx.rs and      *)
(* mellow.rs, which write one proxy per line into a base configuration.    *)
(*                                                                         *)
(* Data: a writer gives the items of a node's line, <<>> when it leaves    *)
(* the node out.  Plugin options are "obfs=http", a path is "/", udp, fast *)
(* open and tls13 are not set and Snell is version 1.                      *)
(*                                                                         *)
(* ext: [nodelist, append_type, ssr_path : BOOLEAN, scv : flag]            *)
(***************************************************************************)
EXTENDS TargetGroups

CONSTANT BaseConf   \* the lines of the base of each of the five, the rules of the other two
ASSUME BaseAssumption ==
    /\ \A k \in {"surge", "loon", "quan"} : IsText(BaseConf[k])
    /\ IsList(BaseConf["clash"]) /\ IsList(BaseConf["singbox"])

At(head, n) == Pos(<<head, n.server, n.port>>)
Scv_RequestFirst(n, ext) == Or(ext.scv, n.scv)    \* mutant: the wrong one is the default
Scv(n, ext) == Or(n.scv, ext.scv)
ScvItem(n, ext) == Item("skip-cert-verify", Scv(n, ext))
Obfs(n) == n.plugin \in {"simple-obfs", "obfs-local"}
Method(n) == IF n.cipher = "auto" THEN "chacha20-ietf-poly1305" ELSE n.cipher
HostPort(n) == n.server \o ":" \o n.port

TypedName(n, ext) == IF ext.append_type THEN "[" \o n.type \o "] " \o n.name ELSE n.name
Names(nodes, ext) == [i \in DOMAIN nodes |-> TypedName(nodes[i], ext)]

\* The lines of the texts that are there, under names of their own.
NamedLines(names, texts) ==
    LET upto[i \in 0..Len(names)] ==
            IF i = 0 THEN <<>>
            ELSE IF texts[i] = <<>> THEN upto[i - 1]
            ELSE LET list == [j \in DOMAIN upto[i - 1] |-> upto[i - 1][j].name]
                 IN  Append(upto[i - 1], Line(ProcessRemark(names[i], list), texts[i]))
    IN  upto[Len(names)]

\* A list that is empty all along.
PlainLines(names, texts) ==
    FlattenSeq([i \in DOMAIN names |->
        Given(texts[i] # <<>>, <<Line(ProcessRemark(names[i], <<>>), texts[i])>>)])

LineNames(lines) == [i \in DOMAIN lines |-> lines[i].name]
\* Surge and Loon fill the groups with the names from before the numbering.
KeptNames(nodes, texts, ext) ==
    FlattenSeq([i \in DOMAIN nodes |->
        Given(texts[i] # <<>>, <<TypedName(nodes[i], ext)>>)])

\* What a generator answers: a text, and the groups and the rules that are in it.
Plain(lines) == [lines |-> lines, groups |-> <<>>, rules |-> <<>>, panic |-> FALSE]
Parts(l) == [k \in DOMAIN l.items |-> l.items[k][2]]
Whole(ini, groups, ver, nodes, ext) ==
    LET acc == RulesetToSurge(ini, ver, RulesetsOf(nodes, ext), ext)
        rules == Section(acc.ini, acc.ini.current)
    IN  [lines |-> ToText(acc.ini), groups |-> groups, panic |-> acc.panic,
         rules |-> [i \in DOMAIN rules |-> Parts(rules[i])]]

-----------------------------------------------------------------------------
(* Surge.                                                                  *)

Surfboard == -3
Modern(ver, v) == ver >= v \/ ver = Surfboard

SurgeSs(n, ver) ==
    (IF Modern(ver, 3)
     THEN At("ss", n) \o << <<"encrypt-method", n.cipher>>, <<"password", n.secret>> >>
     ELSE At("custom", n) \o Pos(<<n.cipher, n.secret, "module">>))
    \o Given(Obfs(n), << <<"obfs", "http">> >>)

SurgeVmess(n, ext) ==
    At("vmess", n)
    \o << <<"username", n.user>>, <<"tls", TextOf(n.tls)>>, <<"vmess-aead", "true">> >>
    \o Given(n.net = "ws",
             << <<"ws", "true">>, <<"ws-path", "/">>, <<"sni", Or(n.host, n.server)>> >>
             \o Item("ws-headers", n.host))
    \o ScvItem(n, ext)

SurgeSsr(n) ==
    << <<"", "external">> >> \o Pos(<<n.server, n.port, n.cipher, n.secret, n.obfs, n.protocol>>)
SurgeHysteria2(n, ext) ==
    At("hysteria", n) \o << <<"password", n.secret>> >> \o ScvItem(n, ext) \o Item("sni", n.sni)

SurgeItems(n, ver, ext) ==
    CASE n.type = "ss" /\ (n.plugin = "" \/ Obfs(n)) -> SurgeSs(n, ver)
      [] n.type = "vmess" /\ Modern(ver, 4) /\ n.net \in {"tcp", "ws"} -> SurgeVmess(n, ext)
      [] n.type = "ssr" /\ ext.ssr_path /\ ver >= 2 -> SurgeSsr(n)
      [] n.type = "socks5" ->
            At("socks5", n) \o Item("username", n.user) \o Item("password", n.secret)
            \o ScvItem(n, ext)
      [] n.type \in {"http", "https"} ->
            At("http", n) \o Item("username", n.user) \o Item("password", n.secret)
            \o << <<"tls", TextOf(n.tls)>> >> \o ScvItem(n, ext)
      [] n.type = "trojan" /\ Modern(ver, 4) ->
            At("trojan", n) \o << <<"password", n.secret>> >> \o Item("sni", n.host)
            \o ScvItem(n, ext)
      [] n.type = "snell" ->
            At("snell", n) \o << <<"psk", n.secret>> >>
            \o Given(n.obfs # "", << <<"obfs", n.obfs>> >> \o Item("obfs-host", n.host))
            \o << <<"version", "1">> >>
      [] n.type = "wireguard" /\ Modern(ver, 4) ->
            << <<"", "wireguard">>, <<"section-name", HostPort(n)>> >>
      [] n.type = "hysteria2" /\ ver >= 4 -> SurgeHysteria2(n, ext)
      [] OTHER -> <<>>

\* For Surfboard an HTTPS node ends the loop: it and the nodes after it are not written.
SurgeNodes(nodes, ver) ==
    LET https == {i \in DOMAIN nodes : nodes[i].type = "https"}
    IN  IF ver # Surfboard \/ https = {} THEN nodes
        ELSE SubSeq(nodes, 1, (CHOOSE i \in https : \A j \in https : i <= j) - 1)

WireguardSection(n) ==
    LET pair(k, v) == <<"WireGuard " \o HostPort(n), Line(k, << <<"", v>> >>)>>
    IN  <<pair("private-key", n.secret), pair("peer", n.user)>>
WireguardSections(ini, nodes, ver) ==
    SetPairs(ini, FlattenSeq([i \in DOMAIN nodes |->
        Given(nodes[i].type = "wireguard" /\ Modern(ver, 4), WireguardSection(nodes[i]))]))

ProxyToSurge(all, ver, ext) ==
    LET nodes == SurgeNodes(all, ver)
        lines == NamedLines(Names(nodes, ext), [i \in DOMAIN nodes |-> SurgeItems(nodes[i], ver, ext)])
        proxy == EraseSection(SetCurrentSection(Parse(BaseConf["surge"]), "Proxy"))
        direct == SetPair(proxy, "{NONAME}", Line("DIRECT", Pos(<<"direct">>)))
        groups == SurgeGroups(KeptNames(nodes, [i \in DOMAIN nodes |-> SurgeItems(nodes[i], ver, ext)], ext))
    IN  IF ext.nodelist THEN Plain(lines)
        ELSE IF ~Parse(BaseConf["surge"]).parsed THEN Plain(<<>>)
        ELSE Whole(PutSurgeGroups(SetLines(WireguardSections(direct, nodes, ver), lines), groups),
                   groups, ver, all, ext)

-----------------------------------------------------------------------------
(* Loon.                                                                   *)

LoonSs(n) ==
    At("Shadowsocks", n) \o Pos(<<n.cipher, Quote(n.secret)>>) \o Given(Obfs(n), Pos(<<"http">>))

LoonVmess(n, ext) ==
    At("vmess", n) \o Pos(<<Method(n), Quote(n.user)>>) \o << <<"over-tls", TextOf(n.tls)>> >>
    \o Given(n.tls, << <<"tls-name", n.host>> >>) \o << <<"transport", n.net>> >>
    \o Given(n.net = "ws", << <<"path", "/">>, <<"host", n.host>> >>) \o ScvItem(n, ext)

LoonItems(n, ext) ==
    LET secret == Given(n.secret # "", Pos(<<Quote(n.secret)>>))
        user   == Given(n.user # "", Pos(<<n.user>>))
    IN  CASE n.type = "ss" /\ (n.plugin = "" \/ Obfs(n)) -> LoonSs(n)
          [] n.type = "vmess" /\ n.net \in {"tcp", "ws"} -> LoonVmess(n, ext)
          [] n.type = "ssr" ->
                At("ShadowsocksR", n) \o Pos(<<n.cipher, Quote(n.secret)>>)
                \o << <<"protocol", n.protocol>>, <<"protocol-param", "">>,
                      <<"obfs", n.obfs>>, <<"obfs-param", "">> >>
          [] n.type = "http" -> At("http", n) \o user \o secret
          [] n.type = "https" ->
                At("https", n) \o user \o secret \o Item("tls-name", n.host) \o ScvItem(n, ext)
          [] n.type = "trojan" ->
                At("trojan", n) \o Pos(<<Quote(n.secret)>>) \o Item("tls-name", n.host)
                \o ScvItem(n, ext)
          [] n.type = "socks5" ->
                At("socks5", n) \o Given(n.user # "" /\ n.secret # "", user \o secret)
                \o << <<"over-tls", TextOf(n.tls)>> >>
                \o Given(n.tls, Item("tls-name", n.host) \o ScvItem(n, ext))
          [] n.type = "wireguard" ->
                << <<"", "wireguard">>, <<"interface-ip", "">> >> \o Item("private-key", n.secret)
                \o << <<"peers", n.user \o "@" \o HostPort(n)>> >>
          [] OTHER -> <<>>

\* The names of a node list are not noted, so they may come twice.
ProxyToLoon(nodes, ext) ==
    LET texts == [i \in DOMAIN nodes |-> LoonItems(nodes[i], ext)]
        proxy == EraseSection(SetCurrentSection(Parse(BaseConf["loon"]), "Proxy"))
        groups == LoonGroups(KeptNames(nodes, texts, ext))
    IN  IF ext.nodelist THEN Plain(PlainLines(Names(nodes, ext), texts))
        ELSE IF ~Parse(BaseConf["loon"]).parsed THEN Plain(<<>>)
        ELSE Whole(PutLoonGroups(SetLines(proxy, NamedLines(Names(nodes, ext), texts)), groups),
                   groups, -4, nodes, ext)

-----------------------------------------------------------------------------
(* Quantumult.                                                             *)

Certificate(n, ext) ==
    LET scv == Scv(n, ext) IN
    Given(scv # "", << <<"certificate", IF scv = "true" THEN "0" ELSE "1">> >>)

\* A group of its own for the proxies of http and socks.
Upstream(head, n, ext) ==
    << <<"", head>>, <<"upstream-proxy-address", n.server>>,
       <<"upstream-proxy-port", n.port>>, <<"group", "g">> >>
    \o (IF n.user # "" /\ n.secret # ""
        THEN << <<"upstream-proxy-auth", "true">>, <<"upstream-proxy-username", n.user>>,
                <<"upstream-proxy-password", n.secret>> >>
        ELSE << <<"upstream-proxy-auth", "false">> >>)
    \o Given(n.tls, << <<"over-tls", "true">> >> \o Item("tls-host", n.host)
                    \o Certificate(n, ext))

QuanItems(n, ext) ==
    CASE n.type = "vmess" ->
            At("vmess", n) \o Pos(<<Method(n), Quote(n.user)>>) \o << <<"group", "g">> >>
            \o Given(n.tls, << <<"over-tls", "true">>, <<"tls-host", n.host>> >>
                            \o Certificate(n, ext))
            \o Given(n.net = "ws", << <<"obfs", "ws">>, <<"obfs-path", Quote("/")>>,
                                      <<"obfs-header", Quote(n.host)>> >>)
      [] n.type = "ssr" ->
            At("shadowsocksr", n) \o Pos(<<n.cipher, Quote(n.secret)>>)
            \o << <<"group", "g">>, <<"protocol", n.protocol>>, <<"obfs", n.obfs>> >>
      [] n.type = "ss" ->
            At("shadowsocks", n) \o Pos(<<n.cipher, Quote(n.secret)>>) \o << <<"group", "g">> >>
            \o Given(n.plugin = "obfs-local", << <<"obfs", "http">> >>)
      [] n.type \in {"http", "https"} -> Upstream("http", n, ext)
      [] n.type = "socks5" -> Upstream("socks", n, ext)
      [] OTHER -> <<>>

\* The node list joins the values of the lines, and these are empty: nothing is left.
ProxyToQuan(nodes, ext) ==
    LET lines == NamedLines(Names(nodes, ext), [i \in DOMAIN nodes |-> QuanItems(nodes[i], ext)])
        server == EraseSection(SetCurrentSection(Parse(BaseConf["quan"]), "SERVER"))
        groups == QuanGroups(LineNames(lines))
    IN  IF ext.nodelist \/ ~Parse(BaseConf["quan"]).parsed THEN Plain(<<>>)
        ELSE Whole(PutQuanGroups(SetLines(server, lines), groups), groups, -2, nodes, ext)

-----------------------------------------------------------------------------
(* QuantumultX: the type is the key, the name comes last.                  *)

QuanXVmess(n) ==
    << <<"", HostPort(n)>>, <<"method", Method(n)>>, <<"password", n.user>> >>
    \o Given(n.net = "ws" \/ n.tls,
             << <<"obfs", IF n.net # "ws" THEN "over-tls" ELSE IF n.tls THEN "wss" ELSE "ws">>,
                <<"obfs-host", n.host>> >>)

QuanXItems(n) ==
    LET ss == << <<"", HostPort(n)>>, <<"method", n.cipher>>, <<"password", n.secret>> >>
        over == << <<"over-tls", TextOf(n.tls)>> >>
        over_host == over \o Given(n.tls, << <<"tls-host", n.host>> >>)
    IN  CASE n.type = "vmess" -> QuanXVmess(n)
          [] n.type = "ss" /\ (n.plugin \in {"", "v2ray-plugin"} \/ Obfs(n)) ->
                ss \o Given(n.plugin # "", << <<"obfs", "http">> >>)
          [] n.type = "ssr" -> ss \o << <<"ssr-protocol", n.protocol>>, <<"obfs", n.obfs>> >>
          [] n.type \in {"http", "https"} ->
                << <<"", HostPort(n)>>, <<"username", Or(n.user, "none")>>,
                   <<"password", Or(n.secret, "none")>> >> \o over
          [] n.type = "trojan" -> << <<"", HostPort(n)>>, <<"password", n.secret>> >> \o over_host
          [] n.type = "socks5" ->
                << <<"", HostPort(n)>> >>
                \o Given(n.user # "" /\ n.secret # "",
                         << <<"username", n.user>>, <<"password", n.secret>> >>) \o over_host
          [] OTHER -> <<>>

QuanXVerification(n, ext) ==
    LET scv == Scv(n, ext) IN
    Given(n.tls /\ scv # "" /\ n.type \notin {"ss", "ssr"},
          << <<"tls-verification", IF scv = "true" THEN "false" ELSE "true">> >>)
QuanXType(type) ==
    CASE type = "ssr" -> "shadowsocks" [] type = "ss" -> "shadowsocks"
      [] type = "https" -> "http" [] OTHER -> type

\* The node list asks for the items with the key "{NONAME}", of which there are none.
ProxyToQuanX(nodes, ext) ==
    LET lines == NamedLines(Names(nodes, ext), [i \in DOMAIN nodes |-> QuanXItems(nodes[i])])
        kept == SelectSeq(nodes, LAMBDA n : QuanXItems(n) # <<>>)
        tagged == [i \in DOMAIN lines |->
                    Line(QuanXType(kept[i].type),
                         lines[i].items \o QuanXVerification(kept[i], ext)
                         \o << <<"tag", lines[i].name>> >>)]
        local == EraseSection(SetCurrentSection(Parse(BaseConf["quanx"]), "server_local"))
        groups == QuanXGroups(LineNames(lines))
    IN  IF ext.nodelist \/ ~Parse(BaseConf["quanx"]).parsed THEN Plain(<<>>)
        ELSE Whole(PutQuanXGroups(SetLines(local, tagged), groups), groups, -1, nodes, ext)

-----------------------------------------------------------------------------
(* Mellow: [Endpoint] keeps the lines of the base.                         *)

MellowItems(n, ext) ==
    CASE n.type = "ss" /\ n.plugin = "" ->
            Pos(<<"ss", n.cipher, n.secret, n.server, n.port>>)
      [] n.type = "vmess" ->
            Pos(<<"vmess1", n.user, n.server, n.port>>) \o << <<"network", n.net>> >>
            \o Given(n.net = "ws", << <<"ws.host", n.host>> >>)
            \o Given(n.net = "http", Item("http.host", n.host))
            \o << <<"tls", TextOf(n.tls)>> >> \o Given(n.tls, Item("tls.servername", n.host))
            \o Item("tls.allowinsecure", Scv(n, ext))
      [] n.type \in {"socks5", "http"} ->
            << <<"", "builtin">>, <<"", n.type>>, <<"address", n.server>>, <<"port", n.port>>,
               <<"user", n.user>>, <<"pass", n.secret>> >>
      [] OTHER -> <<>>

ProxyToMellow(nodes, ext) ==
    LET lines == NamedLines(Names(nodes, ext), [i \in DOMAIN nodes |-> MellowItems(nodes[i], ext)])
        groups == MellowGroups(LineNames(lines))
        endpoint == SetCurrentSection(Parse(BaseConf["mellow"]), "Endpoint")
    IN  IF ~Parse(BaseConf["mellow"]).parsed THEN Plain(<<>>)
        ELSE Whole(PutMellowGroups(SetLines(endpoint, lines), groups), groups, 0, nodes, ext)
=============================================================================
