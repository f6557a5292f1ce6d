----------------------------- MODULE ClashText -----------------------------
(***************************************************************************)
(* parser/yaml/clash and generator/yaml/clash: the proxies of a Clash      *)
(* configuration, read into nodes and written from them.                   *)
(*                                                                         *)
(* Data: an entry of the list is a line, its items the keys of the entry,  *)
(* in any order; the keys of "ws-headers", "ws-opts" and their like are    *)
(* represented by the Host they hold.  An empty value is written where the *)
(* code's field is not optional.  Snell is version 1 and the field names   *)
(* are the new ones.                                                       *)
(***************************************************************************)
EXTENDS LineTargets

CONSTANTS ClashSsrCiphers, ClashRProtocols, ClashRObfs

ClashType(e) == Opt(e.items, "type")
Keys(e) == {e.items[i][1] : i \in DOMAIN e.items}

-----------------------------------------------------------------------------
(* Reading.                                                                *)

Base(type, e) == CommonConstruct(type, e.name, Opt(e.items, "server"), Opt(e.items, "port"))
BaseScv(type, e) == [Base(type, e) EXCEPT !.scv = Flag(Opt(e.items, "skip-cert-verify"))]

InputShadowsocks(e) ==
    [BaseScv("ss", e) EXCEPT !.cipher = Opt(e.items, "cipher"),
        !.secret = Opt(e.items, "password"), !.plugin = Opt(e.items, "plugin")]

InputShadowsocksR(e) ==
    [BaseScv("ssr", e) EXCEPT !.cipher = Opt(e.items, "cipher"),
        !.secret = Opt(e.items, "password"), !.protocol = Opt(e.items, "protocol"),
        !.obfs = Opt(e.items, "obfs")]

\* The old names of the transport options only.
InputVMess(e) ==
    LET net == Opt(e.items, "network") IN
    [BaseScv("vmess", e) EXCEPT !.user = Opt(e.items, "uuid"), !.net = net,
        !.cipher = Opt(e.items, "cipher"), !.tls = (Opt(e.items, "tls") = "true"),
        !.sni = Opt(e.items, "servername"),
        !.host = CASE net \in {"ws", "http", "h2"} -> Opt(e.items, "ws-headers")
                   [] net = "grpc" -> Opt(e.items, "server")
                   [] OTHER -> ""]

\* TLS is what Trojan is, but tls_secure stays off.
InputTrojan(e) ==
    [BaseScv("trojan", e) EXCEPT !.secret = Opt(e.items, "password"),
        !.net = Opt(e.items, "network"), !.sni = Opt(e.items, "sni")]

InputHttp(e) ==
    [BaseScv(IF Opt(e.items, "tls") = "true" THEN "https" ELSE "http", e) EXCEPT
        !.user = Opt(e.items, "username"), !.secret = Opt(e.items, "password")]

InputSocks5(e) ==
    [BaseScv("socks5", e) EXCEPT
        !.user = Opt(e.items, "username"), !.secret = Opt(e.items, "password")]

InputSnell(e) ==
    [Base("snell", e) EXCEPT !.secret = Opt(e.items, "psk"), !.obfs = Opt(e.items, "obfs")]

InputWireGuard(e) ==
    [Base("wireguard", e) EXCEPT
        !.secret = Opt(e.items, "private-key"), !.user = Opt(e.items, "public-key")]

InputHysteria(e) ==
    [BaseScv("hysteria", e) EXCEPT !.secret = Opt(e.items, "auth-str"),
        !.obfs = Opt(e.items, "obfs"), !.sni = Opt(e.items, "sni")]

InputHysteria2(e) ==
    [BaseScv("hysteria2", e) EXCEPT !.secret = Opt(e.items, "password"),
        !.obfs = Opt(e.items, "obfs"), !.sni = Opt(e.items, "sni")]

\* VLESS and AnyTLS keep their fields, scv among them, in a record of their own.
InputVLess(e) ==
    LET net == Opt(e.items, "network") IN
    [BaseScv("vless", e) EXCEPT !.user = Opt(e.items, "uuid"), !.net = net,
        !.tls = (Opt(e.items, "tls") = "true"), !.sni = Opt(e.items, "servername"),
        !.host = CASE net = "ws" -> Or(Opt(e.items, "ws-opts"), Opt(e.items, "ws-headers"))
                   [] net = "http" -> Opt(e.items, "http-opts")
                   [] net = "h2" -> Opt(e.items, "h2-opts")
                   [] OTHER -> ""]

InputAnyTLS(e) ==
    [BaseScv("anytls", e) EXCEPT
        !.secret = Opt(e.items, "password"), !.sni = Opt(e.items, "sni")]

\* The keys without which an entry is skipped.
Required(type) ==
    {"server", "port"} \cup
    (CASE type = "ss" -> {"cipher", "password"}
       [] type = "ssr" -> {"cipher", "password", "protocol", "obfs"}
       [] type = "vmess" -> {"uuid", "cipher"}
       [] type = "vless" -> {"uuid"}
       [] type \in {"trojan", "hysteria2", "anytls"} -> {"password"}
       [] type = "snell" -> {"psk"}
       [] type = "wireguard" -> {"private-key", "public-key"}
       [] OTHER -> {})

\* deserialize_port(): 0 and numbers above 65535 are refused, and the entry with them.
ReadablePort(text) == text \in Ports

\* normalize_proxy_value(): other names of the types; "https" sets the key "tls".
Normalized(e) ==
    LET type == ClashType(e)
        known == CASE type = "shadowsocks" -> "ss" [] type = "shadowsocksr" -> "ssr"
                   [] type = "socks" -> "socks5" [] type = "any-tls" -> "anytls"
                   [] type = "https" -> "http" [] OTHER -> type
    IN  [e EXCEPT !.items = e.items \o << <<"type", known>> >>
                            \o Given(type = "https", << <<"tls", "true">> >>)]

InputOf(type, e) ==
    CASE type = "ss" -> InputShadowsocks(e)    [] type = "ssr" -> InputShadowsocksR(e)
      [] type = "vmess" -> InputVMess(e)       [] type = "trojan" -> InputTrojan(e)
      [] type = "http" -> InputHttp(e)         [] type = "socks5" -> InputSocks5(e)
      [] type = "snell" -> InputSnell(e)       [] type = "wireguard" -> InputWireGuard(e)
      [] type = "hysteria" -> InputHysteria(e) [] type = "vless" -> InputVLess(e)
      [] type = "hysteria2" -> InputHysteria2(e) [] type = "anytls" -> InputAnyTLS(e)

ParseEntry(raw) ==
    LET e == Normalized(raw) type == ClashType(e) IN
    Given(/\ type \in Types \ {"https"}
          /\ Required(type) \subseteq Keys(e) /\ ReadablePort(Opt(e.items, "port")),
          <<InputOf(type, e)>>)

ExplodeClash(entries) == FlattenSeq([i \in DOMAIN entries |-> ParseEntry(entries[i])])

-----------------------------------------------------------------------------
(* Writing.                                                                *)

\* The keys all types share; `sni` is written by those that are given one.
Common(type, n, scv) ==
    << <<"type", type>>, <<"server", n.server>>, <<"port", n.port>> >>
    \o Item("skip-cert-verify", scv)

OutputShadowsocks(n, ext) ==
    Common("ss", n, Scv(n, ext)) \o Item("cipher", n.cipher) \o Item("password", n.secret)
    \o Item("plugin", n.plugin)

OutputShadowsocksR(n, ext) ==
    Common("ssr", n, Scv(n, ext)) \o Item("cipher", n.cipher) \o Item("password", n.secret)
    \o Item("protocol", n.protocol) \o Item("obfs", n.obfs)

OptsKey == [ws |-> "ws-opts", http |-> "http-opts", h2 |-> "h2-opts"]

\* Neither `tls` nor `servername`; the transport options have their new names.
OutputVmess(n, ext) ==
    Common("vmess", n, Scv(n, ext)) \o Item("uuid", n.user) \o Item("cipher", n.cipher)
    \o Item("network", n.net)
    \o Given(n.net \in DOMAIN OptsKey, Item(OptsKey[n.net], n.host))

OutputTrojan(n, ext) ==
    Common("trojan", n, Scv(n, ext)) \o Item("sni", n.sni) \o Item("password", n.secret)
    \o Item("network", n.net) \o Given(n.net = "ws", Item("ws-opts", n.host))

OutputHttp(n, ext) ==
    Common("http", n, Scv(n, ext)) \o << <<"tls", TextOf(n.type = "https")>> >>
    \o Item("username", n.user) \o Item("password", n.secret)

OutputSocks5(n, ext) ==
    Common("socks5", n, Scv(n, ext)) \o Item("username", n.user) \o Item("password", n.secret)

OutputSnell(n, ext) ==
    Common("snell", n, Scv(n, ext)) \o Item("psk", n.secret) \o << <<"version", "1">> >>
    \o Item("obfs", n.obfs)

OutputWireGuard(n, ext) ==
    Common("wireguard", n, Scv(n, ext)) \o Item("private-key", n.secret)
    \o Item("public-key", n.user)

OutputHysteria(n, ext) ==
    Common("hysteria", n, Scv(n, ext)) \o Item("sni", n.sni) \o Item("obfs-protocol", n.obfs)
    \o Item("auth-str", n.secret) \o Item("obfs", n.obfs)

OutputHysteria2_NoPassword(n, ext) ==       \* mutant: a field is forgotten
    Common("hysteria2", n, Scv(n, ext)) \o Item("sni", n.sni) \o Item("obfs", n.obfs)
OutputHysteria2(n, ext) ==
    Common("hysteria2", n, Scv(n, ext)) \o Item("sni", n.sni) \o Item("password", n.secret)
    \o Item("obfs", n.obfs)

\* The flag of the node is in its own record and is not asked.
OutputVLess(n, ext) ==
    Common("vless", n, ext.scv) \o << <<"uuid", n.user>>, <<"tls", TextOf(n.tls)>> >>
    \o Item("network", n.net) \o Item("servername", n.sni)
    \o Given(n.net \in DOMAIN OptsKey, Item(OptsKey[n.net], n.host))

OutputAnyTLS(n, ext) ==
    Common("anytls", n, Scv(n, ext)) \o << <<"password", n.secret>> >> \o Item("sni", n.sni)

ClashItems(n, ext) ==
    CASE n.type = "ss" -> OutputShadowsocks(n, ext)    [] n.type = "ssr" -> OutputShadowsocksR(n, ext)
      [] n.type = "vmess" -> OutputVmess(n, ext)       [] n.type = "trojan" -> OutputTrojan(n, ext)
      [] n.type \in {"http", "https"} -> OutputHttp(n, ext) [] n.type = "socks5" -> OutputSocks5(n, ext)
      [] n.type = "snell" -> OutputSnell(n, ext)       [] n.type = "wireguard" -> OutputWireGuard(n, ext)
      [] n.type = "hysteria" -> OutputHysteria(n, ext) [] n.type = "vless" -> OutputVLess(n, ext)
      [] n.type = "hysteria2" -> OutputHysteria2(n, ext) [] n.type = "anytls" -> OutputAnyTLS(n, ext)

\* HTTPS is never written, though OutputHttp() could.
ShouldSkip(n, clash_r, ext) ==
    \/ n.type = "https"
    \/ /\ ext.filter /\ n.type = "ss" /\ n.cipher = "chacha20"
    \/ /\ ext.filter /\ n.type = "ssr"
       /\ \/ ~clash_r
          \/ n.cipher \notin ClashSsrCiphers \/ n.protocol \notin ClashRProtocols
          \/ n.obfs \notin ClashRObfs

\* Its groups are in ClashOutput.  A skipped node's name is noted too.  The list replaces the one of the base configuration.
ProxyToClash(nodes, clash_r, ext) ==
    LET names == Names(nodes, ext)
        noted[i \in 0..Len(names)] ==
            IF i = 0 THEN <<>> ELSE Append(noted[i - 1], ProcessRemark(names[i], noted[i - 1]))
        proxies == FlattenSeq([i \in DOMAIN nodes |->
            Given(~ShouldSkip(nodes[i], clash_r, ext),
                  <<Line(noted[Len(names)][i], ClashItems(nodes[i], ext))>>)])
        acc == RulesetToClash(BaseConf["clash"], RulesetsOf(nodes, ext), ext)
    IN  IF ext.nodelist THEN Plain(proxies)
        ELSE [Plain(proxies) EXCEPT !.rules = acc.rules, !.panic = acc.panic]
=============================================================================
