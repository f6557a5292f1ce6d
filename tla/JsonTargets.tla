---------------------------- MODULE JsonTargets ----------------------------
(***************************************************************************)
(* generator/config/formats: single.rs, ssd.rs, ss_sub.rs and singbox.rs,  *)
(* the targets that are links or JSON documents.                           *)
(*                                                                         *)
(* Data: a document's entry is a line, named by its remarks or its tag, as *)
(* in JsonConf.  The base configurations are JSON objects.                 *)
(***************************************************************************)
EXTENDS LineTargets, TLC

CONSTANTS SsCiphers, SsrCiphers

\* An SSR node that a Shadowsocks client understands.
PlainSsr(n, ciphers) == n.cipher \in ciphers /\ n.protocol = "origin" /\ n.obfs = "plain"

Each(nodes, Op(_)) == FlattenSeq([i \in DOMAIN nodes |-> Op(nodes[i])])

-----------------------------------------------------------------------------
(* Links.  types: some of "SS", "SSR", "VMESS", "TROJAN".                  *)

Link(scheme, shape, user, pass, n, q) ==
    [scheme |-> scheme, shape |-> shape, user |-> user, pass |-> pass,
     host |-> n.server, port |-> n.port, frag |-> n.name, q |-> q]
NoQuery == [k \in {} |-> ""]

SsLink(n) ==
    Link("ss", "pair", n.cipher, n.secret, n,
         IF n.type = "ss" /\ n.plugin # "" THEN [plugin |-> n.plugin] ELSE NoQuery)
SsrLink(n) ==
    Link("ssr", "ssr", n.cipher, n.secret, n,
         IF n.type = "ss" THEN [protocol |-> "origin", obfs |-> "plain"]
         ELSE [protocol |-> n.protocol, obfs |-> n.obfs])

\* mutant: the TLS of the node is not passed on.
VmessLinkConstruct_NoTls(n) ==
    Link("vmess", "json", "", "", n,
         [ps |-> n.name, add |-> n.server, port |-> n.port, id |-> n.user, net |-> n.net])

\* Neither the security nor the server name.
VmessLinkConstruct(n) ==
    Link("vmess", "json", "", "", n,
         [ps |-> n.name, add |-> n.server, port |-> n.port, id |-> n.user, net |-> n.net,
          host |-> n.host, tls |-> IF n.tls THEN "tls" ELSE ""])

\* The request's skip_cert_verify is not asked.
\* Password and server are written as they are; what a reader makes of them is Seen's.
TrojanLink(n) ==
    LET keys == {"allowInsecure"} \cup (IF n.host # "" THEN {"sni"} ELSE {})
                                 \cup (IF n.net = "ws" THEN {"ws"} ELSE {})
    IN  Link("trojan", "url", n.secret, "", n,
             [k \in keys |-> CASE k = "sni" -> n.host
                               [] k = "ws" -> "1"
                               [] OTHER -> IF n.scv = "true" THEN "1" ELSE "0"])

SingleLink(n, types) ==
    CASE n.type = "ss" /\ "SS" \in types -> <<SsLink(n)>>
      [] n.type = "ss" /\ "SS" \notin types /\ "SSR" \in types ->
            Given(n.cipher \in SsrCiphers /\ n.plugin = "", <<SsrLink(n)>>)
      [] n.type = "ssr" /\ "SSR" \in types -> <<SsrLink(n)>>
      [] n.type = "ssr" /\ "SSR" \notin types /\ "SS" \in types ->
            Given(PlainSsr(n, SsCiphers), <<SsLink(n)>>)
      [] n.type = "vmess" /\ "VMESS" \in types -> <<VmessLinkConstruct(n)>>
      [] n.type = "trojan" /\ "TROJAN" \in types -> <<TrojanLink(n)>>
      [] OTHER -> <<>>
ProxyToSingle(nodes, types) == Each(nodes, LAMBDA n : SingleLink(n, types))

-----------------------------------------------------------------------------
(* SSD and SIP008.                                                         *)

SsdTop == << <<"airport", "SSD">>, <<"port", "1">>, <<"encryption", "aes-128-gcm">>,
             <<"password", "password">> >>
SsdCiphers == {"aes-128-gcm", "aes-192-gcm", "aes-256-gcm", "chacha20-ietf-poly1305"}

SsdEntry(n) ==
    Given(n.type = "ss" \/ (n.type = "ssr" /\ PlainSsr(n, SsdCiphers)),
        <<Line(n.name, << <<"server", n.server>>, <<"port", n.port>>, <<"encryption", n.cipher>>,
                          <<"password", n.secret>>, <<"remarks", n.name>> >>
                       \o Given(n.type = "ss",
                            << <<"plugin", IF n.plugin = "obfs-local" THEN "simple-obfs"
                                           ELSE n.plugin>> >>))>>)
ProxyToSsd(nodes) == Each(nodes, SsdEntry)

SsSubEntry(n) ==
    Given(n.type = "ss" \/ (n.type = "ssr" /\ PlainSsr(n, SsCiphers)),
        <<Line(n.name, << <<"server", n.server>>, <<"server_port", n.port>>,
                          <<"method", n.cipher>>, <<"password", n.secret>>,
                          <<"plugin", IF n.type = "ss" /\ n.plugin = "simple-obfs"
                                      THEN "obfs-local" ELSE n.plugin>> >>)>>)
ProxyToSsSub(nodes) == Each(nodes, SsSubEntry)

-----------------------------------------------------------------------------
(* sing-box.                                                               *)

CommonMembers(type, n) ==
    << <<"type", type>>, <<"server", n.server>>, <<"server_port", n.port>> >>
Transport(n) ==
    Given(n.net \in {"http", "ws", "grpc"}, << <<"transport", n.net>> >>)
    \o Given(n.net \in {"http", "ws"}, Item("transport-host", n.host))

\* The two Hysterias bring a TLS object of their own.
OwnTls(n, ext) == << <<"tls", "true">> >> \o Item("insecure", Scv(n, ext))

SingBoxSs(n) ==
    CommonMembers("shadowsocks", n) \o << <<"method", n.cipher>>, <<"password", n.secret>> >>
    \o Item("plugin", IF n.plugin = "simple-obfs" THEN "obfs-local" ELSE n.plugin)
SingBoxSsr(n) ==
    CommonMembers("shadowsocksr", n)
    \o << <<"method", n.cipher>>, <<"password", n.secret>>, <<"protocol", n.protocol>>,
          <<"obfs", n.obfs>> >>
SingBoxWireguard(n) ==
    CommonMembers("wireguard", n) \o << <<"private_key", n.secret>>, <<"public_key", n.user>> >>
SingBoxHysteria(n, ext) ==
    CommonMembers("hysteria", n) \o Item("obfs", n.obfs) \o Item("auth_str", n.secret)
    \o OwnTls(n, ext)
SingBoxHysteria2(n, ext) ==
    CommonMembers("hysteria2", n) \o Item("obfs", n.obfs) \o Item("password", n.secret)
    \o OwnTls(n, ext)
SingBoxLogin(type, n) ==
    CommonMembers(type, n) \o Item("username", n.user) \o Item("password", n.secret)

SingBoxItems(n, ext) ==
    CASE n.type = "ss" -> SingBoxSs(n)
      [] n.type = "ssr" -> SingBoxSsr(n)
      [] n.type = "vmess" ->
            CommonMembers("vmess", n) \o << <<"uuid", n.user>> >> \o Item("security", n.cipher)
            \o Transport(n)
      [] n.type = "trojan" ->
            CommonMembers("trojan", n) \o << <<"password", n.secret>> >> \o Transport(n)
      [] n.type = "wireguard" -> SingBoxWireguard(n)
      [] n.type = "hysteria" -> SingBoxHysteria(n, ext)
      [] n.type = "hysteria2" -> SingBoxHysteria2(n, ext)
      [] n.type \in {"http", "https"} -> SingBoxLogin("http", n)
      [] n.type = "socks5" -> SingBoxLogin("socks", n)
      [] OTHER -> <<>>

\* The server name is VMess's; the other types only have a host.
SingBoxTls(n, ext) ==
    Given(n.tls, << <<"tls", "true">> >>
                 \o Item("server_name", IF n.type = "vmess" THEN Or(n.sni, n.host) ELSE n.host)
                 \o Item("insecure", Scv(n, ext)))

BuiltIns == <<Line("DIRECT", Pos(<<"direct">>)), Line("REJECT", Pos(<<"block">>)),
              Line("dns-out", Pos(<<"dns">>))>>

\* The names of the built-ins are not in the list, so a node may have one of them too.
ProxyToSingBox(nodes, ext) ==
    LET proxies == NamedLines(Names(nodes, ext),
            [i \in DOMAIN nodes |->
                LET items == SingBoxItems(nodes[i], ext) IN
                Given(items # <<>>, items \o SingBoxTls(nodes[i], ext))])
        groups == SingBoxGroups(LineNames(proxies), ext)
        acc == RulesetToSingBox(BaseConf["singbox"], RulesetsOf(nodes, ext), ext)
    IN  IF ext.nodelist THEN Plain(proxies)
        ELSE [lines |-> BuiltIns \o proxies \o [i \in DOMAIN groups |-> GroupLine(groups[i])],
              groups |-> groups, panic |-> acc.panic,
              rules |-> acc.rules \o Given(acc.final # "", << <<"final", acc.final>> >>)]
=============================================================================
