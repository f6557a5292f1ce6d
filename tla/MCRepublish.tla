---------------------------- MODULE MCRepublish ----------------------------
EXTENDS Republish

MCPorts == {"1", "80", "443", "8388", "51820"}
MCWrapped == [p \in {"65979"} |-> "443"]
MCAddresses == {"1.1.1.1", "fd00::1", "2001:443::1"}
MCNoEq == [n \in {"a=b"} |-> "a-b"]
MCBase64User == [u \in {"YXV0bzppZDIy"} |-> [cipher |-> "auto", id |-> "id22"]]
MCSsCiphers == {"aes-128-gcm", "rc4-md5", "chacha20"}
MCSsrCiphers == {"rc4-md5", "chacha20"}
MCClashSsrCiphers == {"rc4-md5", "chacha20"}
MCClashRProtocols == {"origin"}
MCClashRObfs == {"plain"}

\* Every base configuration comes with a proxy of its own, which is to go.
Old(kind) == Line("old", Pos(<<kind, "old.example", "443", "x", "oldsecret", "y">>))
Private == Line("", Pos(<<"GEOIP", "PRIVATE", "DIRECT">>))
MCBaseConf ==
    [surge |-> <<Header("General"), Header("Proxy"), Old("http"), Header("Rule"), Private>>,
     loon |-> <<Header("Proxy"), Old("http"), Header("Remote Rule"), Header("Rule"), Private>>,
     quan |-> <<Header("SERVER"), Old("http"), Header("TCP"), Private>>,
     quanx |-> <<Header("server_local"), Line("http", Pos(<<"old.example:443">>)), Header("policy"),
                 Line("static", Pos(<<"old">>)), Header("filter_local"), Private>>,
     mellow |-> <<Header("Endpoint"), Line("Direct", Pos(<<"builtin", "freedom">>)),
                  Header("EndpointGroup"), Header("RoutingRule"), Private>>,
     clash |-> <<Parts(Private)>>, singbox |-> <<Parts(Private)>>]

L(scheme, shape, user, pass, host, port, frag, q) ==
    [scheme |-> scheme, shape |-> shape, user |-> user, pass |-> pass, host |-> host,
     port |-> port, frag |-> frag, q |-> q]

LinkSource == Content("links", <<
    L("ss", "pair", "rc4-md5", "p=1", "a.example", "8388", "a", NoQuery),
    L("vmess", "json", "", "", "", "", "",
      [ps |-> "a", add |-> "b.example", port |-> "443", id |-> "id1", net |-> "ws",
       host |-> "", tls |-> "tls"]),
    L("trojan", "url", "p2", "", "1.1.1.1", "", "a=b",
      [allowInsecure |-> "0", sni |-> "t.example"]),
    L("vmess", "url", "YXV0bzppZDIy", "", "c.example", "443", "a 2",
      [obfs |-> "ws", tls |-> "1"]),
    L("ssr", "ssr", "rc4-md5", "p3", "d.example", "443", "r",
      [protocol |-> "origin", obfs |-> "plain"])>>)

OtherLinks == Content("links", <<
    L("tg-socks", "url", "", "", "t.me", "", "",
      [server |-> "e.example", port |-> "1", user |-> "u4", pass |-> "p4"]),
    L("https", "url", "u5", "p5", "f.example", "", "", NoQuery),
    L("hy2", "url", "p6", "", "g.example", "", "h", [insecure |-> "1"]),
    L("vless", "url", "id7", "", "h.example", "443", "v", [security |-> "tls", type |-> "ws", host |-> "w"]),
    L("wg", "url", "", "", "i.example", "", "w", [privateKey |-> "p8", publicKey |-> "k8"]),
    L("snell", "url", "p9", "", "j.example", "443", "s", [obfs |-> "http", host |-> "w"])>>)

SurgeSource == Content("ini", <<
    Header("Proxy"),
    Line("a", Pos(<<"custom", "a.example", "8388", "aes-128-gcm", "p1", "module">>)),
    Line("b", Pos(<<"trojan", "b.example", "443">>)
              \o << <<"password", "p2">>, <<"skip-cert-verify", "true">>, <<"sni", "t">> >>),
    Line("c", Pos(<<"https", "c.example", "443">>) \o << <<"username", "u3">>, <<"password", "p=3">> >>),
    Line("d", Pos(<<"vmess", "d.example", "443">>)
              \o << <<"username", "id4">>, <<"ws", "true">>, <<"tls", "true">> >>),
    Line("a", Pos(<<"socks5", "1.1.1.1", "1", "u5", "p5">>)),
    Header("Rule")>>)

QuanSource == Content("ini", <<
    Line("a", Pos(<<"vmess", "a.example", "443", "auto", Quote("id1")>>)
              \o << <<"over-tls", "true">>, <<"tls-verification", "false">> >>),
    Line("b", Pos(<<"shadowsocksr", "b.example", "443", "rc4-md5", "p2", "origin", "", "plain", "">>)),
    Line("c", Pos(<<"shadowsocks", "c.example", "443", "chacha20", "p3">>)),
    Line("d", Pos(<<"http", "d.example", "80", "u4", "p4">>))>>)

Entry(name, type, server, more) ==
    Line(name, << <<"type", type>>, <<"server", server>>, <<"port", "443">> >> \o more)
ClashSource == Content("clash", <<
    Entry("a", "trojan", "a.example", << <<"password", "p1">>, <<"skip-cert-verify", "false">> >>),
    Entry("a", "vmess", "b.example", << <<"uuid", "id2">>, <<"cipher", "auto">>, <<"network", "ws">>,
          <<"tls", "true">>, <<"servername", "s">>, <<"ws-headers", "w">> >>),
    Entry("b", "ssr", "c.example", << <<"cipher", "rc4-md5">>, <<"password", "p3">>,
          <<"protocol", "origin">>, <<"obfs", "plain">> >>),
    Entry("a", "https", "d.example", << <<"username", "u4">>, <<"password", "p4">> >>),
    Entry("d", "vless", "e.example", << <<"uuid", "id5">>, <<"tls", "true">>, <<"skip-cert-verify", "false">> >>),
    Entry("e", "hysteria", "f.example", << <<"auth-str", "p6">>, <<"skip-cert-verify", "true">> >>),
    Entry("f", "anytls", "g.example", << <<"password", "p7">> >>)>>)

SsdSource == [Content("ssd", <<
    Line("", << <<"server", "a.example">>, <<"remarks", "a">>, <<"plugin", "simple-obfs">> >>),
    Line("", << <<"server", "b.example">>, <<"remarks", "a">>, <<"port", "65979">>,
                <<"password", "p2">> >>),
    Line("", << <<"server", "c.example">>, <<"remarks", "z">>, <<"port", "0">> >>)>>)
    EXCEPT !.top = << <<"airport", "air">>, <<"port", "8388">>, <<"encryption", "rc4-md5">>,
                      <<"password", "p1">> >>]

V2RaySource == Content("v2ray", <<
    Line("vmess", << <<"address", "a.example">>, <<"port", "443">>, <<"id", "id1">>,
                     <<"network", "h2">>, <<"streamSecurity", "tls">>, <<"allowInsecure", "true">> >>),
    Line("vmess", << <<"address", "b.example">>, <<"port", "443">>, <<"id", "p2">>,
                     <<"configType", "3">>, <<"security", "chacha20">> >>),
    Line("vmess", << <<"address", "c.example">>, <<"port", "1">>, <<"id", "">>,
                     <<"configType", "4">> >>)>>)
OutboundSource == Content("v2ray", <<
    Line("outbound", << <<"protocol", "vmess">>, <<"address", "a.example">>, <<"port", "443">>,
                        <<"id", "id1">>, <<"network", "ws">>, <<"security", "tls">>,
                        <<"serverName", "s">> >>)>>)

NetchSource == Content("netch", <<
    Line("", << <<"Type", "SSR">>, <<"Hostname", "a.example">>, <<"Port", "443">>,
                <<"Method", "chacha20">>, <<"Password", "p1">>, <<"Protocol", "origin">>,
                <<"OBFS", "plain">> >>),
    Line("", << <<"Type", "VMess">>, <<"Hostname", "b.example">>, <<"Port", "443">>,
                <<"UserID", "id2">>, <<"TLS", "true">>, <<"AllowInsecure", "true">> >>),
    Line("", << <<"Type", "Trojan">>, <<"Hostname", "c.example">>, <<"Port", "443">>,
                <<"Password", "p3">>, <<"Host", "t">> >>)>>)

\* Links that are half right, and forms of VMess and socks that are rarely met.
OddLinks == Content("links", <<
    L("vmess", "url", "id1", "", "a.example", "65979", "", [tls |-> "tls"]),
    L("vmess", "csv", "id2", "", "b.example", "443", "", [remark |-> "k", net |-> "ws"]),
    L("ss", "pair", "chacha20", "p3", "c.example", "0", "z", NoQuery),
    L("socks", "pair", "u4", "p4", "d.example", "1", "", NoQuery),
    L("trojan", "url", "", "", "e.example", "443", "t", NoQuery),
    L("hysteria", "url", "", "", "f.example", "", "h", [auth |-> "p5", peer |-> "s"]),
    L("http", "url", "", "", "t.me", "", "", [server |-> "g.example", port |-> "80", user |-> "u6"]),
    L("vmess+", "url", "id7", "", "h.example", "443", "n", NoQuery)>>)

ClashOthers == Content("clash", <<
    Entry("a=b", "ss", "a.example", << <<"cipher", "chacha20">>, <<"password", "p1">> >>),
    Entry("a-b", "ss", "b.example", << <<"cipher", "rc4-md5">>, <<"password", "">>,
          <<"plugin", "obfs">> >>),
    Entry("a-b 2", "http", "c.example", << <<"username", "u3">>, <<"password", "p3">>, <<"tls", "false">> >>),
    Entry("s", "socks", "d.example", << <<"username", "u4">>, <<"password", "p4">> >>),
    Entry("n", "snell", "e.example", << <<"psk", "p5">>, <<"obfs", "tls">> >>),
    Entry("w", "wireguard", "f.example", << <<"private-key", "p6">>, <<"public-key", "k6">> >>),
    Entry("h", "hysteria2", "g.example", << <<"password", "p7">>, <<"sni", "s">> >>),
    Line("z", << <<"type", "socks5">>, <<"server", "h.example">>, <<"port", "0">> >>),
    Entry("u", "trojan", "j.example", << <<"password", "">> >>),
    Entry("", "ss", "k.example", << <<"cipher", "chacha20">>, <<"password", "p9">> >>),
    Entry("t", "trojan", "i.example", << <<"sni", "s">> >>)>>)

\* A key that is there may have an empty value.
ClashBlanks == Content("clash", <<
    Entry("1", "ss", "a.example", << <<"cipher", "">>, <<"password", "p1">> >>),
    Entry("2", "ssr", "b.example", << <<"cipher", "">>, <<"password", "p2">>,
          <<"protocol", "origin">>, <<"obfs", "plain">> >>),
    Entry("3", "ssr", "c.example", << <<"cipher", "rc4-md5">>, <<"password", "">>,
          <<"protocol", "origin">>, <<"obfs", "plain">> >>),
    Entry("4", "ssr", "d.example", << <<"cipher", "rc4-md5">>, <<"password", "p4">>,
          <<"protocol", "">>, <<"obfs", "plain">> >>),
    Entry("5", "ssr", "e.example", << <<"cipher", "rc4-md5">>, <<"password", "p5">>,
          <<"protocol", "origin">>, <<"obfs", "">> >>)>>)
MoreBlanks == Content("clash", <<
    Entry("6", "vmess", "f.example", << <<"uuid", "">>, <<"cipher", "auto">> >>),
    Entry("7", "vmess", "g.example", << <<"uuid", "id7">>, <<"cipher", "">> >>),
    Entry("8", "hysteria2", "h.example", << <<"password", "">> >>),
    Entry("9", "snell", "i.example", << <<"psk", "">> >>),
    Entry("10", "wireguard", "j.example", << <<"private-key", "">>, <<"public-key", "k10">> >>),
    Entry("11", "wireguard", "k.example", << <<"private-key", "p11">>, <<"public-key", "">> >>)>>)

SurgeOthers == Content("ini", <<
    Line("early", Pos(<<"ss", "e.example", "443">>)),
    Header("Proxy"),
    Line("s", Pos(<<"snell", "a.example", "443">>) \o << <<"psk", "p1">>, <<"obfs", "tls">> >>),
    Line("z", Pos(<<"http", "b.example", "0", "x">>)),
    Line("k", Pos(<<"ss", "c.example", "8388">>) \o
              << <<"encrypt-method", "chacha20">>, <<"password", "p3">>, <<"obfs", "tls">> >>),
    Line("d", Pos(<<"direct">>)),
    Header("Proxy Group"),
    Line("g", Pos(<<"http", "s", "80">>))>>)

QuanTrojan == Content("ini", <<
    Line("t", Pos(<<"trojan", "a.example", "443", "p1">>) \o << <<"tls-host", "s">> >>),
    Line("s", Pos(<<"vmess", "b.example", "443", "auto", "id2">>) \o << <<"obfs", "ws">> >>)>>)

\* Servers that are IPv6 addresses, and passwords a url splits.
Ipv6Source == Content("clash", <<
    Entry("a", "ss", "fd00::1", << <<"cipher", "chacha20">>, <<"password", "p1">> >>),
    Entry("b", "ss", "2001:443::1", << <<"cipher", "chacha20">>, <<"password", "p2">> >>),
    Entry("c", "vmess", "fd00::1", << <<"uuid", "id3">>, <<"cipher", "auto">> >>),
    Entry("d", "trojan", "fd00::1", << <<"password", "p4">> >>),
    Entry("e", "trojan", "[fd00::1]", << <<"password", "p5">> >>)>>)
SplitSource == Content("clash", <<
    Entry("f", "trojan", "a.example", << <<"password", "p6:x">> >>),
    Entry("g", "trojan", "b.example", << <<"password", "p7@e.example:80/x">> >>),
    Entry("h", "trojan", "c.example", << <<"password", "p8@f.example?x">>,
          <<"skip-cert-verify", "true">> >>),
    Entry("i", "trojan", "d.example", << <<"password", "p9#x">> >>),
    Entry("j", "trojan", "g.example", << <<"password", "p@=0">> >>)>>)

MCSources == {Ipv6Source, SplitSource, LinkSource, OtherLinks, OddLinks, SurgeSource, SurgeOthers, QuanSource, QuanTrojan,
              ClashSource, ClashOthers, ClashBlanks, MoreBlanks, SsdSource, V2RaySource,
              OutboundSource, NetchSource}
\* No value holds an '='.
MCPlainSources == {V2RaySource, NetchSource}

R(group, at, path, type, payload, rules) ==
    [group |-> group, at |-> at, path |-> path, type |-> type, marked |-> at = "inline",
     payload |-> payload, rules |-> rules]
MCRulesets == <<
    R("pick", "url", "https://r.example/1", "surge", FALSE,
      << <<"# a list">>, <<"DOMAIN-SUFFIX", "x.example">>, <<"USER-AGENT", "u*">>,
         <<"IP-CIDR6", "fd00::/8", "no-resolve">>, <<"DOMAIN-REGEX", "y.*">>, <<"DST-PORT", "22">>,
         <<"AND", "((x),(y))">> >>),
    R("auto", "file", "rules/2.list", "surge", FALSE,
      << <<"IP-CIDR", "10.0.0.0/8", "no-resolve">>, <<"PROCESS-NAME", "p", "extra">>,
         <<"DOMAIN-KEYWORD", "k">> >>),
    R("pick", "url", "https://r.example/3", "clash-domain", TRUE,
      << <<"+.z.example">>, <<".w.*">>, <<"v.example">> >>),
    R("auto", "url", "https://r.example/4", "clash-ipcidr", TRUE,
      << <<"1.1.1.1/24">>, <<"fd00::/16">> >>),
    R("pick", "inline", "", "surge", FALSE, << <<"GEOIP", "CN">> >>),
    R("auto", "inline", "", "surge", FALSE, << <<"AND", "((v),(w))", "pick">> >>),
    R("auto", "url", "https://r.example/5", "surge", FALSE, <<>>),
    R("auto", "gone", "rules/6.list", "surge", FALSE, <<>>),
    R("pick", "url", "https://r.example/7", "clash-classic", TRUE, << <<"DOMAIN", "u.example">> >>),
    R("pick", "inline", "", "surge", FALSE, << <<"FINAL">> >>)>>
\* So short that there is room for all of it.
MCShortRulesets == SubSeq(MCRulesets, 5, 5)
\* A list of Quantumult X is passed on to QuantumultX by its url only.
MCQuanXRulesets == <<
    R("pick", "url", "https://r.example/8", "quanx", FALSE, << <<"HOST", "t.example", "direct">> >>),
    R("auto", "inline", "", "surge", FALSE, << <<"MATCH">> >>)>>

Lit(text) == [lit |-> TRUE, text |-> text]
Find(text) == [lit |-> FALSE, text |-> text]
G(name, type, rules) == [name |-> name, type |-> type, rules |-> rules]
MCGroups == <<
    G("pick", "select", <<Lit("auto"), Lit("DIRECT"), Find("")>>),
    G("auto", "url-test", <<Find("a"), Find("b")>>),
    G("none", "fallback", <<Find("zz")>>),
    G("solo", "select", <<Lit("DIRECT")>>),
    G("home", "ssid", <<Lit("DIRECT"), Lit("lan:auto")>>),
    G("lone", "ssid", <<Lit("DIRECT")>>),
    G("all", "load-balance", <<Find("")>>),
    G("best", "smart", <<Find("")>>),
    G("old", "relay", <<Find("")>>)>>

E(nodelist, scv, rulesets) ==
    [nodelist |-> nodelist, append_type |-> nodelist, ssr_path |-> TRUE, filter |-> ~nodelist,
     scv |-> scv, overwrite |-> scv = "", direct |-> scv # "", modes |-> scv = "",
     max |-> IF scv = "" THEN 0 ELSE 8, rulesets |-> rulesets]
MCExts == {E(l, v, MCRulesets) : l \in BOOLEAN, v \in {"", "true"}}
          \cup {E(FALSE, "true", MCQuanXRulesets), E(FALSE, "true", MCShortRulesets)}
=============================================================================
