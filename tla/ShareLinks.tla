----------------------------- MODULE ShareLinks -----------------------------
(***************************************************************************)
(* parser/explodes: the parsers of one link.  Each yields the node it read *)
(* as a sequence of one, or <<>> when it returns false.                    *)
(*                                                                         *)
(* Data: a link is its scheme, its shape ("url", or what its base64 text   *)
(* holds: "json", "csv", "pair"), the parts of a url and its query, a      *)
(* function on the keys it has.  In a link that is base64 as a whole no    *)
(* user or password holds a ':' or an '@', and where a password is written *)
(* raw no backquote, and no left bracket after an "at" sign.               *)
(***************************************************************************)
EXTENDS ProxyNode

CONSTANT Base64User   \* user texts that are base64, to the cipher and id they hold

\* Url::parse fails on a port above 65535, and on a host with a character no host may
\* have; only an IPv6 address in brackets has a ':'.
HostParses(host) ==
    \/ ~Has(host, {":", " ", "#", "/", "<", ">", "?", "@", "[", "\\", "]", "^", "|"})
    \/ \E a \in Addresses : IsIpv6(a) /\ host = "[" \o a \o "]"
UrlParses(l) ==
    l.shape \in {"url", "tghttps"} /\ IsU16(Or(l.port, "0")) /\ HostParses(l.host)

\* A query parameter, "" when it is missing.
Q(l, k) == IF k \in DOMAIN l.q THEN l.q[k] ELSE ""
HasQ(l, k) == k \in DOMAIN l.q
One(n) == <<n>>

\* url.username(): the user before the first ':'.  What may not stand before the '@' is
\* percent-encoded, and stays so.
Escapes ==
    " " :> "%20" @@ "\"" :> "%22" @@ "<" :> "%3C" @@ ">" :> "%3E" @@
    "{" :> "%7B" @@ "}" :> "%7D" @@ ";" :> "%3B" @@ "=" :> "%3D" @@ "@" :> "%40" @@
    "[" :> "%5B" @@ "\\" :> "%5C" @@ "]" :> "%5D" @@ "^" :> "%5E" @@ "|" :> "%7C"
Encoded(text) ==
    LET upto[i \in 0..Len(text)] ==
            IF i = 0 THEN ""
            ELSE upto[i - 1] \o (IF CharAt(text, i) \in DOMAIN Escapes
                                 THEN Escapes[CharAt(text, i)] ELSE CharAt(text, i))
    IN  upto[Len(text)]
User(l) == Before(l.user, {":"})
Username(l) == Encoded(User(l))

\* A url whose user was written raw, as Url::parse sees it: the first '/', '?' or '#' ends
\* the place, and the last '@' before it the user.  A '?' swallows the first parameter, a
\* '#' all of them; of the name it makes the beginning is kept.
Ends == {"/", "?", "#"}
Seen(l) ==
    LET authority == Before(l.user, Ends)
        rest == SubSeq(l.user, Len(authority) + 1, Len(l.user))
        at == {i \in 1..Len(authority) : CharAt(authority, i) = "@"}
        last == CHOOSE i \in at : \A j \in at : j <= i
        place == SubSeq(authority, last + 1, Len(authority))
        keys == IF Has(rest, {"#"}) THEN {}
                ELSE IF Has(rest, {"?"}) THEN DOMAIN l.q \ {"allowInsecure"} ELSE DOMAIN l.q
    IN  IF ~Has(l.user, Ends) THEN l
        ELSE IF at = {} THEN [l EXCEPT !.user = ""]
        ELSE [l EXCEPT !.user = SubSeq(authority, 1, last - 1),
                       !.host = Before(place, {":"}), !.port = After(place, {":"}),
                       !.frag = IF Has(rest, {"#"}) THEN After(rest, {"#"}) ELSE @,
                       !.q = [k \in keys |-> l.q[k]]]

-----------------------------------------------------------------------------
(* VMess: five forms behind one scheme.                                    *)

ExplodeStdVmessNew(l) ==
    Given(UrlParses(l) /\ l.host # "" /\ l.port # "" /\ l.user # "",
        One(VmessConstruct(Default(l.frag, l.host, l.port), l.host, l.port, Username(l),
            Or(Or(Q(l, "type"), Q(l, "network")), "tcp"),
            Or(Or(Q(l, "encryption"), Q(l, "security")), "auto"),
            IF HasQ(l, "host") THEN Q(l, "host") ELSE l.host,
            CASE Q(l, "tls") \in {"1", "true"} -> "tls"
              [] Q(l, "tls") \in {"0", "false"} -> ""
              [] OTHER -> Q(l, "tls"),
            Q(l, "sni"), "")))

ExplodeVmess(l) ==
    Given(l.shape = "json",
        One(VmessConstruct(Q(l, "ps"), Q(l, "add"), U16(Q(l, "port")), Q(l, "id"),
            Q(l, "net"), "auto", Q(l, "host"), Q(l, "tls"), Q(l, "sni"), "")))

\* The digits of the port may say a number above 65535; query keys differ from the above.
ExplodeStdVmess(l) ==
    Given(l.shape = "url" /\ l.port # "" /\ l.user \notin DOMAIN Base64User,
        One(VmessConstruct(Default(l.frag, l.host, U16(l.port)), l.host, U16(l.port),
            l.user, Or(Q(l, "network"), "tcp"), "auto",
            IF HasQ(l, "host") THEN Q(l, "host") ELSE l.host, Q(l, "tls"), Q(l, "sni"), "")))

ExplodeShadowrocket(l) ==
    Given(UrlParses(l) /\ l.port \notin {"", "0"} /\ l.user \in DOMAIN Base64User,
        One(VmessConstruct(Default(l.frag, l.host, l.port), l.host, l.port,
            Base64User[l.user].id, Or(Q(l, "obfs"), "tcp"), Base64User[l.user].cipher,
            IF HasQ(l, "obfsParam") THEN Q(l, "obfsParam") ELSE l.host,
            IF Q(l, "tls") = "1" THEN "tls" ELSE "", Q(l, "peer"), "")))

ExplodeKitsunebi(l) ==
    Given(l.shape = "csv",
        One(VmessConstruct(Default(Q(l, "remark"), l.host, U16(l.port)), l.host,
            U16(l.port), l.user, Or(Q(l, "net"), "tcp"), "auto",
            IF HasQ(l, "host") THEN Q(l, "host") ELSE l.host, Q(l, "tls"), Q(l, "sni"), "")))

-----------------------------------------------------------------------------
(* The other schemes.                                                      *)

\* What stands before the first ':' of "host:port", and before the second.
FirstPart(l) == Before(l.host, {":"})
SecondPart(l) == IF Has(l.host, {":"}) THEN Before(After(l.host, {":"}), {":"}) ELSE l.port

\* The cipher and the password are decoded from the part before the '@', or all of it is.
ExplodeSs(l) ==
    Given(l.shape = "pair" /\ SecondPart(l) \in Ports,
        One(SsConstruct(Default(l.frag, FirstPart(l), SecondPart(l)), FirstPart(l),
                        SecondPart(l), l.pass, l.user, Q(l, "plugin"), "")))

\* V2RayN's links are base64, Telegram's have a query.
ExplodeSocks(l) ==
    IF l.scheme = "socks"
    THEN Given(l.shape = "pair" /\ SecondPart(l) \in Ports,
            One(SocksConstruct(Default(l.frag, FirstPart(l), SecondPart(l)), FirstPart(l),
                               SecondPart(l), l.user, l.pass, "")))
    ELSE Given(UrlParses(l) /\ HasQ(l, "server") /\ Q(l, "port") \in Ports,
            One(SocksConstruct(Default(Q(l, "remarks"), Q(l, "server"), Q(l, "port")),
                               Q(l, "server"), Q(l, "port"), Q(l, "user"), Q(l, "pass"), "")))

\* A server is not asked for; "/https" in the link makes it HTTPS.
ExplodeHttp(l) ==
    Given(UrlParses(l) /\ Q(l, "port") \in Ports,
        One(HttpConstruct(Or(Q(l, "remarks"), Q(l, "server") \o ":" \o Q(l, "port")),
                          Q(l, "server"), Q(l, "port"), Q(l, "user"), Q(l, "pass"),
                          l.shape = "tghttps", "")))

\* The url itself is the proxy.
ExplodeHttpSub(l) ==
    LET port == Or(l.port, IF l.scheme = "https" THEN "443" ELSE "80") IN
    Given(UrlParses(l) /\ l.host # "" /\ port # "0",
        One(HttpConstruct(Or(Q(l, "remarks"), l.host \o ":" \o port), l.host, port,
                          Username(l), l.pass, l.scheme = "https", "")))

ExplodeTrojanUrl(l) ==
    LET port == Or(l.port, "443")
        sni  == IF HasQ(l, "sni") THEN Q(l, "sni") ELSE Q(l, "peer") IN
    Given(UrlParses(l) /\ User(l) # "" /\ l.host # "" /\ port # "0",
        One(TrojanConstruct(Default(l.frag, l.host, port), l.host, port, Username(l),
            IF Q(l, "ws") = "1" \/ Q(l, "type") = "ws" THEN "ws" ELSE "",
            sni, sni, TRUE, Flag(Q(l, "allowInsecure")))))
ExplodeTrojan(l) == ExplodeTrojanUrl(Seen(l))

ExplodeSnell(l) ==
    LET port == Or(l.port, "8388") IN
    Given(UrlParses(l) /\ l.user # "" /\ l.host # "" /\ port # "0",
        One(SnellConstruct(Default(l.frag, l.host, port), l.host, port, Username(l),
            Or(Q(l, "obfs"), "none"), Q(l, "host"), Flag(Q(l, "skip-cert-verify")))))

\* A peer in parentheses has the last word about the endpoint.
ExplodeWireguard(l) ==
    LET port == Or(l.port, "51820")
        named == Default(l.frag, l.host, port)
    IN  Given(/\ l.scheme = "wireguard" /\ UrlParses(l) /\ l.host # ""
              /\ HasQ(l, "privateKey") /\ HasQ(l, "publicKey"),
            One(WireguardConstruct(named,
                IF HasQ(l, "endpoint_host") THEN Q(l, "endpoint_host") ELSE l.host,
                IF IsU16(Q(l, "endpoint_port")) THEN Q(l, "endpoint_port") ELSE port,
                Q(l, "privateKey"), Q(l, "publicKey"))))

\* A missing "insecure" is a "no".
ExplodeHysteria(l) ==
    LET port == Or(l.port, "443") IN
    Given(UrlParses(l) /\ l.host # "",
        One(HysteriaConstruct("hysteria", Default(l.frag, l.host, port), l.host, port,
            Q(l, "auth"), Q(l, "obfs"), IF HasQ(l, "peer") THEN Q(l, "peer") ELSE l.host,
            Or(Flag(Q(l, "insecure")), "false"))))

ExplodeHysteria2(l) ==
    LET port == Or(l.port, "443") IN
    Given(UrlParses(l),
        One(HysteriaConstruct("hysteria2", Default(l.frag, l.host, port), l.host, port,
            Username(l), Q(l, "obfs"), Q(l, "sni"), Flag(Q(l, "insecure")))))

\* No default name.  The host is kept with the transports that have one.
ExplodeVless(l) ==
    LET net == Or(Q(l, "type"), "tcp") IN
    Given(UrlParses(l) /\ l.user # "" /\ l.host # "",
        One([CommonConstruct("vless", l.frag, l.host, Or(l.port, "443")) EXCEPT
                !.user = Username(l), !.net = net, !.sni = Q(l, "sni"),
                !.host = IF net \in {"http", "h2", "ws", "httpupgrade"} \/ (net = "tcp"
                            /\ Q(l, "headerType") # "none")
                         THEN Q(l, "host") ELSE "",
                !.tls = Q(l, "security") \in {"tls", "xtls", "reality"}]))

-----------------------------------------------------------------------------
(* explode(): the parsers of the link's scheme, in order; the first that   *)
(* returns true wins.                                                      *)

FirstOf(results) ==
    IF \E i \in DOMAIN results : results[i] # <<>>
    THEN results[CHOOSE i \in DOMAIN results :
                    results[i] # <<>> /\ \A j \in 1..(i - 1) : results[j] = <<>>]
    ELSE <<>>

Explode(l) ==
    CASE l.scheme = "vmess" ->
            FirstOf(<<ExplodeStdVmessNew(l), ExplodeVmess(l), ExplodeStdVmess(l),
                      ExplodeShadowrocket(l), ExplodeKitsunebi(l)>>)
      [] l.scheme = "ss" -> ExplodeSs(l)
      [] l.scheme \in {"socks", "tg-socks"} -> ExplodeSocks(l)
      [] l.scheme \in {"http", "https"} -> FirstOf(<<ExplodeHttp(l), ExplodeHttpSub(l)>>)
      [] l.scheme = "trojan" -> ExplodeTrojan(l)
      [] l.scheme = "snell" -> ExplodeSnell(l)
      [] l.scheme \in {"wg", "wireguard"} -> ExplodeWireguard(l)
      [] l.scheme = "hysteria" -> ExplodeHysteria(l)
      [] l.scheme \in {"hysteria2", "hy2"} -> ExplodeHysteria2(l)
      [] l.scheme = "vless" -> ExplodeVless(l)
      [] OTHER -> <<>>
=============================================================================
