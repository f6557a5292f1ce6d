------------------------------ MODULE JsonConf ------------------------------
(***************************************************************************)
(* parser/explodes: the configurations that are JSON documents, those of   *)
(* V2Ray and V2RayN (vmess.rs), of SSD (ss.rs) and of Netch (netch.rs).    *)
(*                                                                         *)
(* Data: an entry is a line whose items are its keys; for V2Ray it is a    *)
(* user of a server of an outbound, or one of the array "vmess", and says  *)
(* so by its name.                                                         *)
(***************************************************************************)
EXTENDS LineConf

Key(e, k) == Opt(e.items, k)
HasKey(e, k) == \E i \in DOMAIN e.items : e.items[i][1] = k
\* as_bool(): none for what is no boolean
AsBool(text) == IF text \in {"true", "false"} THEN text ELSE ""
Entries(lines, name) == Those(lines, LAMBDA e : e.name = name)

-----------------------------------------------------------------------------
(* V2Ray.                                                                  *)

\* No name is read, and the SNI only with TLS.
ParseOutbound(e) ==
    LET port == AsU16(Key(e, "port"))
        tls  == IF Key(e, "security") = "tls" THEN "tls" ELSE ""
    IN  Given(Key(e, "protocol") = "vmess" /\ port # "0",
            <<VmessConstruct(Default("", Key(e, "address"), port), Key(e, "address"), port,
                Key(e, "id"), Or(Key(e, "network"), "tcp"), Or(Key(e, "method"), "auto"),
                Key(e, "host"), tls, IF tls = "tls" THEN Key(e, "serverName") ELSE "", "")>>)

\* A socks server's credentials are not read.
ParseVmessEntry(e) ==
    LET port == AsU16(Key(e, "port"))
        name == Default(Key(e, "remarks"), Key(e, "address"), port)
        scv  == AsBool(Key(e, "allowInsecure"))
        type == Or(Key(e, "configType"), "1")
    IN  Given(/\ {"address", "port", "id"} \subseteq {e.items[i][1] : i \in DOMAIN e.items}
              /\ port # "0",
            CASE type = "1" ->
                    <<VmessConstruct(name, Key(e, "address"), port, Key(e, "id"),
                        Or(Key(e, "network"), "tcp"), Or(Key(e, "security"), "auto"),
                        Key(e, "requestHost"), Key(e, "streamSecurity"), Key(e, "sni"), scv)>>
              [] type = "3" ->
                    <<SsConstruct(name, Key(e, "address"), port, Key(e, "id"),
                                  Key(e, "security"), "", scv)>>
              [] type = "4" -> <<SocksConstruct(name, Key(e, "address"), port, "", "", scv)>>
              [] OTHER -> <<>>)

\* The array "vmess" is read when no outbound gave a node.
ExplodeVmessConf(lines) ==
    LET outbounds == Entries(lines, "outbound")
        entries   == Entries(lines, "vmess")
        read      == FlattenSeq([i \in DOMAIN outbounds |-> ParseOutbound(outbounds[i])])
    IN  IF read # <<>> THEN read
        ELSE FlattenSeq([i \in DOMAIN entries |-> ParseVmessEntry(entries[i])])

-----------------------------------------------------------------------------
(* SSD: a server takes what it does not say from the airport's line.       *)

SsdServer(top, e) ==
    SsConstruct(Opt(top, "airport") \o " - " \o Key(e, "remarks"), Key(e, "server"),
        AsU16(IF HasKey(e, "port") THEN Key(e, "port") ELSE AsU16(Opt(top, "port"))),
        IF HasKey(e, "password") THEN Key(e, "password") ELSE Opt(top, "password"),
        IF HasKey(e, "encryption") THEN Key(e, "encryption") ELSE Opt(top, "encryption"),
        Key(e, "plugin"), "")
ExplodeSsd(top, servers) == [i \in DOMAIN servers |-> SsdServer(top, servers[i])]

-----------------------------------------------------------------------------
(* Netch: two spellings for most keys.                                     *)

Either(e, k, other) == IF HasKey(e, k) THEN Key(e, k) ELSE Key(e, other)

NetchVmess(e, port, name) ==
    LET id == Either(e, "UserID", "Id") IN
    Given(id # "",
          <<VmessConstruct(name, Key(e, "Hostname"), port, id,
                Or(Either(e, "TransferProtocol", "Network"), "tcp"),
                Or(Either(e, "EncryptMethod", "Security"), "auto"), Key(e, "Host"),
                IF Either(e, "TLSSecure", "TLS") = "true" THEN "tls" ELSE "",
                Key(e, "ServerName"), AsBool(Key(e, "AllowInsecure")))>>)
NetchNode(e, port, name) ==
    LET type == Key(e, "Type")      server == Key(e, "Hostname")
        secret == Key(e, "Password") scv == AsBool(Key(e, "AllowInsecure"))
        method == Either(e, "EncryptMethod", "Method")
        host == Either(e, "Host", "ServerName")
    IN  CASE type \in {"Shadowsocks", "SS"} ->
                Given(method # "" /\ secret # "",
                      <<SsConstruct(name, server, port, secret, method, Key(e, "Plugin"), scv)>>)
          [] type \in {"ShadowsocksR", "SSR"} ->
                Given("" \notin {method, secret, Key(e, "Protocol"), Key(e, "OBFS")},
                      <<SsrConstruct(name, server, port, Key(e, "Protocol"), method,
                                     Key(e, "OBFS"), secret, scv)>>)
          [] type \in {"SOCKS5", "Socks5"} ->
                <<SocksConstruct(name, server, port, Key(e, "Username"), secret, scv)>>
          [] type \in {"HTTP", "HTTPS"} ->
                <<HttpConstruct(name, server, port, Key(e, "Username"), secret,
                                type = "HTTPS", scv)>>
          [] type = "Trojan" ->
                Given(secret # "", <<TrojanConstruct(name, server, port, secret, "", host,
                                                     host, TRUE, scv)>>)
          [] type = "VMess" -> NetchVmess(e, port, name)
          [] OTHER -> <<>>

ExplodeNetch(e) ==
    Given(Key(e, "Type") # "" /\ Key(e, "Port") \in Ports,
        NetchNode(e, Key(e, "Port"),
                  Or(Key(e, "Remark"), Key(e, "Hostname") \o ":" \o Key(e, "Port"))))

ExplodeNetchConf(servers) ==
    FlattenSeq([i \in DOMAIN servers |-> ExplodeNetch(servers[i])])
=============================================================================
