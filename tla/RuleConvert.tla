---------------------------- MODULE RuleConvert ----------------------------
(***************************************************************************)
(* generator/ruleconvert: the rules of a request, from its rulesets, for   *)
(* Clash, for the line formats and for sing-box.                           *)
(*                                                                         *)
(* Data: a rule is its parts, as the commas split it.  A ruleset is        *)
(* [group, at, path, type, marked, payload, rules]; at is "inline", "url", *)
(* "file" or "gone" (a path that is neither), marked: its text begins with *)
(* "[]", payload: it is a Clash provider.  Comments and blank lines, which *)
(* have no type, are left out.  The managed prefix of ext is never set.    *)
(* That sing-box lowers the case of values is left out.                    *)
(*                                                                         *)
(* ext adds: [overwrite, direct, modes : BOOLEAN, max : Nat, rulesets]     *)
(***************************************************************************)
EXTENDS IniText

TransformRule(rule, group, no_resolve_only) ==
    IF Len(rule) < 2 THEN <<rule[1], group>>
    ELSE <<rule[1], rule[2], group>>
         \o Given(Len(rule) > 2 /\ (~no_resolve_only \/ rule[3] = "no-resolve"),
                  SubSeq(rule, 3, 3))

BasicTypes == {"DOMAIN", "DOMAIN-SUFFIX", "DOMAIN-KEYWORD", "IP-CIDR", "SRC-IP-CIDR", "GEOIP",
               "MATCH", "FINAL"}
ClashTypes == BasicTypes \cup {"IP-CIDR6", "SRC-PORT", "DST-PORT", "PROCESS-NAME"}
QuanXTypes == BasicTypes \cup {"USER-AGENT", "HOST", "HOST-SUFFIX", "HOST-KEYWORD"}
SurfTypes == BasicTypes \cup {"IP-CIDR6", "PROCESS-NAME", "IN-PORT", "DEST-PORT", "SRC-IP"}
Surge2Types == SurfTypes \cup {"USER-AGENT", "URL-REGEX"}
SurgeTypes == Surge2Types \cup {"AND", "OR", "NOT"}
SingBoxTypes == BasicTypes \cup {"GEOSITE", "PROTOCOL", "NETWORK", "PROCESS-NAME", "DOMAIN-REGEX",
                                 "PORT", "SRC-PORT"}

\* A line that begins like a type counts as one of that type.
OfType(rule, types) == \E t \in types : StartsWith(rule[1], t)
ASSUME TypesAssumption == \A t \in ClashTypes : StartsWith(t, t)

-----------------------------------------------------------------------------
(* Converting a list to the syntax of Surge.                               *)

StripWild(item) ==
    LET upto[i \in 0..Len(item)] ==
            IF i >= 2 /\ SubSeq(item, i - 1, i) = ".*" THEN upto[i - 2] ELSE SubSeq(item, 1, i)
    IN  upto[Len(item)]
StripHead(item) ==
    CASE StartsWith(item, "+.") -> SubSeq(item, 3, Len(item))
      [] StartsWith(item, ".") -> SubSeq(item, 2, Len(item))
      [] OTHER -> item

\* The network before the slash says which kind of address it is.
PayloadRule(item) ==
    LET slash == {i \in 1..Len(item) : CharAt(item, i) = "/"}
        net == SubSeq(item, 1, (CHOOSE i \in slash : \A j \in slash : i <= j) - 1)
    IN  IF slash # {} THEN <<IF IsIpv4(net) THEN "IP-CIDR" ELSE "IP-CIDR6", item>>
        ELSE IF ~StartsWith(item, ".") /\ ~StartsWith(item, "+.") THEN <<"DOMAIN", item>>
        ELSE <<IF StripWild(item) # item THEN "DOMAIN-KEYWORD" ELSE "DOMAIN-SUFFIX",
               StripHead(StripWild(item))>>

\* Any other list is one of Quantumult X, and its conversion starts with a regular
\* expression that has a look-ahead, which the library refuses: unwrap() panics.
Panics(rs) == rs.type # "surge" /\ ~rs.payload /\ rs.rules # <<>>
ConvertRuleset(rs) ==
    IF rs.type \in {"surge", "clash-classic"} THEN rs.rules
    ELSE [i \in DOMAIN rs.rules |-> PayloadRule(rs.rules[i][1])]

-----------------------------------------------------------------------------
(* What has been written: total counts the rules that the limit counts.    *)

Start(ini) == [rules |-> <<>>, total |-> 0, final |-> "", panic |-> FALSE, ini |-> ini]
Full(acc, ext) == acc.panic \/ (ext.max > 0 /\ acc.total >= ext.max)
Counted(acc, rules, ext) ==
    LET room == ext.max - acc.total
        added == IF ext.max > 0 /\ Len(rules) > room THEN SubSeq(rules, 1, room) ELSE rules
    IN  [acc EXCEPT !.rules = @ \o added, !.total = @ + Len(added)]

Grouped(rules, group, no_resolve_only) ==
    [i \in DOMAIN rules |-> TransformRule(rules[i], group, no_resolve_only)]

-----------------------------------------------------------------------------
(* Clash.                                                                  *)

AsMatch(rule) ==
    IF StartsWith(rule[1], "FINAL")
    THEN <<"MATCH" \o SubSeq(rule[1], 6, Len(rule[1]))>> \o Tail(rule) ELSE rule

ClashRuleset(acc, rs, ext) ==
    IF Full(acc, ext) \/ rs.rules = <<>> THEN acc
    ELSE IF rs.marked THEN Counted(acc, Grouped(<<AsMatch(rs.rules[1])>>, rs.group, FALSE), ext)
    ELSE IF Panics(rs) THEN [acc EXCEPT !.panic = TRUE]
    ELSE Counted(acc, Grouped(Those(ConvertRuleset(rs), LAMBDA r : OfType(r, ClashTypes)),
                              rs.group, FALSE), ext)

RulesetToClash(base, list, ext) ==
    LET upto[i \in 0..Len(list)] ==
            IF i = 0 THEN Start(Empty) ELSE ClashRuleset(upto[i - 1], list[i], ext)
        acc == upto[Len(list)]
    IN  [acc EXCEPT !.rules = Given(~ext.overwrite, base) \o @]

-----------------------------------------------------------------------------
(* The line formats: 2, 3 and 4 are Surge, -3 Surfboard, 0 Mellow,         *)
(* -1 Quantumult X, -2 Quantumult and -4 Loon.                             *)

RuleSection(ver) ==
    CASE ver = 0 -> "RoutingRule" [] ver = -1 -> "filter_local" [] ver = -2 -> "TCP"
      [] OTHER -> "Rule"
RemoteSection(ver) ==
    CASE ver = -1 -> "filter_remote" [] ver = -4 -> "Remote Rule" [] OTHER -> ""

Logical(rule) == OfType(rule, {"AND", "OR", "NOT"})
ForQuan(ver) == ver \in {-1, -2}
SurgeRule(rule, group, ver) ==
    IF ~ForQuan(ver) /\ Logical(rule) THEN rule
    ELSE TransformRule(rule, group, ForQuan(ver))

\* The mark is cut off an inline rule without a look: two characters are.
Inline(rs) ==
    LET rule == rs.rules[1]
        cut == IF rs.marked THEN rule ELSE <<SubSeq(rule[1], 3, Len(rule[1]))>> \o Tail(rule)
    IN  IF cut = <<"MATCH">> THEN <<"FINAL">> ELSE cut

VersionTypes(ver) ==
    CASE ForQuan(ver) -> QuanXTypes [] ver = -3 -> SurfTypes [] ver > 2 -> SurgeTypes
      [] OTHER -> Surge2Types
Expanded(rs, ver) ==
    LET known == Those(ConvertRuleset(rs), LAMBDA r :
                    OfType(r, VersionTypes(ver)) /\ ~(ver = -2 /\ StartsWith(r[1], "IP-CIDR6")))
        spelt(r) == IF ForQuan(ver) /\ StartsWith(r[1], "IP-CIDR6")
                    THEN <<"IP6-CIDR">> \o Tail(r) ELSE r
    IN  [i \in DOMAIN known |-> SurgeRule(spelt(known[i]), rs.group, ver)]

\* What names a list by its url, which is not counted, is written in its place or
\* in a section of its own.
Named_First(acc, rs) ==       \* mutant: it goes in front
    [acc EXCEPT !.rules = << <<"RULE-SET", rs.path, rs.group>> >> \o @]
Named(acc, rs) ==
    [acc EXCEPT !.rules = Append(@, <<"RULE-SET", rs.path, rs.group>>)]
Remote(acc, rs, ver) ==
    [acc EXCEPT !.ini = SetPair(@, RemoteSection(ver), Line("", Pos(<<rs.path, rs.group>>)))]
ByUrl(rs, ver) == ver > 2 \/ ver = -4 \/ (ver = -1 /\ rs.type = "quanx")

\* Surge from 3 on takes a list of another syntax for no list at all.
SurgeRuleset(acc, rs, ver, ext) ==
    IF Full(acc, ext) \/ rs.at = "gone" THEN acc
    ELSE IF rs.at = "inline" THEN Counted(acc, <<SurgeRule(Inline(rs), rs.group, ver)>>, ext)
    ELSE IF rs.at = "url" /\ ver > 2 THEN IF rs.type = "surge" THEN Named(acc, rs) ELSE acc
    ELSE IF rs.at = "url" /\ ByUrl(rs, ver) THEN Remote(acc, rs, ver)
    ELSE IF Panics(rs) THEN [acc EXCEPT !.panic = TRUE]
    ELSE Counted(acc, Expanded(rs, ver), ext)

RulesetToSurge(ini, ver, list, ext) ==
    LET at == SetCurrentSection(ini, RuleSection(ver))
        emptied == EraseSectionByName(EraseSection(at), RemoteSection(ver))
        upto[i \in 0..Len(list)] ==
            IF i = 0 THEN Start(IF ext.overwrite THEN emptied ELSE at)
            ELSE SurgeRuleset(upto[i - 1], list[i], ver, ext)
        acc == upto[Len(list)]
        pairs == [i \in DOMAIN acc.rules |-> <<"{NONAME}", Line("", Pos(acc.rules[i]))>>]
    IN  [acc EXCEPT !.ini = SetPairs(@, pairs)]

-----------------------------------------------------------------------------
(* sing-box: one object per list, and a field for the last rule.           *)

RealType(type) == IF type = "IP-CIDR6" THEN "IP-CIDR" ELSE type
SingBoxRule(rule, group) == <<RealType(rule[1]), rule[2], group>>

SingBoxRuleset(acc, rs, ext) ==
    IF Full(acc, ext) \/ rs.rules = <<>> THEN acc
    ELSE IF rs.marked THEN
        LET rule == rs.rules[1] IN
        IF OfType(rule, {"FINAL", "MATCH"}) THEN [acc EXCEPT !.final = rs.group]
        ELSE Counted(acc, Given(Len(rule) >= 2, <<SingBoxRule(rule, rs.group)>>), ext)
    ELSE IF Panics(rs) THEN [acc EXCEPT !.panic = TRUE]
    ELSE LET known == Those(ConvertRuleset(rs), LAMBDA r : Len(r) >= 2 /\ r[1] \in SingBoxTypes)
         IN  Counted(acc, [i \in DOMAIN known |-> SingBoxRule(known[i], rs.group)], ext)

ClashModes == << <<"clash_mode", "Global", "GLOBAL">>, <<"clash_mode", "Direct", "DIRECT">> >>
RulesetToSingBox(base, list, ext) ==
    LET upto[i \in 0..Len(list)] ==
            IF i = 0 THEN Start(Empty) ELSE SingBoxRuleset(upto[i - 1], list[i], ext)
        acc == upto[Len(list)]
    IN  [acc EXCEPT !.rules = Given(~ext.overwrite, base) \o Given(ext.modes, ClashModes)
                              \o << <<"protocol", "dns", "dns-out">> >> \o @]

-----------------------------------------------------------------------------
(* The rulesets of a request: the servers of its nodes may come first.     *)

DirectRule(server) ==
    IF IsIpv6(server) THEN <<"IP-CIDR6", server \o "/128", "no-resolve">>
    ELSE IF IsIpv4(server) THEN <<"IP-CIDR", server \o "/32", "no-resolve">>
    ELSE <<"DOMAIN", server>>
DirectRuleset(server) ==
    [group |-> "DIRECT", at |-> "inline", path |-> "", type |-> "surge", marked |-> FALSE,
     payload |-> FALSE, rules |-> <<DirectRule(server)>>]

\* mutant: they are put behind the others.
RulesetsOf_DirectLast(nodes, ext) ==
    ext.rulesets
    \o Given(ext.direct, Reverse([i \in DOMAIN nodes |-> DirectRuleset(nodes[i].server)]))
\* prepend_proxy_direct_ruleset(): each is put before the ones before it.
RulesetsOf(nodes, ext) ==
    Given(ext.direct, Reverse([i \in DOMAIN nodes |-> DirectRuleset(nodes[i].server)]))
    \o ext.rulesets
=============================================================================
