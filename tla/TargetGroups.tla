---------------------------- MODULE TargetGroups ----------------------------
(***************************************************************************)
(* The policy groups of the line formats and of sing-box                   *)
(* (generator/config/group.rs and the second half of each generator).      *)
(*                                                                         *)
(* Data: a group is [name, type, rules]; a rule [lit, text] is "[]text" or *)
(* a pattern that finds `text` in a name.  Of the group's options only the *)
(* type is kept, of Quantumult's Base64 the name.  The rules with a prefix *)
(* are in Matcher, the groups of Clash in ClashOutput.                     *)
(***************************************************************************)
EXTENDS RuleConvert

CONSTANT Groups     \* the groups of a request
ASSUME GroupsAssumption == IsList(Groups)

\* "[]text" is no pattern either: without add_direct it finds nothing.
GroupGenerate(rule, names, add_direct) ==
    IF rule.lit THEN Given(add_direct, <<rule.text>>)
    ELSE SelectSeq(names, LAMBDA n : Within(n, rule.text))

RuleTexts(g) == [i \in DOMAIN g.rules |-> g.rules[i].text]
Members(g, names, add_direct) ==
    FlattenSeq([i \in DOMAIN g.rules |-> GroupGenerate(g.rules[i], names, add_direct)])

\* A group that selects nothing gets a default; the members of an SSID group are taken as they are.
Filled_NoDefault(g, names, add_direct, default) ==       \* mutant: it stays empty
    [g EXCEPT !.rules = IF g.type = "ssid" THEN RuleTexts(g) ELSE Members(g, names, add_direct)]
Filled(g, names, add_direct, default) ==
    [g EXCEPT !.rules = IF g.type = "ssid" THEN RuleTexts(g)
                        ELSE LET m == Members(g, names, add_direct) IN
                             IF m = <<>> THEN default ELSE m]
FilledGroups(types, names, add_direct, default) ==
    LET all == [i \in DOMAIN Groups |-> Filled(Groups[i], names, add_direct, default)]
        known == Those(all, LAMBDA g : g.type \in types)
    IN  [i \in DOMAIN known |->
            [name |-> known[i].name, type |-> known[i].type, members |-> known[i].rules]]

StaticTypes == {"select", "url-test", "fallback", "load-balance"}
GroupLine(g) == Line(g.name, Pos(<<g.type>> \o g.members))
PutGroups(ini, section, lines) == SetLines(EraseSection(SetCurrentSection(ini, section)), lines)

-----------------------------------------------------------------------------
\* Surge: a group of nothing but DIRECT or REJECT is a proxy.
BuiltInPolicies == {"DIRECT", "direct", "REJECT", "reject", "REJECT-TINYGIF", "reject-tinygif"}
Alone(g) == g.type # "ssid" /\ Len(g.members) = 1 /\ g.members[1] \in BuiltInPolicies
SurgeGroups(names) ==
    FilledGroups(StaticTypes \cup {"ssid", "smart"}, names, TRUE, <<"DIRECT">>)
PutSurgeGroups(ini, groups) ==
    LET pair(g) == IF Alone(g) THEN <<"Proxy", Line(g.name, Pos(<<"direct">>))>>
                   ELSE LinePair(GroupLine(g))
    IN  SetPairs(EraseSection(SetCurrentSection(ini, "Proxy Group")),
                 [i \in DOMAIN groups |-> pair(groups[i])])

\* Loon leaves out an SSID group without a second member.
LoonGroups(names) ==
    Those(FilledGroups(StaticTypes \cup {"ssid"}, names, TRUE, <<"DIRECT">>),
          LAMBDA g : g.type = "ssid" => Len(g.members) >= 2)
PutLoonGroups(ini, groups) ==
    PutGroups(ini, "Proxy Group", [i \in DOMAIN groups |-> GroupLine(groups[i])])

QuanGroups(names) ==
    Those(FilledGroups(StaticTypes \cup {"ssid"}, names, TRUE, <<"direct">>),
          LAMBDA g : g.type = "ssid" => Len(g.members) >= 1)
PutQuanGroups(ini, groups) ==
    PutGroups(ini, "POLICY", [i \in DOMAIN groups |-> Line("", Pos(<<"base64:" \o groups[i].name>>))])

\* In QuantumultX a group of one is static.
QuanXGroupType(g) == IF g.type # "ssid" /\ Len(g.members) < 2 THEN "select" ELSE g.type
QuanXGroups(names) == FilledGroups(StaticTypes \cup {"ssid"}, names, TRUE, <<"direct">>)
PutQuanXGroups(ini, groups) ==
    PutGroups(ini, "policy", [i \in DOMAIN groups |->
        Line(QuanXGroupType(groups[i]), Pos(<<groups[i].name>> \o groups[i].members))])

\* Mellow has all proxies for a default, and keeps the groups of the base.
MellowGroups(names) ==
    FilledGroups(StaticTypes, names, FALSE, IF names = <<>> THEN <<"DIRECT">> ELSE names)
PutMellowGroups(ini, groups) ==
    SetLines(SetCurrentSection(ini, "EndpointGroup"),
             [i \in DOMAIN groups |-> Line("", Pos(<<groups[i].name>> \o groups[i].members))])

\* sing-box may get a group of everything for the Global mode.
SingBoxGroups(names, ext) ==
    FilledGroups(StaticTypes, names, TRUE, <<"DIRECT">>)
    \o Given(ext.modes, <<[name |-> "GLOBAL", type |-> "select", members |-> <<"DIRECT">> \o names]>>)
=============================================================================
