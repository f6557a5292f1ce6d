---------------------------- MODULE ClashOutput ----------------------------
(***************************************************************************)
(* What proxy_to_clash makes of the nodes: the names of the proxies and    *)
(* the members of the groups.                                              *)
(*                                                                         *)
(* Data: a name is the text "[type] emoji base n m ...", taken apart; the  *)
(* parts it does not have are None.  NoEq says what a base becomes when    *)
(* every '=' in it is replaced by '-'.                                     *)
(***************************************************************************)
EXTENDS Matcher, SequencesExt, FiniteSetsExt

CONSTANTS Bases, NoEq, DirectBase, Emojis

ASSUME NoEqAssumption == NoEq \in [Bases -> Bases]

\* The types of proxies, as far as should_skip tells them apart.
Kinds == {"ss", "ssr", "deprecated", "unsupported"}

Remarks == [type : Kinds \cup {None}, emoji : Emojis \cup {None}, base : Bases, sfx : Seq(Nat)]

PlainName(base) == [type |-> None, emoji |-> None, base |-> base, sfx |-> <<>>]
DIRECT == PlainName(DirectBase)

-----------------------------------------------------------------------------
(* Proxies.                                                                *)

Numbered(remark, n) == [remark EXCEPT !.sfx = Append(@, n)]

\* Mutant: a name that is taken gets the number 2, which may be taken as well.
process_remark_Once(remark, list) ==
    LET plain == [remark EXCEPT !.base = NoEq[@]] IN
    IF \A i \in DOMAIN list : list[i] # plain THEN plain ELSE Numbered(plain, 2)

\* The first of "name", "name 2", "name 3", ... that is not in the list; among as
\* many numbers as the list has names, and one, there is one that is free.
process_remark(remark, list) ==
    LET plain   == [remark EXCEPT !.base = NoEq[@]]
        free(x) == \A i \in DOMAIN list : list[i] # x
    IN  IF free(plain) THEN plain
        ELSE Numbered(plain, Min({n \in 2 .. Len(list) + 2 : free(Numbered(plain, n))}))

Typed(node, opt) ==
    IF opt.append_type THEN [node.name EXCEPT !.type = node.kind] ELSE node.name

\* "unsupported" are the types Clash does not know (and Snell from version 4),
\* "deprecated" the ciphers, protocols and obfuscations it has dropped, "ssr" what
\* only ClashR still has.
should_skip(node, opt) ==
    \/ node.kind = "unsupported"
    \/ opt.filter_deprecated /\ node.kind = "deprecated"
    \/ opt.filter_deprecated /\ node.kind = "ssr" /\ ~opt.clash_r

-----------------------------------------------------------------------------
(* Groups.                                                                 *)

\* A rule "[]X" stands for the name X itself, any other for the nodes it selects.
group_generate(rule, nodes) ==
    IF rule.by = "inline" THEN <<PlainName(rule.find)>>
    ELSE LET sel == SelectSeq(nodes, LAMBDA node : Selects(rule, node))
         IN  [k \in DOMAIN sel |-> sel[k].name]

Filtered(group, nodes) ==
    LET all == FlattenSeq([k \in DOMAIN group.rules |-> group_generate(group.rules[k], nodes)])
    IN  IF all = <<>> /\ ~group.provider THEN <<DIRECT>> ELSE all

\* The members are kept in a map by group name: of several groups of one name the
\* last one fills it.
FilteredMap(groups, nodes) ==
    [name \in {groups[i].name : i \in DOMAIN groups} |->
        LET last == Max({i \in DOMAIN groups : groups[i].name = name})
        IN  Filtered(groups[last], nodes)]

convert_proxy_group(group, map) ==
    [name |-> group.name, provider |-> group.provider,
     proxies |-> IF map[group.name] = <<>> /\ ~group.provider THEN <<DIRECT>>
                 ELSE map[group.name]]

\* Mutant: groups are added to those of the base configuration.
Merged_AlwaysPush(original, group) == Append(original, group)

\* A group replaces the first one of its name, or is added at the end.
Merged(original, group) ==
    LET same == {i \in DOMAIN original : original[i].name = group.name} IN
    IF same = {} THEN Append(original, group)
    ELSE [original EXCEPT ![Min(same)] = group]
=============================================================================
