------------------------------ MODULE Convert ------------------------------
(***************************************************************************)
(* One conversion: subconverter() from the first insert url to a Clash     *)
(* configuration.  Sources are fetched one after another and may fail; the *)
(* nodes are merged, filtered, named and grouped.                          *)
(*                                                                         *)
(* Data: what a url yields is one of Sources or Failed.  Of the traffic    *)
(* counters of a source, which are added alike, one is kept.  Renaming is  *)
(* a function on names.  Rulesets are RulesetRefresh's.                    *)
(***************************************************************************)
EXTENDS ClashOutput

CONSTANTS Requests,   \* the configurations a conversion may be asked with
          Sources,    \* what a url may yield: a kind, nodes and user info
          Failed,
          MaxU64      \* the largest counter

\* A source may send its counters, and when it ends.
Infos == [total : 0 .. MaxU64, expire : Nat \cup {None}]

ASSUME SourcesAssumption ==
    /\ Failed \notin Sources
    /\ \A s \in Sources :
          /\ s.nodes \in Seq([name : Remarks, kind : Kinds])
          /\ s.info \in Infos \cup {None}
    /\ MaxU64 \in Nat /\ None \notin Nat \cup Infos

\* The base configuration has no two groups of one name.
ASSUME RequestsAssumption ==
    \A r \in Requests :
       /\ r.inserts \in Nat /\ r.mains \in Nat /\ r.prepend_insert \in BOOLEAN
       /\ r.rename \in [Bases -> Bases \cup {None}]
       /\ \A i \in DOMAIN r.emoji :
             IsRule(r.emoji[i].rule) /\ r.emoji[i].replace \in Emojis
       /\ r.emoji \in Seq(ToSet(r.emoji))
       /\ r.append_info \in BOOLEAN /\ r.append_info_n \in Nat \cup {None}
       /\ r.groups \in Seq(ToSet(r.groups)) /\ r.base \in Seq(ToSet(r.base))
       /\ \A i, j \in DOMAIN r.base : i # j => r.base[i].name # r.base[j].name

VARIABLES pc, req,
          pos,            \* position of the url, node or group in hand
          group_id,
          got,            \* history: what each url yielded, insert urls first
          insert_nodes, nodes,
          infos,          \* main_source_sub_infos
          header,         \* Subscription-UserInfo
          remarks_list, proxies, groups,
          picked          \* history: the node behind each proxy, by its position

vars == <<pc, req, pos, group_id, got, insert_nodes, nodes, infos, header,
          remarks_list, proxies, groups, picked>>

fetched == <<got, insert_nodes, nodes, infos>>
output  == <<remarks_list, proxies, groups, picked>>

Init ==
    /\ req \in Requests
    /\ pc = "insert" /\ pos = 1 /\ group_id = -1
    /\ got = <<>> /\ insert_nodes = <<>> /\ nodes = <<>> /\ infos = <<>>
    /\ header = None
    /\ remarks_list = <<>> /\ proxies = <<>> /\ groups = <<>> /\ picked = <<>>

-----------------------------------------------------------------------------
(* Fetching.                                                               *)

Node(n, id, from) == [name |-> n.name, kind |-> n.kind, gid |-> id, from |-> from]

\* The elements of a set of positions, in their order.
Increasing(S) == {f \in SetToSeqs(S) : \A i, j \in DOMAIN f : i < j => f[i] < f[j]}

\* The nodes of a subscription are filtered before they are given their group id; a
\* link to a single node is not filtered.
Kept(source) ==
    {k \in DOMAIN source.nodes :
        source.kind = "sub" =>
            ~should_ignore(Node(source.nodes[k], 0, <<>>), req.exclude, req.include)}

\* add_nodes: what the source with this number in `got` adds to a list.  "nullnode"
\* stands for an empty node, of group 0.
add_nodes(list, source, number, result) ==
    \E f \in Increasing(Kept(source)) :
        result = list \o
            [k \in DOMAIN f |-> Node(source.nodes[f[k]],
                                     IF source.kind = "null" THEN 0 ELSE group_id,
                                     <<number, f[k]>>)]

FetchInsert ==
    /\ pc = "insert" /\ pos <= req.inserts
    /\ \E source \in Sources \cup {Failed} :
          /\ got' = Append(got, source)
          /\ IF source = Failed
             THEN /\ pc' = IF req.skip_failed_links THEN pc ELSE "error"
                  /\ UNCHANGED insert_nodes
             ELSE /\ add_nodes(insert_nodes, source, Len(got) + 1, insert_nodes')
                  /\ UNCHANGED pc
    /\ pos' = pos + 1 /\ group_id' = group_id + 1
    /\ UNCHANGED <<req, nodes, infos, header, output>>

BeginMain ==
    /\ pc = "insert" /\ pos > req.inserts
    /\ pc' = "main" /\ pos' = 1 /\ group_id' = 0
    /\ UNCHANGED <<req, fetched, header, output>>

\* Mutant: only a link that was fetched uses up a group id.
FetchMain_IdPerSuccess ==
    /\ pc = "main" /\ pos <= req.mains
    /\ \E source \in Sources \cup {Failed} :
          /\ got' = Append(got, source)
          /\ IF source = Failed
             THEN /\ pc' = IF req.skip_failed_links THEN pc ELSE "error"
                  /\ UNCHANGED <<nodes, infos, group_id>>
             ELSE /\ add_nodes(nodes, source, Len(got) + 1, nodes')
                  /\ infos' = Append(infos, source.info)
                  /\ group_id' = group_id + 1
                  /\ UNCHANGED pc
    /\ pos' = pos + 1
    /\ UNCHANGED <<req, insert_nodes, header, output>>

FetchMain ==
    /\ pc = "main" /\ pos <= req.mains
    /\ \E source \in Sources \cup {Failed} :
          /\ got' = Append(got, source)
          /\ IF source = Failed
             THEN /\ pc' = IF req.skip_failed_links THEN pc ELSE "error"
                  /\ UNCHANGED <<nodes, infos>>
             ELSE /\ add_nodes(nodes, source, Len(got) + 1, nodes')
                  /\ infos' = Append(infos, source.info)
                  /\ UNCHANGED pc
    /\ pos' = pos + 1 /\ group_id' = group_id + 1
    /\ UNCHANGED <<req, insert_nodes, header, output>>

Merge ==
    /\ pc = "main" /\ pos > req.mains
    /\ IF nodes = <<>> /\ insert_nodes = <<>>
       THEN pc' = "error" /\ UNCHANGED nodes
       ELSE /\ pc' = "preprocess"
            /\ nodes' = IF req.prepend_insert THEN insert_nodes \o nodes
                                              ELSE nodes \o insert_nodes
    /\ UNCHANGED <<req, pos, group_id, got, insert_nodes, infos, header, output>>

-----------------------------------------------------------------------------
(* Preprocessing and user info.                                            *)

\* node_rename: a name that would become empty is left as it was.
node_rename(node) ==
    IF req.rename[node.name.base] = None THEN node
    ELSE [node EXCEPT !.name.base = req.rename[@]]

\* The emoji of the first pattern that matches.
FirstEmoji(matching) == IF matching = {} THEN None ELSE req.emoji[Min(matching)].replace

add_emoji(node) ==
    [node EXCEPT !.name.emoji =
        FirstEmoji({i \in DOMAIN req.emoji :
                       apply_compiled_rule(compile_rule(req.emoji[i].rule), node)})]

\* Mutant: counters wrap around as plain additions do in a release build.
SatAdd_Wrapping(a, b) == (a + b) % (MaxU64 + 1)

SatAdd(a, b) == IF a + b > MaxU64 THEN MaxU64 ELSE a + b

\* The infos that count: of the first n sources that could be fetched, those of the
\* sources that sent one.
Limit(n) == IF n # None /\ n < Len(infos) THEN n ELSE Len(infos)
Counted(n) == {i \in 1 .. Limit(n) : infos[i] # None}

aggregate_sub_info(n) ==
    LET sum[k \in 0 .. Limit(n)] ==
            IF k = 0 THEN 0
            ELSE IF infos[k] = None THEN sum[k - 1]
            ELSE SatAdd(sum[k - 1], infos[k].total)
        expires == {infos[i].expire : i \in Counted(n)} \ {None}
    IN  IF Counted(n) = {} THEN None
        ELSE [total  |-> sum[Limit(n)],
              expire |-> IF expires = {} THEN None ELSE Min(expires)]

UserInfo ==
    IF ~req.append_info THEN None
    ELSE IF aggregate_sub_info(req.append_info_n) # None
    THEN aggregate_sub_info(req.append_info_n)
    ELSE req.sub_info

\* The filter script keeps some of the nodes, the sort script puts them into some
\* order.
Orders ==
    IF req.filter_script \/ req.sort
    THEN UNION {IF req.sort THEN SetToSeqs(keep) ELSE Increasing(keep) :
                   keep \in IF req.filter_script THEN SUBSET DOMAIN nodes ELSE {DOMAIN nodes}}
    ELSE {[k \in DOMAIN nodes |-> k]}

Preprocess ==
    /\ pc = "preprocess"
    /\ \E order \in Orders :
          nodes' = [k \in DOMAIN order |-> add_emoji(node_rename(nodes[order[k]]))]
    /\ header' = UserInfo
    /\ pc' = "name" /\ pos' = 1
    /\ UNCHANGED <<req, group_id, got, insert_nodes, infos, output>>

ScriptFails ==
    /\ pc = "preprocess"
    /\ req.filter_script \/ req.sort
    /\ pc' = "error"
    /\ UNCHANGED <<req, pos, group_id, fetched, header, output>>

-----------------------------------------------------------------------------
(* proxy_to_clash_yaml.                                                    *)

\* Mutant: only the names of proxies that are put out are noted.
NameNode_SkippedUnnoted ==
    /\ pc = "name" /\ pos <= Len(nodes)
    /\ LET remark == process_remark(Typed(nodes[pos], req), remarks_list) IN
       IF should_skip(nodes[pos], req)
       THEN UNCHANGED <<remarks_list, proxies, picked>>
       ELSE /\ remarks_list' = Append(remarks_list, remark)
            /\ proxies' = Append(proxies, remark) /\ picked' = Append(picked, pos)
    /\ pos' = pos + 1
    /\ UNCHANGED <<pc, req, group_id, fetched, header, groups>>

\* The name is made, and taken, before it is known whether the node is skipped.
\* The node keeps its own remark.
NameNode ==
    /\ pc = "name" /\ pos <= Len(nodes)
    /\ LET remark == process_remark(Typed(nodes[pos], req), remarks_list) IN
       /\ remarks_list' = Append(remarks_list, remark)
       /\ IF should_skip(nodes[pos], req)
          THEN UNCHANGED <<proxies, picked>>
          ELSE proxies' = Append(proxies, remark) /\ picked' = Append(picked, pos)
    /\ pos' = pos + 1
    /\ UNCHANGED <<pc, req, group_id, fetched, header, groups>>

\* In nodelist mode the proxies are all there is.
BeginGroups ==
    /\ pc = "name" /\ pos > Len(nodes)
    /\ IF req.nodelist THEN pc' = "done" /\ UNCHANGED groups
                       ELSE pc' = "groups" /\ groups' = req.base
    /\ pos' = 1
    /\ UNCHANGED <<req, group_id, fetched, header, remarks_list, proxies, picked>>

AddGroup ==
    /\ pc = "groups" /\ pos <= Len(req.groups)
    /\ groups' = Merged(groups, convert_proxy_group(req.groups[pos],
                                                    FilteredMap(req.groups, nodes)))
    /\ pos' = pos + 1
    /\ UNCHANGED <<pc, req, group_id, fetched, header, remarks_list, proxies, picked>>

Finish ==
    /\ pc = "groups" /\ pos > Len(req.groups)
    /\ pc' = "done"
    /\ UNCHANGED <<req, pos, group_id, fetched, header, output>>

Next ==
    \/ FetchInsert \/ BeginMain \/ FetchMain \/ Merge \/ Preprocess
    \/ ScriptFails \/ NameNode \/ BeginGroups \/ AddGroup \/ Finish

Spec == Init /\ [][Next]_vars

-----------------------------------------------------------------------------
(* Properties.                                                             *)

Phases == {"insert", "main", "preprocess", "name", "groups", "done", "error"}
Preprocessed == pc \in {"name", "groups", "done"}

NodeRows == [name : Remarks, kind : Kinds, gid : Int, from : Nat \X Nat]

\* The lists are typed, the counters of the loops agree with each other, and a name
\* is noted for every node.
TypeOK ==
    /\ pc \in Phases /\ pos \in Nat \ {0} /\ group_id \in Int /\ req \in Requests
    /\ got \in Seq(Sources \cup {Failed})
    /\ nodes \in Seq(NodeRows) /\ insert_nodes \in Seq(NodeRows)
    /\ remarks_list \in Seq(Remarks) /\ proxies \in Seq(Remarks)
    /\ picked \in Seq(Nat) /\ infos \in Seq({s.info : s \in Sources})
    /\ pc = "insert" => group_id = pos - 2 /\ Len(got) = pos - 1
    /\ pc = "main" => group_id = pos - 1 /\ Len(got) = req.inserts + pos - 1
    /\ pc = "name" => Len(remarks_list) = pos - 1
    /\ Len(picked) = Len(proxies) /\ Len(proxies) <= Len(remarks_list)
    /\ Len(infos) <= req.mains

\* The id of the group of a source: its place in its list, from 0 for the urls of the
\* request and from -1 for the insert urls, whatever failed before it.
GroupOf(s) ==
    IF got[s].kind = "null" THEN 0
    ELSE IF s <= req.inserts THEN s - 2 ELSE s - req.inserts - 1

Inserted(node) == node.from[1] <= req.inserts

Before(a, b) ==
    IF Inserted(a) # Inserted(b) THEN Inserted(a) = req.prepend_insert
    ELSE a.from[1] < b.from[1] \/ (a.from[1] = b.from[1] /\ a.from[2] < b.from[2])

\* The merged list has the nodes of every source that could be fetched, in the order
\* of the urls with the insert urls in front or at the end, each once and with the
\* group of its url; only what a rule excludes or does not include is missing.
SourcesInOrder ==
    pc = "preprocess" =>
        /\ \A k \in DOMAIN nodes : LET from == nodes[k].from IN
              /\ got[from[1]] # Failed
              /\ nodes[k].name = got[from[1]].nodes[from[2]].name
              /\ nodes[k].gid = GroupOf(from[1])
        /\ \A j, k \in DOMAIN nodes : j < k => Before(nodes[j], nodes[k])
        /\ \A s \in DOMAIN got : got[s] # Failed =>
              \A k \in DOMAIN got[s].nodes :
                 \/ \E i \in DOMAIN nodes : nodes[i].from = <<s, k>>
                 \/ /\ got[s].kind = "sub"
                    /\ should_ignore(Node(got[s].nodes[k], 0, <<>>),
                                     req.exclude, req.include)

\* The user info of several sources never reports less traffic than one of them, or a
\* later end than one of them, however large the counters are.
NeverUnderReported ==
    Preprocessed /\ req.append_info =>
        \A i \in Counted(req.append_info_n) :
            /\ header.total >= infos[i].total
            /\ infos[i].expire # None => header.expire <= infos[i].expire

\* No two proxies of the configuration have the same name, although sources repeat
\* names, have names that end in a number, and have names that differ in '=' only.
UniqueNames ==
    \A i, j \in DOMAIN proxies : i # j => proxies[i] # proxies[j]

\* Every group that is asked for is in the configuration, once, and can be used: it
\* has a member or a provider; the groups of the base that are not asked for stay.
\* Groups of the same name share the members of the last one.
GroupsWhole ==
    pc = "done" /\ ~req.nodelist =>
        /\ \A i, j \in DOMAIN groups : i # j => groups[i].name # groups[j].name
        /\ \A i \in DOMAIN req.groups :
              \E k \in DOMAIN groups :
                 /\ groups[k].name = req.groups[i].name
                 /\ groups[k].proxies # <<>> \/ groups[k].provider
        /\ \A i \in DOMAIN req.base :
              /\ i \in DOMAIN groups /\ groups[i].name = req.base[i].name
              /\ \/ groups[i] = req.base[i]
                 \/ \E k \in DOMAIN req.groups : req.groups[k].name = groups[i].name

\* A rule as an emoji pattern has to be written for a group: behind the first part a
\* "!" makes a number no number, and opens a range downwards.
AsPattern(range) ==
    [i \in DOMAIN range |->
        IF i = 1 \/ ~range[i].neg THEN range[i]
        ELSE [neg |-> FALSE, hi |-> range[i].hi,
              form |-> IF range[i].form = "exact" THEN "bad" ELSE range[i].form,
              lo |-> IF range[i].form = "range" THEN MinInt ELSE range[i].lo]]

\* INSERT counts the groups of the urls of the request, as GROUPID does.
AsEmojiRule(rule) ==
    Rule(IF rule.by = "insert" THEN "groupid" ELSE rule.by, AsPattern(rule.range), rule.find)

\* Two evaluations of rules have to agree, whatever rule is configured: a node gets the
\* emoji of the first pattern that would select it for a group.  They agree on all that
\* the rules are documented to mean but two things, which AsEmojiRule names: INSERT is
\* "Like GROUPID but negates direction" for a group (matcher.rs:53) and just like GROUPID
\* for an emoji, and a "!" negates a range wherever it stands for a group, in front only
\* for an emoji.
EmojiByRule ==
    Preprocessed => \A k \in DOMAIN nodes :
        nodes[k].name.emoji =
            FirstEmoji({i \in DOMAIN req.emoji :
                           Selects(AsEmojiRule(req.emoji[i].rule), nodes[k])})

\* "nodelist - List of all available proxy nodes": a group lists proxies that the
\* configuration has, apart from the names its rules give literally.
MembersExist ==
    pc = "done" /\ ~req.nodelist =>
        \A g \in DOMAIN req.groups, i \in DOMAIN groups : groups[i].name = req.groups[g].name =>
            \A m \in DOMAIN groups[i].proxies :
                \/ \E p \in DOMAIN proxies : proxies[p] = groups[i].proxies[m]
                \/ groups[i].proxies[m] = DIRECT
                \/ \E h \in DOMAIN req.groups : \E k \in DOMAIN req.groups[h].rules :
                      /\ req.groups[h].rules[k].by = "inline"
                      /\ groups[i].proxies[m] = PlainName(req.groups[h].rules[k].find)
=============================================================================
