----------------------------- MODULE ConvertProofs -----------------------------
(***************************************************************************)
(* Theorems about Convert, for any sources, any requests and any number of *)
(* urls, nodes and groups.                                                 *)
(***************************************************************************)
EXTENDS Convert, FiniteSetTheorems, WellFoundedInduction,
        SequenceTheorems, TLAPS

-----------------------------------------------------------------------------
(* The rules.                                                              *)

\* With "!" only in front, the range that is parsed once contains a group id exactly if
\* the range that is read each time matches it.
LEMMA CompiledRange ==
  ASSUME NEW range \in Seq(Parts), NEW id \in Int,
         \A i \in DOMAIN range : range[i].neg => i = 1
  PROVE  LET ids == parse_range_string(range) IN
         match_range(range, id) <=>
            (ids.negate # \E r \in ids.ranges : r.lower <= id /\ id <= r.upper)
  <1> DEFINE ids  == parse_range_string(range)
             hits == {i \in DOMAIN range : Covers(range[i], id)}
  <1>1. DOMAIN range = 1 .. Len(range) /\ Len(range) \in Nat
    OBVIOUS
  <1>2. \A i \in DOMAIN range : range[i] \in Parts
    BY <1>1
  <1>3. \A i \in DOMAIN range : /\ range[i].form \in {"exact", "range", "bad"}
                                /\ range[i].lo \in Int /\ range[i].hi \in Int
    BY <1>2 DEF Parts
  <1> DEFINE used == {j \in DOMAIN range :
                         range[j].form # "bad" /\ range[j].lo <= range[j].hi}
             parsed(i) == [lower |-> range[i].lo, upper |-> range[i].hi]
  <1>4. ids.ranges = {parsed(i) : i \in used}
    <2>1. \A i \in DOMAIN range : i = 1 \/ ~range[i].neg
      OBVIOUS
    <2>2. ids.ranges = {[lower |-> IF i = 1 \/ ~range[i].neg THEN range[i].lo ELSE MinInt,
                         upper |-> range[i].hi] :
                           i \in {j \in DOMAIN range :
                              /\ \/ range[j].form = "range"
                                 \/ range[j].form = "exact" /\ (j = 1 \/ ~range[j].neg)
                              /\ (IF j = 1 \/ ~range[j].neg THEN range[j].lo ELSE MinInt)
                                    <= range[j].hi}}
      BY DEF parse_range_string
    <2> QED
      BY <1>3, <2>1, <2>2
  <1>5. (\E r \in ids.ranges : r.lower <= id /\ id <= r.upper) <=> hits # {}
    <2>1. (\E r \in ids.ranges : r.lower <= id /\ id <= r.upper)
             <=> \E i \in used : range[i].lo <= id /\ id <= range[i].hi
      <3> DEFINE in(r) == r.lower <= id /\ id <= r.upper
      <3>1. (\E r \in {parsed(i) : i \in used} : in(r)) <=> \E i \in used : in(parsed(i))
        OBVIOUS
      <3> QED
        BY <1>4, <3>1, Zenon
    <2>2. (\E i \in used : range[i].lo <= id /\ id <= range[i].hi) <=> hits # {}
      BY <1>3 DEF Covers
    <2> QED
      BY <2>1, <2>2
  <1> DEFINE negated == \E j \in DOMAIN range : range[j].neg /\ \A i \in hits : j <= i
  <1>6. ids.negate <=> (range # <<>> /\ range[1].neg)
    BY DEF parse_range_string
  <1>7. (range # <<>> /\ range[1].neg) <=> negated
    <2>1. ASSUME range # <<>>, range[1].neg PROVE negated
      <3>1. 1 \in DOMAIN range /\ \A i \in hits : 1 <= i
        BY <1>1, <2>1
      <3> QED
        BY <2>1, <3>1
    <2>2. ASSUME negated PROVE range # <<>> /\ range[1].neg
      BY <1>1, <2>2
    <2> QED
      BY <2>1, <2>2
  <1>8. match_range(range, id) <=> (negated # (hits # {}))
    BY Zenon DEF match_range
  <1> HIDE DEF ids, hits, negated
  <1>9. match_range(range, id) <=>
            (ids.negate # \E r \in ids.ranges : r.lower <= id /\ id <= r.upper)
    <2>1. ids.negate <=> negated
      BY <1>6, <1>7
    <2>2. ids.negate \in BOOLEAN /\ negated \in BOOLEAN
      BY <1>2 DEF ids, negated, parse_range_string, Parts
    <2> QED
      BY <1>5, <1>8, <2>1, <2>2
  <1> QED
    BY <1>9 DEF ids

\* What a range is parsed to does not change when it is written as a pattern, where a
\* "!" stands in front only.
LEMMA ParsedAsPattern ==
  ASSUME NEW range \in Seq(Parts)
  PROVE  /\ AsPattern(range) \in Seq(Parts)
         /\ \A i \in DOMAIN AsPattern(range) : AsPattern(range)[i].neg => i = 1
         /\ parse_range_string(range) = parse_range_string(AsPattern(range))
  <1> DEFINE pattern == AsPattern(range)
             bare(i) == i = 1 \/ ~range[i].neg
  <1>1. DOMAIN range = 1 .. Len(range) /\ Len(range) \in Nat
    OBVIOUS
  <1>2. \A i \in DOMAIN range : range[i] \in Parts
    BY <1>1
  <1>3. DOMAIN pattern = DOMAIN range
    BY DEF AsPattern
  <1>4. \A i \in DOMAIN range :
           pattern[i] = IF bare(i) THEN range[i]
                        ELSE [neg |-> FALSE, hi |-> range[i].hi,
                              form |-> IF range[i].form = "exact" THEN "bad"
                                                                  ELSE range[i].form,
                              lo |-> IF range[i].form = "range" THEN MinInt ELSE range[i].lo]
    BY DEF AsPattern
  <1>5. \A i \in DOMAIN range :
           /\ pattern[i] \in Parts
           /\ pattern[i].neg => i = 1
           /\ pattern[i].hi = range[i].hi
           /\ bare(i) => pattern[i] = range[i]
           /\ ~bare(i) => /\ pattern[i].neg = FALSE
                          /\ range[i].form = "exact" => pattern[i].form = "bad"
                          /\ range[i].form # "exact" => pattern[i].form = range[i].form
                          /\ range[i].form = "range" => pattern[i].lo = MinInt
    <2> TAKE i \in DOMAIN range
    <2> DEFINE form == IF range[i].form = "exact" THEN "bad" ELSE range[i].form
               lo   == IF range[i].form = "range" THEN MinInt ELSE range[i].lo
    <2>1. /\ range[i] \in Parts /\ range[i].hi \in Int /\ range[i].lo \in Int
          /\ range[i].form \in {"exact", "range", "bad"}
      BY <1>2 DEF Parts
    <2>2. CASE bare(i)
      BY <1>4, <2>1, <2>2
    <2>3. CASE ~bare(i)
      <3>1. pattern[i] = [neg |-> FALSE, hi |-> range[i].hi, form |-> form, lo |-> lo]
        BY <1>4, <2>3
      <3>2. form \in {"exact", "range", "bad"} /\ lo \in Int
        BY <2>1, BoundsAssumption
      <3>3. /\ range[i].form = "exact" => form = "bad"
            /\ range[i].form # "exact" => form = range[i].form
            /\ range[i].form = "range" => lo = MinInt
        OBVIOUS
      <3> HIDE DEF form, lo, pattern
      <3>4. pattern[i] \in Parts
        BY <2>1, <3>1, <3>2 DEF Parts
      <3> QED
        BY <2>3, <3>1, <3>3, <3>4
    <2> QED
      BY <2>2, <2>3
  <1>6. pattern = [i \in 1 .. Len(range) |-> pattern[i]]
    BY <1>1 DEF AsPattern
  <1> HIDE DEF pattern
  <1>7. pattern \in Seq(Parts)
    BY <1>1, <1>3, <1>5, <1>6
  <1>8. (pattern # <<>> /\ pattern[1].neg) = (range # <<>> /\ range[1].neg)
    <2>1. (pattern # <<>>) = (range # <<>>)
      BY <1>1, <1>3, <1>7
    <2>2. range # <<>> => 1 \in DOMAIN range
      BY <1>1
    <2>3. range # <<>> => pattern[1] = range[1]
      BY <1>5, <2>2
    <2> QED
      BY <2>1, <2>3
  <1> DEFINE lower(r, i) == IF i = 1 \/ ~r[i].neg THEN r[i].lo ELSE MinInt
             used(r, i)  == /\ \/ r[i].form = "range"
                               \/ r[i].form = "exact" /\ (i = 1 \/ ~r[i].neg)
                            /\ lower(r, i) <= r[i].hi
             ranges(r)   == {[lower |-> lower(r, i), upper |-> r[i].hi] :
                                i \in {j \in DOMAIN r : used(r, j)}}
  <1>9. \A i \in DOMAIN range :
           /\ used(range, i) <=> used(pattern, i)
           /\ used(range, i) => lower(range, i) = lower(pattern, i)
           /\ range[i].hi = pattern[i].hi
    BY <1>2, <1>5, BoundsAssumption DEF Parts
  <1>10. ranges(range) = ranges(pattern)
    <2> HIDE DEF lower, used
    <2>1. {j \in DOMAIN range : used(range, j)} = {j \in DOMAIN pattern : used(pattern, j)}
      BY <1>3, <1>9
    <2> QED
      BY <1>9, <2>1
  <1>11. \A r : parse_range_string(r) = [negate |-> r # <<>> /\ r[1].neg, ranges |-> ranges(r)]
    BY DEF parse_range_string
  <1> HIDE DEF ranges, lower, used
  <1>12. parse_range_string(range) = parse_range_string(pattern)
    BY <1>8, <1>10, <1>11
  <1>13. \A i \in DOMAIN pattern : pattern[i].neg => i = 1
    BY <1>3, <1>5
  <1> QED
    BY <1>7, <1>12, <1>13 DEF pattern

\* Any rule, compiled, selects what the rule it is read as selects for a group.
LEMMA CompiledAgrees ==
  ASSUME NEW rule, IsRule(rule), NEW node, node.gid \in Int
  PROVE  apply_compiled_rule(compile_rule(rule), node) <=> Selects(AsEmojiRule(rule), node)
  <1> DEFINE as == AsEmojiRule(rule)
             range == AsPattern(rule.range)
  <1>1. /\ as.by = IF rule.by = "insert" THEN "groupid" ELSE rule.by
        /\ as.range = range /\ as.find = rule.find
    BY DEF AsEmojiRule, Rule
  <1>2. /\ range \in Seq(Parts) /\ \A i \in DOMAIN range : range[i].neg => i = 1
        /\ parse_range_string(rule.range) = parse_range_string(range)
    BY ParsedAsPattern DEF IsRule
  <1> HIDE DEF as, range
  <1>3. CASE rule.by = "name"
    BY <1>1, <1>3 DEF apply_compiled_rule, compile_rule, Selects, apply_matcher, as
  <1>4. CASE rule.by # "name"
    <2>1. as.by = "groupid"
      BY <1>1, <1>4 DEF IsRule
    <2>2. match_range(range, node.gid) <=>
             (parse_range_string(range).negate #
                 \E r \in parse_range_string(range).ranges :
                    r.lower <= node.gid /\ node.gid <= r.upper)
      BY <1>2, CompiledRange
    <2>3. apply_matcher(as, node) <=> match_range(range, node.gid)
      BY <1>1, <2>1 DEF apply_matcher
    <2>4. apply_compiled_rule(compile_rule(rule), node)
             <=> /\ match_range(range, node.gid)
                 /\ rule.find # None => reg_find(node, rule.find)
      BY <1>2, <1>4, <2>2, Zenon DEF apply_compiled_rule, compile_rule
    <2>5. Selects(as, node) <=> /\ match_range(range, node.gid)
                                /\ rule.find # None => reg_find(node, rule.find)
      BY <1>1, <2>3 DEF Selects
    <2> QED
      BY <2>4, <2>5 DEF as
  <1> QED
    BY <1>3, <1>4

-----------------------------------------------------------------------------
(* The names.                                                              *)

\* A set of natural numbers has a smallest one.
LEMMA MinOfNats ==
  ASSUME NEW S \in SUBSET Nat, S # {}
  PROVE  Min(S) \in S /\ \A n \in S : Min(S) <= n
  <1>1. PICK m \in S : \A n \in S : ~(<<n, m>> \in OpToRel(<, Nat))
    BY NatLessThanWellFounded, WFMin, Zenon
  <1>2. \A n \in S : ~(n < m)
    BY <1>1, Zenon DEF OpToRel
  <1>3. \A n \in S : m <= n
    BY <1>2
  <1> QED
    BY <1>3 DEF Min

\* Different numbers make different names.
LEMMA NumberedInjective ==
  ASSUME NEW remark \in Remarks, NEW m \in Nat, NEW n \in Nat,
         Numbered(remark, m) = Numbered(remark, n)
  PROVE  m = n
  <1>1. Append(remark.sfx, m) = Append(remark.sfx, n)
    BY DEF Numbered, Remarks
  <1> QED
    BY <1>1 DEF Remarks

\* process_remark ends with a name that is not in the list.
LEMMA FreshRemark ==
  ASSUME NEW remark \in Remarks, NEW list \in Seq(Remarks)
  PROVE  /\ process_remark(remark, list) \in Remarks
         /\ \A i \in DOMAIN list : list[i] # process_remark(remark, list)
  <1> DEFINE plain   == [remark EXCEPT !.base = NoEq[@]]
             free(y) == \A i \in DOMAIN list : list[i] # y
             tries   == 2 .. Len(list) + 2
             good    == {n \in tries : free(Numbered(plain, n))}
             at      == [n \in tries |-> CHOOSE i \in DOMAIN list : list[i] = Numbered(plain, n)]
  <1>1. plain \in Remarks
    BY NoEqAssumption DEF Remarks
  <1>2. \A n \in Nat : Numbered(plain, n) \in Remarks
    <2>1. plain.sfx \in Seq(Nat)
      BY <1>1 DEF Remarks
    <2>2. \A n \in Nat : Append(plain.sfx, n) \in Seq(Nat)
      BY <2>1
    <2> HIDE DEF plain
    <2> QED
      BY <1>1, <2>2 DEF Remarks, Numbered
  <1>3. Len(list) \in Nat /\ DOMAIN list = 1 .. Len(list)
    OBVIOUS
  <1>4. good # {}
    <2>1. SUFFICES ASSUME \A n \in tries : ~free(Numbered(plain, n)) PROVE FALSE
      OBVIOUS
    <2>2. \A n \in tries : at[n] \in 1 .. Len(list) /\ list[at[n]] = Numbered(plain, n)
      BY <2>1, <1>3
    <2>3. IsFiniteSet(tries) /\ Cardinality(tries) = Len(list) + 1
      BY <1>3, FS_Interval
    <2>4. IsFiniteSet(1 .. Len(list)) /\ Cardinality(1 .. Len(list)) = Len(list)
      BY <1>3, FS_Interval
    <2>5. at \in [tries -> 1 .. Len(list)]
      BY <2>2
    <2>6. PICK m \in tries, n \in tries : m # n /\ at[m] = at[n]
      <3>1. Cardinality(tries) > Cardinality(1 .. Len(list))
        BY <1>3, <2>3, <2>4
      <3> HIDE DEF tries, at
      <3> QED
        BY <2>3, <2>4, <2>5, <3>1, FS_PigeonHole
    <2>7. Numbered(plain, m) = Numbered(plain, n)
      BY <2>2, <2>6
    <2> QED
      BY <1>1, <1>3, <2>6, <2>7, NumberedInjective
  <1>5. good \in SUBSET Nat
    BY <1>3
  <1>6. Min(good) \in good
    BY <1>4, <1>5, MinOfNats
  <1>7. CASE free(plain)
    BY <1>1, <1>7 DEF process_remark
  <1>8. CASE ~free(plain)
    <2>1. process_remark(remark, list) = Numbered(plain, Min(good))
      BY <1>8 DEF process_remark
    <2> QED
      BY <1>2, <1>5, <1>6, <2>1
  <1> QED
    BY <1>7, <1>8

-----------------------------------------------------------------------------
(* The invariant.                                                          *)

\* How far the loops have come, and what is empty before its phase.
Progress ==
    /\ pc = "insert" => pos <= req.inserts + 1 /\ infos = <<>> /\ nodes = <<>>
    /\ pc = "main" => pos <= req.mains + 1 /\ Len(infos) <= pos - 1
    /\ pc \in {"insert", "main", "preprocess"} =>
          remarks_list = <<>> /\ proxies = <<>> /\ picked = <<>>

\* The name of a proxy is noted.
NamesNoted ==
    \A i \in DOMAIN proxies : \E j \in DOMAIN remarks_list : remarks_list[j] = proxies[i]

\* GroupsWhole for the groups that were added so far.
GroupsSoFar ==
    pc = "groups" =>
        /\ groups \in Seq(ToSet(groups))
        /\ \A i, j \in DOMAIN groups : i # j => groups[i].name # groups[j].name
        /\ \A i \in DOMAIN req.groups : i < pos =>
              \E k \in DOMAIN groups :
                 /\ groups[k].name = req.groups[i].name
                 /\ groups[k].proxies # <<>> \/ groups[k].provider
        /\ \A i \in DOMAIN req.base :
              /\ i \in DOMAIN groups /\ groups[i].name = req.base[i].name
              /\ \/ groups[i] = req.base[i]
                 \/ \E k \in DOMAIN req.groups : req.groups[k].name = groups[i].name

ConvertInv == TypeOK /\ Progress /\ NamesNoted /\ UniqueNames

-----------------------------------------------------------------------------
(* The lists.                                                              *)

\* Putting a set of positions into increasing order gives a sequence of them.
LEMMA IncreasingTyped ==
  ASSUME NEW n \in Nat, NEW S \in SUBSET (1 .. n), NEW f \in Increasing(S)
  PROVE  f \in Seq(S)
  <1>1. IsFiniteSet(1 .. n)
    BY FS_Interval
  <1>2. Cardinality(S) \in Nat
    BY <1>1, FS_Subset, FS_CardinalityType
  <1>3. f \in [1 .. Cardinality(S) -> S]
    BY DEF Increasing, SetToSeqs
  <1> QED
    BY <1>2, <1>3

\* What add_nodes adds for a sequence of positions.
Added(source, number, id, f) ==
    [k \in DOMAIN f |-> Node(source.nodes[f[k]], id, <<number, f[k]>>)]

IdNow(source) == IF source.kind = "null" THEN 0 ELSE group_id

Lengthened(list, source, number, result) ==
    \E f \in Increasing(Kept(source)) :
        /\ Added(source, number, IdNow(source), f) \in Seq(NodeRows)
        /\ result = list \o Added(source, number, IdNow(source), f)

\* add_nodes makes a list of nodes longer by nodes.
LEMMA AddNodesTyped ==
  ASSUME TypeOK, NEW list \in Seq(NodeRows), NEW source \in Sources, NEW number \in Nat,
         NEW result, add_nodes(list, source, number, result)
  PROVE  /\ result \in Seq(NodeRows)
         /\ Lengthened(list, source, number, result)
  <1>1. source.nodes \in Seq([name : Remarks, kind : Kinds])
    BY SourcesAssumption
  <1>2. PICK f \in Increasing(Kept(source)) :
           result = list \o Added(source, number, IdNow(source), f)
    BY DEF add_nodes, Added, IdNow
  <1>3. Kept(source) \in SUBSET (1 .. Len(source.nodes)) /\ Len(source.nodes) \in Nat
    BY <1>1 DEF Kept
  <1>4. f \in Seq(Kept(source)) /\ Len(f) \in Nat /\ DOMAIN f = 1 .. Len(f)
    <2>1. f \in Seq(Kept(source))
      BY <1>2, <1>3, IncreasingTyped
    <2> QED
      BY <2>1
  <1>5. ASSUME NEW k \in DOMAIN f
        PROVE  Node(source.nodes[f[k]], IdNow(source), <<number, f[k]>>) \in NodeRows
    <2>1. f[k] \in 1 .. Len(source.nodes)
      BY <1>3, <1>4
    <2>2. source.nodes[f[k]] \in [name : Remarks, kind : Kinds]
      BY <1>1, <2>1, ElementOfSeq
    <2>3. group_id \in Int
      BY DEF TypeOK
    <2> QED
      BY <2>1, <2>2, <2>3 DEF Node, NodeRows, IdNow
  <1>6. Added(source, number, IdNow(source), f) \in Seq(NodeRows)
    BY <1>4, <1>5 DEF Added
  <1> QED
    BY <1>2, <1>6, ConcatProperties DEF Lengthened

\* The scripts put positions of nodes into a sequence.
LEMMA OrdersTyped ==
  ASSUME TypeOK, NEW order \in Orders
  PROVE  order \in Seq(DOMAIN nodes)
  <1>1. nodes \in Seq(NodeRows) /\ Len(nodes) \in Nat /\ DOMAIN nodes = 1 .. Len(nodes)
    BY DEF TypeOK
  <1>2. ASSUME NEW keep \in SUBSET DOMAIN nodes, order \in Increasing(keep)
        PROVE  order \in Seq(DOMAIN nodes)
    <2>1. order \in Seq(keep)
      BY <1>1, <1>2, IncreasingTyped
    <2> QED
      BY <2>1, <1>2, SeqMonotonic
  <1>3. ASSUME NEW keep \in SUBSET DOMAIN nodes, order \in SetToSeqs(keep)
        PROVE  order \in Seq(DOMAIN nodes)
    <2>1. Cardinality(keep) \in Nat
      <3>1. IsFiniteSet(DOMAIN nodes)
        BY <1>1, FS_Interval
      <3> QED
        BY <3>1, FS_Subset, FS_CardinalityType
    <2>2. order \in [1 .. Cardinality(keep) -> keep]
      BY <1>3 DEF SetToSeqs
    <2> QED
      BY <2>1, <2>2
  <1>4. order = [k \in DOMAIN nodes |-> k] => order \in Seq(DOMAIN nodes)
    BY <1>1
  <1> QED
    BY <1>2, <1>3, <1>4 DEF Orders

\* Renaming and emojis leave a node a node, and its group.
LEMMA PreprocessedTyped ==
  ASSUME TypeOK, NEW node \in NodeRows
  PROVE  /\ node_rename(node) \in NodeRows
         /\ add_emoji(node) \in NodeRows
         /\ add_emoji(node) = [node EXCEPT !.name.emoji = add_emoji(node).name.emoji]
  <1>1. req \in Requests
    BY DEF TypeOK
  <1>2. node_rename(node) \in NodeRows
    <2>1. node.name \in Remarks /\ node.name.base \in Bases
      BY DEF NodeRows, Remarks
    <2>2. req.rename[node.name.base] # None => req.rename[node.name.base] \in Bases
      BY <1>1, <2>1, RequestsAssumption
    <2> QED
      BY <2>1, <2>2 DEF node_rename, NodeRows, Remarks
  <1> DEFINE matching == {i \in DOMAIN req.emoji :
                            apply_compiled_rule(compile_rule(req.emoji[i].rule), node)}
  <1>3. FirstEmoji(matching) \in Emojis \cup {None}
    <2>1. DOMAIN req.emoji \in SUBSET Nat
      BY <1>1, RequestsAssumption
    <2>2. matching # {} => Min(matching) \in DOMAIN req.emoji
      BY <2>1, MinOfNats
    <2> QED
      BY <1>1, <2>2, RequestsAssumption DEF FirstEmoji
  <1>4. add_emoji(node) = [node EXCEPT !.name.emoji = FirstEmoji(matching)]
    BY DEF add_emoji
  <1> HIDE DEF matching
  <1>5. add_emoji(node) \in NodeRows
    <2> DEFINE name == [node.name EXCEPT !.emoji = FirstEmoji(matching)]
    <2>1. name \in Remarks
      BY <1>3 DEF NodeRows, Remarks
    <2>2. add_emoji(node) = [node EXCEPT !.name = name]
      BY <1>4
    <2> HIDE DEF name
    <2> QED
      BY <2>1, <2>2 DEF NodeRows
  <1>6. add_emoji(node).name.emoji = FirstEmoji(matching)
    BY <1>4 DEF NodeRows, Remarks
  <1> QED
    BY <1>2, <1>4, <1>5, <1>6

-----------------------------------------------------------------------------
(* The steps.                                                              *)

\* A conversion starts with everything empty.
LEMMA InitInv == Init => ConvertInv
  <1> SUFFICES ASSUME Init PROVE ConvertInv
    OBVIOUS
  <1>1. req.inserts \in Nat /\ req.mains \in Nat
    BY RequestsAssumption DEF Init
  <1>2. TypeOK
    BY <1>1 DEF Init, TypeOK, Phases
  <1> QED
    BY <1>1, <1>2 DEF Init, ConvertInv, Progress, NamesNoted, UniqueNames

\* A link that is fetched, or fails, leaves the lists typed and the counters in step.
LEMMA FetchInv ==
  ASSUME ConvertInv, FetchInsert \/ BeginMain \/ FetchMain
  PROVE  ConvertInv'
  <1>1. TypeOK /\ Progress
    BY DEF ConvertInv
  <1>2. req \in Requests /\ req.inserts \in Nat /\ req.mains \in Nat
    BY <1>1, RequestsAssumption DEF TypeOK
  <1>3. /\ Len(got) \in Nat /\ got \in Seq(Sources \cup {Failed}) /\ pos \in Nat \ {0}
        /\ group_id \in Int /\ pc \in Phases
        /\ nodes \in Seq(NodeRows) /\ insert_nodes \in Seq(NodeRows)
        /\ infos \in Seq({s.info : s \in Sources})
    BY <1>1 DEF TypeOK
  <1>4. /\ remarks_list \in Seq(Remarks) /\ proxies \in Seq(Remarks) /\ picked \in Seq(Nat)
        /\ Len(picked) = Len(proxies) /\ Len(proxies) <= Len(remarks_list)
        /\ Len(infos) <= req.mains
    BY <1>1 DEF TypeOK
  <1>5. CASE FetchInsert
    <2>1. PICK source \in Sources \cup {Failed} :
             /\ got' = Append(got, source)
             /\ IF source = Failed
                THEN /\ pc' = IF req.skip_failed_links THEN pc ELSE "error"
                     /\ UNCHANGED insert_nodes
                ELSE /\ add_nodes(insert_nodes, source, Len(got) + 1, insert_nodes')
                     /\ UNCHANGED pc
      BY <1>5 DEF FetchInsert
    <2>2. insert_nodes' \in Seq(NodeRows)
      BY <1>1, <1>3, <2>1, AddNodesTyped
    <2>3. got' \in Seq(Sources \cup {Failed}) /\ Len(got') = Len(got) + 1
      BY <1>3, <2>1
    <2>4. pc' \in {"insert", "error"}
      BY <1>5, <2>1 DEF FetchInsert
    <2>5. /\ pc = "insert" /\ pos <= req.inserts
          /\ pos' = pos + 1 /\ group_id' = group_id + 1
          /\ UNCHANGED <<req, nodes, infos, remarks_list, proxies, picked>>
      BY <1>5 DEF FetchInsert, output
    <2>6. group_id = pos - 2 /\ Len(got) = pos - 1 /\ infos = <<>> /\ nodes = <<>>
          /\ remarks_list = <<>> /\ proxies = <<>> /\ picked = <<>>
      BY <1>1, <2>5 DEF TypeOK, Progress
    <2>7. TypeOK'
      BY <1>2, <1>3, <1>4, <2>2, <2>3, <2>4, <2>5, <2>6 DEF TypeOK, Phases
    <2>8. Progress'
      BY <1>2, <1>3, <2>4, <2>5, <2>6 DEF Progress
    <2> QED
      BY <2>5, <2>7, <2>8 DEF ConvertInv, NamesNoted, UniqueNames
  <1>6. CASE BeginMain
    <2>1. /\ pc = "insert" /\ pos > req.inserts
          /\ pc' = "main" /\ pos' = 1 /\ group_id' = 0
          /\ UNCHANGED <<req, got, insert_nodes, nodes, infos, remarks_list, proxies, picked>>
      BY <1>6 DEF BeginMain, output, fetched
    <2>2. Len(got) = pos - 1 /\ pos <= req.inserts + 1 /\ infos = <<>>
          /\ remarks_list = <<>> /\ proxies = <<>> /\ picked = <<>>
      BY <1>1, <2>1 DEF TypeOK, Progress
    <2>3. TypeOK'
      BY <1>2, <1>3, <1>4, <2>1, <2>2 DEF TypeOK, Phases
    <2>4. Progress'
      BY <1>2, <2>1, <2>2 DEF Progress
    <2> QED
      BY <2>1, <2>3, <2>4 DEF ConvertInv, NamesNoted, UniqueNames
  <1>7. CASE FetchMain
    <2>1. PICK source \in Sources \cup {Failed} :
             /\ got' = Append(got, source)
             /\ IF source = Failed
                THEN /\ pc' = IF req.skip_failed_links THEN pc ELSE "error"
                     /\ UNCHANGED <<nodes, infos>>
                ELSE /\ add_nodes(nodes, source, Len(got) + 1, nodes')
                     /\ infos' = Append(infos, source.info)
                     /\ UNCHANGED pc
      BY <1>7 DEF FetchMain
    <2>2. nodes' \in Seq(NodeRows)
      BY <1>1, <1>3, <2>1, AddNodesTyped
    <2>3. got' \in Seq(Sources \cup {Failed}) /\ Len(got') = Len(got) + 1
      BY <1>3, <2>1
    <2>4. infos' \in Seq({s.info : s \in Sources}) /\ Len(infos') <= Len(infos) + 1
      <3> DEFINE Told == {s.info : s \in Sources}
      <3>1. source # Failed => source.info \in Told
        OBVIOUS
      <3>2. infos' = infos \/ (source # Failed /\ infos' = Append(infos, source.info))
        BY <2>1
      <3>3. infos \in Seq(Told) /\ Len(infos) \in Nat
        BY <1>3
      <3> HIDE DEF Told
      <3>4. infos' \in Seq(Told) /\ Len(infos') <= Len(infos) + 1
        BY <3>1, <3>2, <3>3, AppendProperties
      <3> QED
        BY <3>4 DEF Told
    <2>5. /\ pc = "main" /\ pos <= req.mains /\ pc' \in {"main", "error"}
          /\ pos' = pos + 1 /\ group_id' = group_id + 1
          /\ UNCHANGED <<req, insert_nodes, remarks_list, proxies, picked>>
      BY <1>7, <2>1 DEF FetchMain, output
    <2>6. /\ group_id = pos - 1 /\ Len(got) = req.inserts + pos - 1 /\ Len(infos) <= pos - 1
          /\ remarks_list = <<>> /\ proxies = <<>> /\ picked = <<>>
      BY <1>1, <2>5 DEF TypeOK, Progress
    <2>7. TypeOK'
      <3>1. /\ pos' \in Nat \ {0} /\ group_id' \in Int /\ Len(infos') <= req'.mains
            /\ group_id' = pos' - 1 /\ Len(got') = req'.inserts + pos' - 1
        BY <1>2, <1>3, <2>3, <2>4, <2>5, <2>6
      <3>2. /\ Len(picked') = Len(proxies') /\ Len(proxies') <= Len(remarks_list')
            /\ remarks_list' \in Seq(Remarks) /\ proxies' \in Seq(Remarks)
            /\ picked' \in Seq(Nat)
        BY <1>4, <2>5
      <3>3. /\ pc' \in {"main", "error"} /\ pc' \in Phases /\ req' \in Requests
            /\ insert_nodes' \in Seq(NodeRows)
        BY <1>2, <1>3, <2>5 DEF Phases
      <3>4. /\ pc' = "insert" => group_id' = pos' - 2 /\ Len(got') = pos' - 1
            /\ pc' = "main" => group_id' = pos' - 1 /\ Len(got') = req'.inserts + pos' - 1
            /\ pc' = "name" => Len(remarks_list') = pos' - 1
        BY <3>1, <3>3
      <3> QED
        BY <2>2, <2>3, <2>4, <3>1, <3>2, <3>3, <3>4, Zenon DEF TypeOK
    <2>8. Progress'
      BY <1>2, <1>3, <2>4, <2>5, <2>6 DEF Progress
    <2> QED
      BY <2>5, <2>7, <2>8 DEF ConvertInv, NamesNoted, UniqueNames
  <1> QED
    BY <1>5, <1>6, <1>7

\* Merging and preprocessing leave a list of nodes, and no name is noted yet.
LEMMA PrepareInv ==
  ASSUME ConvertInv, Merge \/ Preprocess \/ ScriptFails
  PROVE  ConvertInv'
  <1>1. TypeOK /\ Progress
    BY DEF ConvertInv
  <1>2. nodes \in Seq(NodeRows) /\ insert_nodes \in Seq(NodeRows)
    BY <1>1 DEF TypeOK
  <1>3. CASE Merge
    <2>1. nodes' \in Seq(NodeRows)
      <3>1. insert_nodes \o nodes \in Seq(NodeRows) /\ nodes \o insert_nodes \in Seq(NodeRows)
        BY <1>2, ConcatProperties
      <3> QED
        BY <1>2, <1>3, <3>1, Zenon DEF Merge
    <2>2. /\ pc = "main" /\ pc' \in {"preprocess", "error"}
          /\ UNCHANGED <<req, pos, group_id, got, insert_nodes, infos, remarks_list,
                         proxies, picked>>
      BY <1>3 DEF Merge, output
    <2> QED
      BY <1>1, <2>1, <2>2
      DEF ConvertInv, TypeOK, Phases, Progress, NamesNoted, UniqueNames
  <1>4. CASE Preprocess
    <2>1. PICK order \in Orders :
             nodes' = [k \in DOMAIN order |-> add_emoji(node_rename(nodes[order[k]]))]
      BY <1>4 DEF Preprocess
    <2>2. order \in Seq(DOMAIN nodes)
      BY <1>1, OrdersTyped
    <2>3. ASSUME NEW k \in DOMAIN order
          PROVE  add_emoji(node_rename(nodes[order[k]])) \in NodeRows
      <3>1. order[k] \in DOMAIN nodes
        BY <2>2
      <3>2. nodes[order[k]] \in NodeRows
        BY <1>2, <3>1
      <3> QED
        BY <1>1, <3>2, PreprocessedTyped
    <2>4. nodes' \in Seq(NodeRows)
      <3>1. Len(order) \in Nat /\ DOMAIN order = 1 .. Len(order)
        BY <2>2
      <3> HIDE DEF NodeRows
      <3> QED
        BY <2>1, <2>3, <3>1
    <2>5. /\ pc = "preprocess" /\ pc' = "name" /\ pos' = 1
          /\ UNCHANGED <<req, group_id, got, insert_nodes, infos, remarks_list, proxies, picked>>
      BY <1>4 DEF Preprocess, output
    <2>6. remarks_list = <<>>
      BY <1>1, <2>5 DEF Progress
    <2> QED
      BY <1>1, <2>4, <2>5, <2>6
      DEF ConvertInv, TypeOK, Phases, Progress, NamesNoted, UniqueNames
  <1>5. CASE ScriptFails
    BY <1>1, <1>5
    DEF ScriptFails, output, fetched, ConvertInv, TypeOK, Phases, Progress, NamesNoted,
        UniqueNames
  <1> QED
    BY <1>3, <1>4, <1>5

\* A name that is made is new, so it differs from every proxy's, all of which are noted.
LEMMA NameInv ==
  ASSUME ConvertInv, NameNode
  PROVE  ConvertInv'
  <1> DEFINE remark == process_remark(Typed(nodes[pos], req), remarks_list)
  <1>1. TypeOK /\ Progress /\ NamesNoted /\ UniqueNames
    BY DEF ConvertInv
  <1>2. /\ pc = "name" /\ pos \in Nat \ {0} /\ pos <= Len(nodes) /\ pos' = pos + 1
        /\ remarks_list' = Append(remarks_list, remark)
        /\ \/ UNCHANGED <<proxies, picked>>
           \/ proxies' = Append(proxies, remark) /\ picked' = Append(picked, pos)
        /\ UNCHANGED <<pc, req, group_id, got, insert_nodes, nodes, infos>>
    BY <1>1 DEF NameNode, fetched, TypeOK
  <1>3. Typed(nodes[pos], req) \in Remarks
    <2>1. nodes[pos] \in NodeRows
      BY <1>1, <1>2 DEF TypeOK
    <2> QED
      BY <2>1 DEF NodeRows, Remarks, Typed
  <1>4. /\ remarks_list \in Seq(Remarks) /\ proxies \in Seq(Remarks) /\ picked \in Seq(Nat)
        /\ Len(picked) = Len(proxies) /\ Len(proxies) <= Len(remarks_list)
        /\ Len(remarks_list) = pos - 1
    BY <1>1, <1>2 DEF TypeOK
  <1>5. remark \in Remarks /\ \A i \in DOMAIN remarks_list : remarks_list[i] # remark
    BY <1>3, <1>4, FreshRemark
  <1> HIDE DEF remark
  <1>6. /\ remarks_list' \in Seq(Remarks) /\ Len(remarks_list') = Len(remarks_list) + 1
        /\ DOMAIN remarks_list = 1 .. Len(remarks_list) /\ Len(remarks_list) \in Nat
        /\ DOMAIN remarks_list' = 1 .. Len(remarks_list) + 1
        /\ \A i \in 1 .. Len(remarks_list) : remarks_list'[i] = remarks_list[i]
        /\ remarks_list'[Len(remarks_list) + 1] = remark
    BY <1>2, <1>4, <1>5, AppendProperties
  <1>7. ASSUME proxies' = Append(proxies, remark), picked' = Append(picked, pos)
         PROVE  /\ proxies' \in Seq(Remarks) /\ Len(proxies') = Len(proxies) + 1
                /\ DOMAIN proxies = 1 .. Len(proxies) /\ Len(proxies) \in Nat
                /\ DOMAIN proxies' = 1 .. Len(proxies) + 1
                /\ \A i \in 1 .. Len(proxies) : proxies'[i] = proxies[i]
                /\ proxies'[Len(proxies) + 1] = remark
                /\ picked' \in Seq(Nat) /\ Len(picked') = Len(picked) + 1
    BY <1>2, <1>4, <1>5, <1>7, AppendProperties
  <1>8. TypeOK'
    <2>1. /\ proxies' \in Seq(Remarks) /\ picked' \in Seq(Nat)
          /\ Len(picked') = Len(proxies') /\ Len(proxies') <= Len(remarks_list')
          /\ Len(remarks_list') = pos
      BY <1>2, <1>4, <1>6, <1>7
    <2> QED
      BY <1>1, <1>2, <1>6, <2>1 DEF TypeOK
  <1>9. NamesNoted' /\ UniqueNames'
    <2>1. CASE UNCHANGED proxies
      BY <1>1, <1>6, <2>1 DEF NamesNoted, UniqueNames
    <2>2. CASE proxies' = Append(proxies, remark) /\ picked' = Append(picked, pos)
      <3>1. \A i \in DOMAIN proxies : proxies[i] # remark
        BY <1>1, <1>5 DEF NamesNoted
      <3>2. UniqueNames'
        BY <1>1, <1>7, <2>2, <3>1 DEF UniqueNames
      <3>3. NamesNoted'
        <4>1. ASSUME NEW i \in 1 .. Len(proxies)
              PROVE  \E j \in DOMAIN remarks_list' : remarks_list'[j] = proxies'[i]
          <5>1. i \in DOMAIN proxies /\ proxies'[i] = proxies[i]
            BY <1>7, <2>2
          <5>2. PICK j \in DOMAIN remarks_list : remarks_list[j] = proxies[i]
            BY <1>1, <5>1, Zenon DEF NamesNoted
          <5>3. j \in DOMAIN remarks_list' /\ remarks_list'[j] = remarks_list[j]
            BY <1>6, <5>2
          <5> QED
            BY <5>1, <5>2, <5>3, Zenon
        <4>2. \E j \in DOMAIN remarks_list' : remarks_list'[j] = proxies'[Len(proxies) + 1]
          <5>1. /\ Len(remarks_list) + 1 \in DOMAIN remarks_list'
                /\ remarks_list'[Len(remarks_list) + 1] = remark
            BY <1>6
          <5>2. proxies'[Len(proxies) + 1] = remark
            BY <1>7, <2>2
          <5> QED
            BY <5>1, <5>2, Zenon
        <4> QED
          BY <1>7, <2>2, <4>1, <4>2 DEF NamesNoted
      <3> QED
        BY <3>2, <3>3
    <2> QED
      BY <1>2, <2>1, <2>2
  <1>10. Progress'
    BY <1>2 DEF Progress
  <1> QED
    BY <1>8, <1>9, <1>10 DEF ConvertInv

\* Groups do not change the names.
LEMMA GroupInv ==
  ASSUME ConvertInv, BeginGroups \/ AddGroup \/ Finish
  PROVE  ConvertInv'
  <1>1. TypeOK /\ Progress
    BY DEF ConvertInv
  <1>2. pc' \in {"groups", "done"} /\ pos' \in Nat \ {0}
    BY <1>1 DEF TypeOK, BeginGroups, AddGroup, Finish
  <1>3. UNCHANGED <<req, group_id, got, insert_nodes, nodes, infos, remarks_list, proxies,
                    picked>>
    BY DEF BeginGroups, AddGroup, Finish, fetched, output
  <1> QED
    BY <1>1, <1>2, <1>3
    DEF ConvertInv, TypeOK, Phases, Progress, NamesNoted, UniqueNames

-----------------------------------------------------------------------------
(* The theorems about names.                                               *)

\* The invariant holds of every state of a conversion.
LEMMA ConvertInvariant == Spec => []ConvertInv
  <1>1. ConvertInv /\ [Next]_vars => ConvertInv'
    <2> SUFFICES ASSUME ConvertInv, [Next]_vars PROVE ConvertInv'
      OBVIOUS
    <2>1. CASE UNCHANGED vars
      BY <2>1
      DEF vars, ConvertInv, TypeOK, Progress, NamesNoted, UniqueNames
    <2> QED
      BY <2>1, FetchInv, PrepareInv, NameInv, GroupInv DEF Next
  <1> QED
    BY InitInv, <1>1, PTL DEF Spec

\* The lists hold nodes and names, and the loops' counters agree, whatever the urls
\* yield and whichever of them fail.
THEOREM ConvertTypeCorrect == Spec => []TypeOK
  <1>1. ConvertInv => TypeOK
    BY DEF ConvertInv
  <1> QED
    BY ConvertInvariant, <1>1, PTL

\* No two proxies of a configuration have the same name, for any number of nodes and
\* any names: process_remark always finds a free number, and every name is noted.
THEOREM ProxyNamesUnique == Spec => []UniqueNames
  <1>1. ConvertInv => UniqueNames
    BY DEF ConvertInv
  <1> QED
    BY ConvertInvariant, <1>1, PTL

-----------------------------------------------------------------------------
(* Emojis.                                                                 *)

\* A node has the emoji that the rules give the node with it.
LEMMA EmojiOfNode ==
  ASSUME TypeOK, NEW node \in NodeRows
  PROVE  add_emoji(node).name.emoji =
           FirstEmoji({i \in DOMAIN req.emoji :
                         Selects(AsEmojiRule(req.emoji[i].rule), add_emoji(node))})
  <1> DEFINE new      == add_emoji(node)
             matching == {i \in DOMAIN req.emoji :
                            apply_compiled_rule(compile_rule(req.emoji[i].rule), node)}
  <1>1. req \in Requests
    BY DEF TypeOK
  <1>2. new = [node EXCEPT !.name.emoji = FirstEmoji(matching)]
    BY DEF add_emoji
  <1> HIDE DEF new, matching
  <1>3. /\ new.name.emoji = FirstEmoji(matching)
        /\ new.gid = node.gid /\ new.name.base = node.name.base /\ node.gid \in Int
    BY <1>2 DEF NodeRows, Remarks
  <1>4. \A i \in DOMAIN req.emoji :
           /\ apply_compiled_rule(compile_rule(req.emoji[i].rule), node)
                  <=> Selects(AsEmojiRule(req.emoji[i].rule), node)
           /\ Selects(AsEmojiRule(req.emoji[i].rule), node)
                  <=> Selects(AsEmojiRule(req.emoji[i].rule), new)
    <2> TAKE i \in DOMAIN req.emoji
    <2>1. IsRule(req.emoji[i].rule)
      BY <1>1, RequestsAssumption
    <2>2. apply_compiled_rule(compile_rule(req.emoji[i].rule), node)
             <=> Selects(AsEmojiRule(req.emoji[i].rule), node)
      BY <1>3, <2>1, CompiledAgrees
    <2>3. Selects(AsEmojiRule(req.emoji[i].rule), node)
             <=> Selects(AsEmojiRule(req.emoji[i].rule), new)
      BY <1>3, Zenon DEF Selects, apply_matcher, reg_find
    <2> QED
      BY <2>2, <2>3
  <1>5. matching = {i \in DOMAIN req.emoji : Selects(AsEmojiRule(req.emoji[i].rule), new)}
    BY <1>4 DEF matching
  <1> QED
    BY <1>3, <1>5 DEF new

\* Every node of a configuration has the emoji of the first rule that selects it, for any
\* rules: compiling a rule changes what it selects in the two ways of AsEmojiRule and in
\* no other.
THEOREM EmojisFollowRules == Spec => []EmojiByRule
  <1>1. Init => EmojiByRule
    BY DEF Init, EmojiByRule, Preprocessed
  <1>2. EmojiByRule /\ ConvertInv /\ [Next]_vars => EmojiByRule'
    <2> SUFFICES ASSUME EmojiByRule, ConvertInv, [Next]_vars PROVE EmojiByRule'
      OBVIOUS
    <2>1. CASE Preprocess
      <3>1. PICK order \in Orders :
               nodes' = [k \in DOMAIN order |-> add_emoji(node_rename(nodes[order[k]]))]
        BY <2>1 DEF Preprocess
      <3>2. TypeOK /\ order \in Seq(DOMAIN nodes)
        BY OrdersTyped DEF ConvertInv
      <3>3. req' = req /\ DOMAIN nodes' = DOMAIN order
        BY <2>1, <3>1 DEF Preprocess
      <3>4. ASSUME NEW k \in DOMAIN order
            PROVE  nodes'[k].name.emoji =
                     FirstEmoji({i \in DOMAIN req.emoji :
                                   Selects(AsEmojiRule(req.emoji[i].rule), nodes'[k])})
        <4>1. nodes[order[k]] \in NodeRows
          BY <3>2 DEF TypeOK
        <4>2. node_rename(nodes[order[k]]) \in NodeRows
          BY <3>2, <4>1, PreprocessedTyped
        <4>3. nodes'[k] = add_emoji(node_rename(nodes[order[k]]))
          BY <3>1
        <4> QED
          BY <3>2, <4>2, <4>3, EmojiOfNode
      <3> QED
        BY <3>3, <3>4 DEF EmojiByRule, FirstEmoji
    <2>2. CASE UNCHANGED vars
      BY <2>2 DEF vars, EmojiByRule, Preprocessed, FirstEmoji
    <2>3. CASE FetchInsert \/ BeginMain \/ FetchMain \/ Merge \/ ScriptFails
      <3>1. ~Preprocessed'
        BY <2>3 DEF FetchInsert, BeginMain, FetchMain, Merge, ScriptFails, Preprocessed
      <3> QED
        BY <3>1 DEF EmojiByRule
    <2>4. CASE NameNode \/ BeginGroups \/ AddGroup \/ Finish
      <3>1. Preprocessed /\ UNCHANGED <<req, nodes>>
        BY <2>4 DEF NameNode, BeginGroups, AddGroup, Finish, Preprocessed, fetched
      <3> QED
        BY <3>1 DEF EmojiByRule, FirstEmoji
    <2> QED
      BY <2>1, <2>2, <2>3, <2>4 DEF Next
  <1> QED
    BY ConvertInvariant, <1>1, <1>2, PTL DEF Spec

-----------------------------------------------------------------------------
(* Groups.                                                                 *)

\* What a group list is after another group was added to it, or took the place of one.
MergedInto(S, original, group, new) ==
    /\ new \in Seq(S)
    /\ \A i, j \in DOMAIN new : i # j => new[i].name # new[j].name
    /\ \E k \in DOMAIN new : new[k] = group
    /\ \A i \in DOMAIN original :
          /\ i \in DOMAIN new /\ new[i].name = original[i].name
          /\ new[i] = original[i] \/ new[i] = group

\* A group replaces one of its name, at the same place, or comes at the end; names stay
\* different, and no other group changes.
LEMMA MergedGroup ==
  ASSUME NEW S, NEW original \in Seq(S), NEW group \in S,
         \A i, j \in DOMAIN original : i # j => original[i].name # original[j].name,
         NEW new, new = Merged(original, group)
  PROVE  MergedInto(S, original, group, new)
  <1> DEFINE same == {i \in DOMAIN original : original[i].name = group.name}
  <1>1. DOMAIN original = 1 .. Len(original) /\ Len(original) \in Nat
    OBVIOUS
  <1>2. CASE same = {}
    <2>1. new = Append(original, group)
      BY <1>2 DEF Merged
    <2>2. /\ new \in Seq(S) /\ DOMAIN new = 1 .. Len(original) + 1
          /\ \A i \in 1 .. Len(original) : new[i] = original[i]
          /\ new[Len(original) + 1] = group
      BY <1>1, <2>1, AppendProperties
    <2>3. \A i \in 1 .. Len(original) : original[i].name # group.name
      BY <1>1, <1>2
    <2>4. \A i, j \in DOMAIN new : i # j => new[i].name # new[j].name
      BY <1>1, <2>2, <2>3
    <2>5. Len(original) + 1 \in DOMAIN new
      BY <1>1, <2>2
    <2> QED
      BY <1>1, <2>2, <2>4, <2>5 DEF MergedInto
  <1>3. CASE same # {}
    <2>1. Min(same) \in same
      <3>1. same \in SUBSET Nat
        BY <1>1
      <3> QED
        BY <1>3, <3>1, MinOfNats
    <2>2. new = [original EXCEPT ![Min(same)] = group]
      BY <1>3 DEF Merged
    <2>3. PICK m \in DOMAIN original :
             original[m].name = group.name /\ new = [original EXCEPT ![m] = group]
      BY <2>1, <2>2
    <2> HIDE DEF same
    <2>4. /\ new \in Seq(S) /\ DOMAIN new = DOMAIN original /\ new[m] = group
          /\ \A i \in DOMAIN original : i # m => new[i] = original[i]
      BY <1>1, <2>3, ExceptSeq
    <2> QED
      BY <2>3, <2>4 DEF MergedInto
  <1> QED
    BY <1>2, <1>3

\* What is put out for a group has its name, and a member or a provider.
LEMMA GroupUsable ==
  ASSUME NEW group, NEW map
  PROVE  LET out == convert_proxy_group(group, map) IN
         out.name = group.name /\ (out.proxies # <<>> \/ out.provider)
  <1>1. <<DIRECT>> # <<>>
    OBVIOUS
  <1> QED
    BY <1>1, Zenon DEF convert_proxy_group

\* Groups are added one by one and none is lost on the way.
LEMMA GroupsStep ==
  ASSUME ConvertInv, GroupsSoFar, GroupsWhole, Next
  PROVE  GroupsSoFar' /\ GroupsWhole'
  <1>1. req \in Requests /\ pos \in Nat \ {0}
    BY DEF ConvertInv, TypeOK
  <1>2. /\ DOMAIN req.groups = 1 .. Len(req.groups) /\ Len(req.groups) \in Nat
        /\ req.base \in Seq(ToSet(req.base))
        /\ \A i, j \in DOMAIN req.base : i # j => req.base[i].name # req.base[j].name
    <2>1. req.groups \in Seq(ToSet(req.groups))
      BY <1>1, RequestsAssumption
    <2> QED
      BY <1>1, <2>1, RequestsAssumption
  <1>3. CASE BeginGroups
    <2>1. CASE req.nodelist
      BY <1>3, <2>1 DEF BeginGroups, GroupsSoFar, GroupsWhole
    <2>2. CASE ~req.nodelist
      <3>1. groups' = req.base /\ pc' = "groups" /\ req' = req /\ pos' = 1
        BY <1>3, <2>2 DEF BeginGroups
      <3>2. \A i \in DOMAIN req.groups : ~(i < 1)
        BY <1>2
      <3> QED
        BY <1>2, <3>1, <3>2 DEF GroupsSoFar, GroupsWhole
    <2> QED
      BY <2>1, <2>2
  <1>4. CASE AddGroup
    <2> DEFINE group == convert_proxy_group(req.groups[pos], FilteredMap(req.groups, nodes))
               S     == ToSet(groups) \cup {group}
    <2>1. /\ pc = "groups" /\ pc' = "groups" /\ req' = req /\ pos' = pos + 1
          /\ pos <= Len(req.groups) /\ groups' = Merged(groups, group)
      BY <1>4 DEF AddGroup
    <2>2. group.name = req.groups[pos].name /\ (group.proxies # <<>> \/ group.provider)
      BY GroupUsable
    <2>3. /\ groups \in Seq(ToSet(groups))
          /\ \A i, j \in DOMAIN groups : i # j => groups[i].name # groups[j].name
      BY <2>1 DEF GroupsSoFar
    <2> HIDE DEF group
    <2>4. groups \in Seq(S) /\ group \in S
      BY <2>3, SeqMonotonic
    <2>5. /\ groups' \in Seq(S)
          /\ \A i, j \in DOMAIN groups' : i # j => groups'[i].name # groups'[j].name
          /\ \E k \in DOMAIN groups' : groups'[k] = group
          /\ \A i \in DOMAIN groups :
                /\ i \in DOMAIN groups' /\ groups'[i].name = groups[i].name
                /\ groups'[i] = groups[i] \/ groups'[i] = group
      <3> DEFINE new == Merged(groups, group)
      <3>0. new = Merged(groups, group)
        OBVIOUS
      <3> HIDE DEF S, new
      <3>1. MergedInto(S, groups, group, new)
        BY <2>3, <2>4, <3>0, MergedGroup
      <3> QED
        BY <2>1, <3>0, <3>1, Zenon DEF MergedInto
    <2>6. groups' \in Seq(ToSet(groups'))
      BY <2>5 DEF ToSet
    <2>7. ASSUME NEW i \in DOMAIN req.groups, i < pos + 1
          PROVE  \E k \in DOMAIN groups' :
                    /\ groups'[k].name = req.groups[i].name
                    /\ groups'[k].proxies # <<>> \/ groups'[k].provider
      <3>1. CASE i = pos
        <4>1. PICK k \in DOMAIN groups' : groups'[k] = group
          BY <2>5
        <4> QED
          BY <2>2, <3>1, <4>1, Zenon
      <3>2. CASE i < pos
        <4>1. PICK k \in DOMAIN groups :
                 /\ groups[k].name = req.groups[i].name
                 /\ groups[k].proxies # <<>> \/ groups[k].provider
          BY <2>1, <3>2, Zenon DEF GroupsSoFar
        <4> QED
          BY <2>2, <2>5, <4>1, Zenon
      <3> QED
        BY <1>1, <1>2, <2>7, <3>1, <3>2
    <2>8. ASSUME NEW i \in DOMAIN req.base
          PROVE  /\ i \in DOMAIN groups' /\ groups'[i].name = req.base[i].name
                 /\ \/ groups'[i] = req.base[i]
                    \/ \E k \in DOMAIN req.groups : req.groups[k].name = groups'[i].name
      <3>1. /\ i \in DOMAIN groups /\ groups[i].name = req.base[i].name
            /\ \/ groups[i] = req.base[i]
               \/ \E k \in DOMAIN req.groups : req.groups[k].name = groups[i].name
        BY <2>1, Zenon DEF GroupsSoFar
      <3>2. pos \in DOMAIN req.groups
        BY <1>1, <1>2, <2>1
      <3> QED
        BY <2>2, <2>5, <3>1, <3>2, Zenon
    <2> QED
      BY <2>1, <2>5, <2>6, <2>7, <2>8 DEF GroupsSoFar, GroupsWhole
  <1>5. CASE Finish
    <2>1. /\ pc = "groups" /\ pc' = "done" /\ pos > Len(req.groups)
          /\ UNCHANGED <<req, groups>>
      BY <1>5 DEF Finish, output
    <2>2. \A i \in DOMAIN req.groups : i < pos
      BY <1>1, <1>2, <2>1
    <2> QED
      BY <2>1, <2>2 DEF GroupsSoFar, GroupsWhole
  <1>6. CASE FetchInsert \/ BeginMain \/ FetchMain \/ Merge \/ Preprocess \/ ScriptFails
             \/ NameNode
    <2>1. pc' \notin {"groups", "done"}
      BY <1>6 DEF FetchInsert, BeginMain, FetchMain, Merge, Preprocess, ScriptFails, NameNode
    <2> QED
      BY <2>1 DEF GroupsSoFar, GroupsWhole
  <1> QED
    BY <1>3, <1>4, <1>5, <1>6 DEF Next

\* Whatever groups are asked for, also several of one name or one of the base's, all
\* of them are in the configuration, each once, and none is unusable.
THEOREM GroupsComplete == Spec => []GroupsWhole
  <1>1. Init => GroupsSoFar /\ GroupsWhole
    BY DEF Init, GroupsSoFar, GroupsWhole
  <1>2. GroupsSoFar /\ GroupsWhole /\ ConvertInv /\ [Next]_vars => (GroupsSoFar /\ GroupsWhole)'
    <2>1. CASE UNCHANGED vars
      BY <2>1 DEF vars, GroupsSoFar, GroupsWhole
    <2> QED
      BY <2>1, GroupsStep
  <1> QED
    BY ConvertInvariant, <1>1, <1>2, PTL DEF Spec

-----------------------------------------------------------------------------
(* The order of the sources.  What is said of lists of nodes is said of    *)
(* the yields g and the request q they come from, so that it can be said   *)
(* of two states.                                                          *)

\* The nodes of a source that a request keeps.
KeptOf(q, source) ==
    {k \in DOMAIN source.nodes :
        source.kind = "sub" =>
            ~should_ignore(Node(source.nodes[k], 0, <<>>), q.exclude, q.include)}

IdOf(g, q, s) ==
    IF g[s].kind = "null" THEN 0
    ELSE IF s <= q.inserts THEN s - 2 ELSE s - q.inserts - 1

\* A row is a kept node of a source from lo to hi.
Origin(row, g, q, lo, hi) ==
    LET s == row.from[1] IN
    /\ s \in lo .. hi /\ g[s] # Failed
    /\ row.from[2] \in KeptOf(q, g[s])
    /\ row.name = g[s].nodes[row.from[2]].name
    /\ row.gid = IdOf(g, q, s)

Earlier(a, b) == a.from[1] < b.from[1] \/ (a.from[1] = b.from[1] /\ a.from[2] < b.from[2])

\* A list is what sources lo to hi yield, in order.
Collected(list, g, q, lo, hi) ==
    /\ \A k \in DOMAIN list : Origin(list[k], g, q, lo, hi)
    /\ \A j, k \in DOMAIN list : j < k => Earlier(list[j], list[k])
    /\ \A s \in lo .. hi : g[s] # Failed =>
          \A k \in KeptOf(q, g[s]) : \E i \in DOMAIN list : list[i].from = <<s, k>>

CollectedSoFar ==
    /\ pc = "insert" => Collected(insert_nodes, got, req, 1, Len(got))
    /\ pc = "main" => /\ Collected(insert_nodes, got, req, 1, req.inserts)
                      /\ Collected(nodes, got, req, req.inserts + 1, Len(got))

\* Putting a set of positions into increasing order leaves none out.
LEMMA IncreasingOnto ==
  ASSUME NEW n \in Nat, NEW S \in SUBSET (1 .. n), NEW f \in Increasing(S)
  PROVE  \A k \in S : \E i \in DOMAIN f : f[i] = k
  <1> DEFINE D == 1 .. Cardinality(S)
  <1>1. IsFiniteSet(S) /\ Cardinality(S) \in Nat
    <2>1. IsFiniteSet(1 .. n)
      BY FS_Interval
    <2> QED
      BY <2>1, FS_Subset, FS_CardinalityType
  <1>2. Cardinality(D) = Cardinality(S)
    BY <1>1, FS_Interval
  <1>3. f \in [D -> S] /\ \A i, j \in D : i # j => f[i] # f[j]
    BY DEF Increasing, SetToSeqs
  <1>4. f \in Injection(D, S)
    BY <1>3 DEF Injection, IsInjective
  <1>5. f \in Surjection(D, S)
    BY <1>1, <1>2, <1>4, FS_Injection
  <1> QED
    BY <1>3, <1>5 DEF Surjection

\* The rows of a concatenation.
LEMMA Concatenated ==
  ASSUME NEW X \in Seq(NodeRows), NEW Y \in Seq(NodeRows), NEW Z, Z = X \o Y
  PROVE  /\ DOMAIN Z = 1 .. Len(X) + Len(Y)
         /\ \A i \in 1 .. Len(X) + Len(Y) :
               Z[i] = IF i <= Len(X) THEN X[i] ELSE Y[i - Len(X)]
  <1>1. Z \in Seq(NodeRows) /\ Len(Z) = Len(X) + Len(Y)
    BY ConcatProperties
  <1> QED
    BY <1>1, ConcatProperties

\* A further yield changes nothing about what there was.
LEMMA CollectedStays ==
  ASSUME NEW g \in Seq(Sources \cup {Failed}), NEW source \in Sources \cup {Failed},
         NEW q, NEW list, NEW lo \in Nat \ {0}, NEW hi \in Nat, hi <= Len(g),
         Collected(list, g, q, lo, hi)
  PROVE  Collected(list, Append(g, source), q, lo, hi)
  <1>1. \A s \in lo .. hi : Append(g, source)[s] = g[s]
    BY AppendProperties
  <1>2. \A s \in lo .. hi : IdOf(Append(g, source), q, s) = IdOf(g, q, s)
    BY <1>1 DEF IdOf
  <1> QED
    BY <1>1, <1>2 DEF Collected, Origin

\* A yield that failed adds nothing.
LEMMA CollectedFailed ==
  ASSUME NEW g \in Seq(Sources \cup {Failed}), NEW q, NEW list, NEW lo \in Nat \ {0},
         lo <= Len(g) + 1,
         Collected(list, g, q, lo, Len(g))
  PROVE  Collected(list, Append(g, Failed), q, lo, Len(g) + 1)
  <1>1. Len(g) \in Nat
    OBVIOUS
  <1>2. Collected(list, Append(g, Failed), q, lo, Len(g))
    BY <1>1, CollectedStays
  <1>3. Append(g, Failed)[Len(g) + 1] = Failed
    BY AppendProperties
  <1>4. lo .. (Len(g) + 1) = (lo .. Len(g)) \cup {Len(g) + 1}
    BY <1>1
  <1> QED
    BY <1>2, <1>3, <1>4 DEF Collected, Origin

\* The nodes that add_nodes adds for the next url are the ones that were missing.
LEMMA CollectedNext ==
  ASSUME NEW g \in Seq(Sources \cup {Failed}), NEW source \in Sources, NEW q,
         NEW list \in Seq(NodeRows), NEW lo \in Nat \ {0}, lo <= Len(g) + 1,
         Collected(list, g, q, lo, Len(g)),
         NEW f \in Increasing(KeptOf(q, source)),
         NEW id, id = IdOf(Append(g, source), q, Len(g) + 1), NEW result,
         result = list \o Added(source, Len(g) + 1, id, f),
         Added(source, Len(g) + 1, id, f) \in Seq(NodeRows)
  PROVE  Collected(result, Append(g, source), q, lo, Len(g) + 1)
  <1> DEFINE added == Added(source, Len(g) + 1, id, f)
             next == Len(g) + 1
             h == Append(g, source)
             m == Len(list)
  <1>1. /\ next \in Nat /\ m \in Nat /\ Len(f) \in Nat /\ DOMAIN f = 1 .. Len(f)
        /\ f \in Seq(KeptOf(q, source))
        /\ \A k \in KeptOf(q, source) : \E i \in DOMAIN f : f[i] = k
        /\ KeptOf(q, source) \in SUBSET Nat
    <2>1. source.nodes \in Seq([name : Remarks, kind : Kinds])
      BY SourcesAssumption
    <2>2. KeptOf(q, source) \in SUBSET (1 .. Len(source.nodes)) /\ Len(source.nodes) \in Nat
      BY <2>1 DEF KeptOf
    <2>3. f \in Seq(KeptOf(q, source))
      BY <2>2, IncreasingTyped
    <2>4. \A k \in KeptOf(q, source) : \E i \in DOMAIN f : f[i] = k
      BY <2>2, IncreasingOnto
    <2> QED
      BY <2>2, <2>3, <2>4
  <1>2. /\ DOMAIN list = 1 .. m /\ DOMAIN added = 1 .. Len(f) /\ Len(added) = Len(f)
        /\ \A k \in 1 .. Len(f) : /\ added[k].name = source.nodes[f[k]].name
                                  /\ added[k].gid = id
                                  /\ added[k].from = <<next, f[k]>>
    <2>1. DOMAIN list = 1 .. m
      OBVIOUS
    <2>2. DOMAIN added = 1 .. Len(f) /\ added \in Seq(NodeRows)
      BY <1>1 DEF Added
    <2>3. Len(added) = Len(f)
      BY <1>1, <2>2
    <2>4. \A k \in 1 .. Len(f) : added[k] = Node(source.nodes[f[k]], id, <<next, f[k]>>)
      BY <1>1 DEF Added
    <2> HIDE DEF added, m, next
    <2>5. ASSUME NEW k \in 1 .. Len(f)
          PROVE  /\ added[k].name = source.nodes[f[k]].name
                 /\ added[k].gid = id /\ added[k].from = <<next, f[k]>>
      <3> DEFINE n    == source.nodes[f[k]]
                 from == <<next, f[k]>>
      <3>1. added[k] = Node(n, id, from)
        BY <2>4
      <3>2. n = source.nodes[f[k]] /\ from = <<next, f[k]>>
        OBVIOUS
      <3> HIDE DEF n, from
      <3>3. added[k].name = n.name /\ added[k].gid = id /\ added[k].from = from
        BY <3>1 DEF Node
      <3> QED
        BY <3>2, <3>3
    <2> QED
      BY <2>1, <2>2, <2>3, <2>5
  <1>3. /\ DOMAIN result = 1 .. m + Len(f)
        /\ \A i \in 1 .. m : result[i] = list[i]
        /\ \A k \in 1 .. Len(f) : result[m + k] = added[k]
    <2>1. added \in Seq(NodeRows) /\ result = list \o added
      OBVIOUS
    <2> HIDE DEF added
    <2>2. /\ DOMAIN result = 1 .. m + Len(added)
          /\ \A i \in 1 .. m + Len(added) :
                result[i] = IF i <= m THEN list[i] ELSE added[i - m]
      BY <2>1, Concatenated
    <2>3. DOMAIN result = 1 .. m + Len(f) /\ Len(added) = Len(f)
      BY <1>2, <2>2
    <2>4. \A i \in 1 .. m : i \in 1 .. m + Len(f) /\ i <= m
      BY <1>1
    <2>5. \A k \in 1 .. Len(f) : m + k \in 1 .. m + Len(f) /\ ~(m + k <= m) /\ (m + k) - m = k
      BY <1>1
    <2> HIDE DEF m
    <2> QED
      BY <2>2, <2>3, <2>4, <2>5
  <1>4. \A i \in DOMAIN result : i \in 1 .. m \/ \E k \in 1 .. Len(f) : i = m + k
    <2> SUFFICES ASSUME NEW i \in DOMAIN result, i \notin 1 .. m
                 PROVE  \E k \in 1 .. Len(f) : i = m + k
      OBVIOUS
    <2>1. i - m \in 1 .. Len(f) /\ i = m + (i - m)
      BY <1>1, <1>3
    <2> QED
      BY <2>1
  <1>5. h[next] = source /\ source # Failed
    BY AppendProperties, SourcesAssumption
  <1>6. Collected(list, h, q, lo, Len(g))
    <2>1. Len(g) \in Nat /\ source \in Sources \cup {Failed}
      BY <1>1
    <2> QED
      BY <2>1, CollectedStays
  <1> HIDE DEF added, h, m, next
  <1>7. Len(g) \in Nat /\ next = Len(g) + 1
    BY DEF next
  <1>8. ASSUME NEW k \in 1 .. Len(f)
         PROVE  /\ result[m + k].from[1] = next /\ result[m + k].from[2] = f[k]
                /\ result[m + k].from = <<next, f[k]>>
                /\ result[m + k].name = source.nodes[f[k]].name
                /\ result[m + k].gid = IdOf(h, q, next)
    <2>1. result[m + k] = added[k]
      BY <1>3
    <2>2. id = IdOf(h, q, next)
      BY DEF h, next
    <2>3. /\ added[k].from = <<next, f[k]>> /\ added[k].gid = id
          /\ added[k].name = source.nodes[f[k]].name
      BY <1>2
    <2>4. <<next, f[k]>>[1] = next /\ <<next, f[k]>>[2] = f[k]
      OBVIOUS
    <2> QED
      BY <2>1, <2>2, <2>3, <2>4, Zenon
  <1>9. \A k \in 1 .. m : Origin(result[k], h, q, lo, Len(g))
    BY <1>2, <1>3, <1>6 DEF Collected
  <1>10. \A k \in 1 .. Len(f) : Origin(result[m + k], h, q, next, next)
    <2> SUFFICES ASSUME NEW k \in 1 .. Len(f)
                 PROVE  Origin(result[m + k], h, q, next, next)
      OBVIOUS
    <2>1. f[k] \in KeptOf(q, source)
      BY <1>1
    <2>2. next \in next .. next
      BY <1>1
    <2>3. /\ result[m + k].from[1] = next /\ result[m + k].from[2] = f[k]
          /\ result[m + k].name = source.nodes[f[k]].name
          /\ result[m + k].gid = IdOf(h, q, next)
      BY <1>8
    <2> QED
      BY <1>5, <2>1, <2>2, <2>3, Zenon DEF Origin
  <1>11. \A i \in DOMAIN result : Origin(result[i], h, q, lo, next)
    <2>1. lo .. Len(g) \subseteq lo .. next /\ next .. next \subseteq lo .. next
      BY <1>7
    <2>2. \A row : Origin(row, h, q, lo, Len(g)) => Origin(row, h, q, lo, next)
      BY <2>1, Zenon DEF Origin
    <2>3. \A row : Origin(row, h, q, next, next) => Origin(row, h, q, lo, next)
      BY <2>1, Zenon DEF Origin
    <2> QED
      BY <1>4, <1>9, <1>10, <2>2, <2>3
  <1>12. ASSUME NEW i \in DOMAIN result, NEW j \in DOMAIN result, i < j
         PROVE  Earlier(result[i], result[j])
    <2>1. CASE i \in 1 .. m /\ j \in 1 .. m
      BY <1>2, <1>3, <1>6, <1>12, <2>1 DEF Collected
    <2>2. CASE i \in 1 .. m /\ j \notin 1 .. m
      <3>1. result[i].from[1] \in lo .. Len(g)
        BY <1>9, <2>2 DEF Origin
      <3>2. result[j].from[1] = next
        <4>1. PICK k \in 1 .. Len(f) : j = m + k
          BY <1>4, <2>2
        <4> QED
          BY <1>8, <4>1
      <3>3. result[i].from[1] < next
        BY <1>7, <3>1
      <3> QED
        BY <3>2, <3>3 DEF Earlier
    <2>3. CASE i \notin 1 .. m
      <3>1. PICK k \in 1 .. Len(f) : i = m + k
        BY <1>4, <2>3
      <3>2. PICK l \in 1 .. Len(f) : j = m + l
        <4>1. j \notin 1 .. m
          BY <1>1, <1>12, <3>1
        <4> QED
          BY <1>4, <4>1
      <3>3. f[k] < f[l]
        <4>1. k < l
          BY <1>1, <1>12, <3>1, <3>2
        <4> QED
          BY <1>1, <4>1 DEF Increasing
      <3> QED
        BY <1>8, <3>1, <3>2, <3>3 DEF Earlier
    <2> QED
      BY <2>1, <2>2, <2>3
  <1>13. ASSUME NEW s \in lo .. next, h[s] # Failed, NEW k \in KeptOf(q, h[s])
         PROVE  \E i \in DOMAIN result : result[i].from = <<s, k>>
    <2>1. CASE s = next
      <3>1. PICK i \in 1 .. Len(f) : f[i] = k
        BY <1>1, <1>5, <1>13, <2>1
      <3>2. m + i \in DOMAIN result
        BY <1>1, <1>3
      <3>3. result[m + i].from = <<s, k>>
        BY <1>8, <2>1, <3>1
      <3> QED
        BY <3>2, <3>3
    <2>2. CASE s # next
      <3>1. s \in lo .. Len(g)
        BY <1>7, <2>2
      <3>2. PICK i \in DOMAIN list : list[i].from = <<s, k>>
        BY <1>6, <1>13, <3>1 DEF Collected
      <3> QED
        <4>1. i \in 1 .. m /\ i \in 1 .. m + Len(f)
          BY <1>1, <1>2
        <4> QED
          BY <1>3, <3>2, <4>1
    <2> QED
      BY <2>1, <2>2
  <1> QED
    BY <1>11, <1>12, <1>13 DEF Collected, h, next

\* Two rows of a concatenation are two of the first list, two of the second, or one of
\* each in this order.
Joins(X, Y, Z) ==
    /\ \A a \in DOMAIN X : \E k \in DOMAIN Z : Z[k] = X[a]
    /\ \A b \in DOMAIN Y : \E k \in DOMAIN Z : Z[k] = Y[b]
    /\ \A k \in DOMAIN Z : \/ \E a \in DOMAIN X : Z[k] = X[a]
                           \/ \E b \in DOMAIN Y : Z[k] = Y[b]
    /\ \A j, k \in DOMAIN Z : j < k =>
          \/ \E a, b \in DOMAIN X : a < b /\ Z[j] = X[a] /\ Z[k] = X[b]
          \/ \E a, b \in DOMAIN Y : a < b /\ Z[j] = Y[a] /\ Z[k] = Y[b]
          \/ \E a \in DOMAIN X, b \in DOMAIN Y : Z[j] = X[a] /\ Z[k] = Y[b]

LEMMA Joined ==
  ASSUME NEW X \in Seq(NodeRows), NEW Y \in Seq(NodeRows), NEW Z, Z = X \o Y
  PROVE  Joins(X, Y, Z)
  <1> DEFINE m == Len(X)  n == Len(Y)
  <1>1. m \in Nat /\ n \in Nat /\ DOMAIN X = 1 .. m /\ DOMAIN Y = 1 .. n
    OBVIOUS
  <1>2. /\ DOMAIN Z = 1 .. m + n
        /\ \A i \in 1 .. m + n : Z[i] = IF i <= m THEN X[i] ELSE Y[i - m]
    BY Concatenated
  <1> HIDE DEF m, n
  <1>3. \A a \in DOMAIN X : a \in DOMAIN Z /\ Z[a] = X[a]
    BY <1>1, <1>2
  <1>4. ASSUME NEW b \in DOMAIN Y PROVE b + m \in DOMAIN Z /\ Z[b + m] = Y[b]
    <2>1. b + m \in 1 .. m + n /\ ~(b + m <= m) /\ (b + m) - m = b
      BY <1>1
    <2> QED
      BY <1>2, <2>1
  <1>5. ASSUME NEW k \in DOMAIN Z
        PROVE  \/ k \in DOMAIN X /\ Z[k] = X[k]
               \/ k > m /\ k - m \in DOMAIN Y /\ Z[k] = Y[k - m]
    BY <1>1, <1>2
  <1>6. ASSUME NEW j \in DOMAIN Z, NEW k \in DOMAIN Z, j < k
        PROVE  \/ \E a, b \in DOMAIN X : a < b /\ Z[j] = X[a] /\ Z[k] = X[b]
               \/ \E a, b \in DOMAIN Y : a < b /\ Z[j] = Y[a] /\ Z[k] = Y[b]
               \/ \E a \in DOMAIN X, b \in DOMAIN Y : Z[j] = X[a] /\ Z[k] = Y[b]
    <2>1. CASE j > m
      <3>1. k > m /\ ~(j \in DOMAIN X) /\ ~(k \in DOMAIN X) /\ j - m < k - m
        BY <1>1, <1>2, <1>6, <2>1
      <3> QED
        BY <1>5, <3>1
    <2>2. CASE ~(j > m)
      BY <1>5, <1>6, <2>2
    <2> QED
      BY <2>1, <2>2
  <1> QED
    BY <1>3, <1>4, <1>5, <1>6 DEF Joins

AllInOrder(list, g, q, n, front) ==
    /\ \A k \in DOMAIN list : Origin(list[k], g, q, 1, Len(g))
    /\ \A j, k \in DOMAIN list : j < k =>
          IF (list[j].from[1] <= n) # (list[k].from[1] <= n)
          THEN (list[j].from[1] <= n) = front
          ELSE Earlier(list[j], list[k])
    /\ \A s \in DOMAIN g : g[s] # Failed =>
          \A k \in KeptOf(q, g[s]) : \E i \in DOMAIN list : list[i].from = <<s, k>>

\* The nodes of the insert urls and those of the urls make a list of all in order.
LEMMA MergedInOrder ==
  ASSUME NEW A \in Seq(NodeRows), NEW B \in Seq(NodeRows), NEW q, NEW n \in Nat,
         NEW g \in Seq(Sources \cup {Failed}), n <= Len(g),
         Collected(A, g, q, 1, n), Collected(B, g, q, n + 1, Len(g)),
         NEW front \in BOOLEAN, NEW list, list = IF front THEN A \o B ELSE B \o A
  PROVE  AllInOrder(list, g, q, n, front)
  <1>1. Len(g) \in Nat /\ DOMAIN g = 1 .. Len(g)
    OBVIOUS
  <1>2. \A a \in DOMAIN A : A[a].from[1] <= n
    BY <1>1 DEF Collected, Origin
  <1>3. \A b \in DOMAIN B : ~(B[b].from[1] <= n)
    BY <1>1 DEF Collected, Origin
  <1>4. /\ \A a \in DOMAIN A : Origin(A[a], g, q, 1, Len(g))
        /\ \A b \in DOMAIN B : Origin(B[b], g, q, 1, Len(g))
    <2>1. 1 .. n \subseteq 1 .. Len(g) /\ (n + 1) .. Len(g) \subseteq 1 .. Len(g)
      BY <1>1
    <2>2. \A row : Origin(row, g, q, 1, n) => Origin(row, g, q, 1, Len(g))
      BY <2>1, Zenon DEF Origin
    <2>3. \A row : Origin(row, g, q, n + 1, Len(g)) => Origin(row, g, q, 1, Len(g))
      BY <2>1, Zenon DEF Origin
    <2> QED
      BY <2>2, <2>3 DEF Collected
  <1>5. /\ \A i, j \in DOMAIN A : i < j => Earlier(A[i], A[j])
        /\ \A i, j \in DOMAIN B : i < j => Earlier(B[i], B[j])
    BY DEF Collected
  <1>6. \A s \in DOMAIN g : g[s] # Failed => \A k \in KeptOf(q, g[s]) :
           \/ \E i \in DOMAIN A : A[i].from = <<s, k>>
           \/ \E i \in DOMAIN B : B[i].from = <<s, k>>
    <2>1. \A s \in DOMAIN g : s \in 1 .. n \/ s \in (n + 1) .. Len(g)
      BY <1>1
    <2> QED
      BY <2>1 DEF Collected
  <1>7. CASE front
    <2>1. list = A \o B
      BY <1>7
    <2>2. Joins(A, B, list)
      BY <2>1, Joined
    <2>3. ASSUME NEW j \in DOMAIN list, NEW k \in DOMAIN list, j < k
          PROVE  \/ \E a, b \in DOMAIN A : a < b /\ list[j] = A[a] /\ list[k] = A[b]
                 \/ \E a, b \in DOMAIN B : a < b /\ list[j] = B[a] /\ list[k] = B[b]
                 \/ \E a \in DOMAIN A, b \in DOMAIN B : list[j] = A[a] /\ list[k] = B[b]
      BY <2>2, <2>3 DEF Joins
    <2>4. \A k \in DOMAIN list : Origin(list[k], g, q, 1, Len(g))
      BY <1>4, <2>2 DEF Joins
    <2>5. ASSUME NEW s \in DOMAIN g, g[s] # Failed, NEW k \in KeptOf(q, g[s])
          PROVE  \E i \in DOMAIN list : list[i].from = <<s, k>>
      <3>1. ASSUME NEW i \in DOMAIN A, A[i].from = <<s, k>>
            PROVE  \E l \in DOMAIN list : list[l].from = <<s, k>>
        <4>1. PICK l \in DOMAIN list : list[l] = A[i]
          BY <2>2 DEF Joins
        <4>2. list[l].from = <<s, k>>
          BY <3>1, <4>1
        <4> QED
          BY <4>2, Zenon
      <3>2. ASSUME NEW i \in DOMAIN B, B[i].from = <<s, k>>
            PROVE  \E l \in DOMAIN list : list[l].from = <<s, k>>
        <4>1. PICK l \in DOMAIN list : list[l] = B[i]
          BY <2>2 DEF Joins
        <4>2. list[l].from = <<s, k>>
          BY <3>2, <4>1
        <4> QED
          BY <4>2, Zenon
      <3> QED
        BY <1>6, <2>5, <3>1, <3>2
    <2>6. ASSUME NEW j \in DOMAIN list, NEW k \in DOMAIN list, j < k
          PROVE  IF (list[j].from[1] <= n) # (list[k].from[1] <= n)
                 THEN (list[j].from[1] <= n) = front
                 ELSE Earlier(list[j], list[k])
      <3> DEFINE in(row) == row.from[1] <= n
      <3>1. /\ \A a \in DOMAIN A : in(A[a]) = TRUE
            /\ \A b \in DOMAIN B : in(B[b]) = FALSE
        BY <1>2, <1>3
      <3> HIDE DEF in
      <3>2. \/ in(list[j]) = in(list[k]) /\ Earlier(list[j], list[k])
            \/ in(list[j]) = TRUE /\ in(list[k]) = FALSE
        <4>1. CASE \E a, b \in DOMAIN A : a < b /\ list[j] = A[a] /\ list[k] = A[b]
          BY <1>5, <3>1, <4>1
        <4>2. CASE \E a, b \in DOMAIN B : a < b /\ list[j] = B[a] /\ list[k] = B[b]
          BY <1>5, <3>1, <4>2
        <4>3. CASE \E a \in DOMAIN A, b \in DOMAIN B : list[j] = A[a] /\ list[k] = B[b]
          BY <3>1, <4>3
        <4> QED
          BY <2>3, <2>6, <4>1, <4>2, <4>3
      <3>3. IF in(list[j]) # in(list[k]) THEN in(list[j]) = front ELSE Earlier(list[j], list[k])
        BY <1>7, <3>2
      <3> QED
        BY <3>3 DEF in
    <2> QED
      BY <2>4, <2>5, <2>6 DEF AllInOrder
  <1>8. CASE ~front
    <2>1. list = B \o A
      BY <1>8
    <2>2. Joins(B, A, list)
      BY <2>1, Joined
    <2>3. ASSUME NEW j \in DOMAIN list, NEW k \in DOMAIN list, j < k
          PROVE  \/ \E a, b \in DOMAIN B : a < b /\ list[j] = B[a] /\ list[k] = B[b]
                 \/ \E a, b \in DOMAIN A : a < b /\ list[j] = A[a] /\ list[k] = A[b]
                 \/ \E a \in DOMAIN B, b \in DOMAIN A : list[j] = B[a] /\ list[k] = A[b]
      BY <2>2, <2>3 DEF Joins
    <2>4. \A k \in DOMAIN list : Origin(list[k], g, q, 1, Len(g))
      BY <1>4, <2>2 DEF Joins
    <2>5. ASSUME NEW s \in DOMAIN g, g[s] # Failed, NEW k \in KeptOf(q, g[s])
          PROVE  \E i \in DOMAIN list : list[i].from = <<s, k>>
      <3>1. ASSUME NEW i \in DOMAIN A, A[i].from = <<s, k>>
            PROVE  \E l \in DOMAIN list : list[l].from = <<s, k>>
        <4>1. PICK l \in DOMAIN list : list[l] = A[i]
          BY <2>2 DEF Joins
        <4>2. list[l].from = <<s, k>>
          BY <3>1, <4>1
        <4> QED
          BY <4>2, Zenon
      <3>2. ASSUME NEW i \in DOMAIN B, B[i].from = <<s, k>>
            PROVE  \E l \in DOMAIN list : list[l].from = <<s, k>>
        <4>1. PICK l \in DOMAIN list : list[l] = B[i]
          BY <2>2 DEF Joins
        <4>2. list[l].from = <<s, k>>
          BY <3>2, <4>1
        <4> QED
          BY <4>2, Zenon
      <3> QED
        BY <1>6, <2>5, <3>1, <3>2
    <2>6. ASSUME NEW j \in DOMAIN list, NEW k \in DOMAIN list, j < k
          PROVE  IF (list[j].from[1] <= n) # (list[k].from[1] <= n)
                 THEN (list[j].from[1] <= n) = front
                 ELSE Earlier(list[j], list[k])
      <3> DEFINE in(row) == row.from[1] <= n
      <3>1. /\ \A a \in DOMAIN A : in(A[a]) = TRUE
            /\ \A b \in DOMAIN B : in(B[b]) = FALSE
        BY <1>2, <1>3
      <3> HIDE DEF in
      <3>2. \/ in(list[j]) = in(list[k]) /\ Earlier(list[j], list[k])
            \/ in(list[j]) = FALSE /\ in(list[k]) = TRUE
        <4>1. CASE \E a, b \in DOMAIN B : a < b /\ list[j] = B[a] /\ list[k] = B[b]
          BY <1>5, <3>1, <4>1
        <4>2. CASE \E a, b \in DOMAIN A : a < b /\ list[j] = A[a] /\ list[k] = A[b]
          BY <1>5, <3>1, <4>2
        <4>3. CASE \E a \in DOMAIN B, b \in DOMAIN A : list[j] = B[a] /\ list[k] = A[b]
          BY <3>1, <4>3
        <4> QED
          BY <2>3, <2>6, <4>1, <4>2, <4>3
      <3>3. IF in(list[j]) # in(list[k]) THEN in(list[j]) = front ELSE Earlier(list[j], list[k])
        BY <1>8, <3>2
      <3> QED
        BY <3>3 DEF in
    <2> QED
      BY <2>4, <2>5, <2>6 DEF AllInOrder
  <1> QED
    BY <1>7, <1>8

\* A yield that is fetched is collected, in its phase.
LEMMA CollectYield ==
  ASSUME TypeOK, NEW source \in Sources \cup {Failed}, NEW list \in Seq(NodeRows),
         NEW lo \in Nat \ {0}, lo <= Len(got) + 1,
         Collected(list, got, req, lo, Len(got)), NEW result,
         source = Failed => result = list,
         source # Failed => add_nodes(list, source, Len(got) + 1, result),
         group_id = IF Len(got) + 1 <= req.inserts THEN Len(got) - 1
                                                   ELSE Len(got) - req.inserts
  PROVE  Collected(result, Append(got, source), req, lo, Len(got) + 1)
  <1>1. got \in Seq(Sources \cup {Failed}) /\ Len(got) \in Nat /\ req \in Requests
    BY DEF TypeOK
  <1>2. CASE source = Failed
    BY <1>1, <1>2, CollectedFailed
  <1>3. CASE source # Failed
    <2>1. source \in Sources
      BY <1>3
    <2>2. PICK f \in Increasing(Kept(source)) :
             /\ Added(source, Len(got) + 1, IdNow(source), f) \in Seq(NodeRows)
             /\ result = list \o Added(source, Len(got) + 1, IdNow(source), f)
      <3>1. add_nodes(list, source, Len(got) + 1, result) /\ Len(got) + 1 \in Nat
        BY <1>1, <1>3
      <3>2. Lengthened(list, source, Len(got) + 1, result)
        BY <2>1, <3>1, AddNodesTyped
      <3> QED
        BY <3>2 DEF Lengthened
    <2>3. Kept(source) = KeptOf(req, source)
      BY DEF Kept, KeptOf
    <2>4. IdNow(source) = IdOf(Append(got, source), req, Len(got) + 1)
      <3>1. Append(got, source)[Len(got) + 1] = source
        BY <1>1, AppendProperties
      <3>2. req.inserts \in Nat
        BY <1>1, RequestsAssumption
      <3>3. group_id = IF Len(got) + 1 <= req.inserts THEN (Len(got) + 1) - 2
                                                      ELSE (Len(got) + 1) - req.inserts - 1
        BY <1>1, <3>2
      <3> QED
        BY <3>1, <3>3, Zenon DEF IdOf, IdNow
    <2> QED
      BY <1>1, <2>1, <2>2, <2>3, <2>4, CollectedNext
  <1> QED
    BY <1>2, <1>3

\* Each url's yield is collected while it is fetched, and merging makes one list.
LEMMA CollectStep ==
  ASSUME ConvertInv, CollectedSoFar, Next
  PROVE  (CollectedSoFar /\ SourcesInOrder)'
  <1>1. TypeOK /\ Progress
    BY DEF ConvertInv
  <1>2. /\ req \in Requests /\ req.inserts \in Nat /\ req.mains \in Nat
        /\ req.prepend_insert \in BOOLEAN
    BY <1>1, RequestsAssumption DEF TypeOK
  <1>3. /\ Len(got) \in Nat /\ got \in Seq(Sources \cup {Failed}) /\ pos \in Nat \ {0}
        /\ nodes \in Seq(NodeRows) /\ insert_nodes \in Seq(NodeRows)
    BY <1>1 DEF TypeOK
  <1>4. CASE FetchInsert
    <2>1. PICK source \in Sources \cup {Failed} :
             /\ got' = Append(got, source)
             /\ IF source = Failed
                THEN /\ pc' = IF req.skip_failed_links THEN pc ELSE "error"
                     /\ UNCHANGED insert_nodes
                ELSE /\ add_nodes(insert_nodes, source, Len(got) + 1, insert_nodes')
                     /\ UNCHANGED pc
      BY <1>4 DEF FetchInsert
    <2>2. pc = "insert" /\ pos <= req.inserts /\ req' = req /\ pc' \in {"insert", "error"}
      BY <1>4, <2>1 DEF FetchInsert
    <2>3. /\ group_id = pos - 2 /\ Len(got) = pos - 1
          /\ Collected(insert_nodes, got, req, 1, Len(got))
      BY <1>1, <2>2 DEF TypeOK, CollectedSoFar
    <2>4. group_id = IF Len(got) + 1 <= req.inserts THEN Len(got) - 1
                                                    ELSE Len(got) - req.inserts
      BY <1>2, <1>3, <2>2, <2>3
    <2>5. /\ source = Failed => insert_nodes' = insert_nodes
          /\ source # Failed => add_nodes(insert_nodes, source, Len(got) + 1, insert_nodes')
      BY <2>1
    <2>6. 1 <= Len(got) + 1
      BY <1>3
    <2>7. Collected(insert_nodes', Append(got, source), req, 1, Len(got) + 1)
      BY <1>1, <1>3, <2>3, <2>4, <2>5, <2>6, CollectYield
    <2>8. Len(got') = Len(got) + 1
      BY <1>3, <2>1
    <2>9. Collected(insert_nodes', got', req', 1, Len(got'))
      BY <2>1, <2>2, <2>7, <2>8
    <2> QED
      BY <2>2, <2>9 DEF CollectedSoFar, SourcesInOrder, Collected, Origin, KeptOf, IdOf
  <1>5. CASE BeginMain
    <2>1. /\ pc = "insert" /\ pos > req.inserts /\ pc' = "main"
          /\ UNCHANGED <<req, got, insert_nodes, nodes>>
      BY <1>5 DEF BeginMain, fetched
    <2>2. /\ Len(got) = req.inserts /\ nodes = <<>>
          /\ Collected(insert_nodes, got, req, 1, Len(got))
      BY <1>1, <1>2, <1>3, <2>1 DEF TypeOK, Progress, CollectedSoFar
    <2>3. Collected(nodes, got, req, req.inserts + 1, Len(got))
      BY <1>2, <2>2 DEF Collected
    <2>4. /\ Collected(insert_nodes', got', req', 1, req'.inserts)
          /\ Collected(nodes', got', req', req'.inserts + 1, Len(got'))
      BY <2>1, <2>2, <2>3
    <2> QED
      BY <2>1, <2>4 DEF CollectedSoFar, SourcesInOrder
  <1>6. CASE FetchMain
    <2>1. PICK source \in Sources \cup {Failed} :
             /\ got' = Append(got, source)
             /\ IF source = Failed
                THEN /\ pc' = IF req.skip_failed_links THEN pc ELSE "error"
                     /\ UNCHANGED <<nodes, infos>>
                ELSE /\ add_nodes(nodes, source, Len(got) + 1, nodes')
                     /\ infos' = Append(infos, source.info)
                     /\ UNCHANGED pc
      BY <1>6 DEF FetchMain
    <2>2. /\ pc = "main" /\ req' = req /\ insert_nodes' = insert_nodes
          /\ pc' \in {"main", "error"}
      BY <1>6, <2>1 DEF FetchMain
    <2>3. /\ group_id = pos - 1 /\ Len(got) = req.inserts + pos - 1
          /\ Collected(insert_nodes, got, req, 1, req.inserts)
          /\ Collected(nodes, got, req, req.inserts + 1, Len(got))
      BY <1>1, <2>2 DEF TypeOK, CollectedSoFar
    <2>4. group_id = IF Len(got) + 1 <= req.inserts THEN Len(got) - 1
                                                    ELSE Len(got) - req.inserts
      BY <1>2, <1>3, <2>3
    <2>5. /\ source = Failed => nodes' = nodes
          /\ source # Failed => add_nodes(nodes, source, Len(got) + 1, nodes')
      BY <2>1
    <2>6. /\ req.inserts + 1 <= Len(got) + 1 /\ req.inserts + 1 \in Nat \ {0}
          /\ req.inserts <= Len(got)
      BY <1>2, <1>3, <2>3
    <2>7. Collected(nodes', Append(got, source), req, req.inserts + 1, Len(got) + 1)
      BY <1>1, <1>3, <2>3, <2>4, <2>5, <2>6, CollectYield
    <2>8. Collected(insert_nodes, Append(got, source), req, 1, req.inserts)
      BY <1>2, <1>3, <2>3, <2>6, CollectedStays
    <2>9. Len(got') = Len(got) + 1
      BY <1>3, <2>1
    <2>10. /\ Collected(insert_nodes', got', req', 1, req'.inserts)
           /\ Collected(nodes', got', req', req'.inserts + 1, Len(got'))
      BY <2>1, <2>2, <2>7, <2>8, <2>9
    <2> QED
      BY <2>2, <2>10 DEF CollectedSoFar, SourcesInOrder
  <1>7. CASE Merge
    <2>1. /\ pc = "main" /\ pos > req.mains /\ UNCHANGED <<req, got>>
          /\ pc' \in {"error", "preprocess"}
          /\ pc' = "preprocess" =>
                nodes' = IF req.prepend_insert THEN insert_nodes \o nodes
                                               ELSE nodes \o insert_nodes
      BY <1>7 DEF Merge
    <2>2. /\ Len(got) = req.inserts + pos - 1
          /\ Collected(insert_nodes, got, req, 1, req.inserts)
          /\ Collected(nodes, got, req, req.inserts + 1, Len(got))
      BY <1>1, <2>1 DEF TypeOK, CollectedSoFar
    <2>3. req.inserts <= Len(got)
      BY <1>2, <1>3, <2>2
    <2>4. ASSUME pc' = "preprocess" PROVE SourcesInOrder'
      <3>1. nodes' = IF req.prepend_insert THEN insert_nodes \o nodes
                                           ELSE nodes \o insert_nodes
        BY <2>1, <2>4
      <3>2. AllInOrder(nodes', got, req, req.inserts, req.prepend_insert)
        BY <1>2, <1>3, <2>2, <2>3, <3>1, MergedInOrder
      <3>3. \A k \in DOMAIN nodes' :
               /\ got[nodes'[k].from[1]] # Failed
               /\ nodes'[k].name = got[nodes'[k].from[1]].nodes[nodes'[k].from[2]].name
               /\ nodes'[k].gid = IdOf(got, req, nodes'[k].from[1])
        BY <3>2 DEF AllInOrder, Origin
      <3>4. ASSUME NEW s \in DOMAIN got, got[s] # Failed, NEW k \in DOMAIN got[s].nodes
            PROVE  \/ \E i \in DOMAIN nodes' : nodes'[i].from = <<s, k>>
                   \/ /\ got[s].kind = "sub"
                      /\ should_ignore(Node(got[s].nodes[k], 0, <<>>),
                                       req.exclude, req.include)
        <4>1. CASE k \in KeptOf(req, got[s])
          BY <3>2, <3>4, <4>1 DEF AllInOrder
        <4>2. CASE k \notin KeptOf(req, got[s])
          BY <3>4, <4>2 DEF KeptOf
        <4> QED
          BY <4>1, <4>2
      <3> QED
        BY <2>1, <3>2, <3>3, <3>4
        DEF AllInOrder, SourcesInOrder, GroupOf, IdOf, Before, Inserted, Earlier
    <2> QED
      BY <2>1, <2>4 DEF CollectedSoFar, SourcesInOrder
  <1>8. CASE Preprocess \/ ScriptFails \/ NameNode \/ BeginGroups \/ AddGroup \/ Finish
    <2>1. pc' \notin {"insert", "main", "preprocess"}
      BY <1>8 DEF Preprocess, ScriptFails, NameNode, BeginGroups, AddGroup, Finish
    <2> QED
      BY <2>1 DEF CollectedSoFar, SourcesInOrder
  <1> QED
    BY <1>4, <1>5, <1>6, <1>7, <1>8 DEF Next

\* However many urls there are, whatever they yield and whichever of them fail, the
\* merged list has every node that is kept, in the order of the urls, with its name
\* and the group of its url.
THEOREM SourcesKeepTheirOrder == Spec => []SourcesInOrder
  <1>1. Init => CollectedSoFar /\ SourcesInOrder
    BY DEF Init, CollectedSoFar, SourcesInOrder, Collected
  <1>2. CollectedSoFar /\ SourcesInOrder /\ ConvertInv /\ [Next]_vars
           => (CollectedSoFar /\ SourcesInOrder)'
    <2> SUFFICES ASSUME CollectedSoFar, SourcesInOrder, ConvertInv, [Next]_vars
                 PROVE  (CollectedSoFar /\ SourcesInOrder)'
      OBVIOUS
    <2>1. CASE UNCHANGED vars
      <3>1. UNCHANGED <<pc, req, got, nodes, insert_nodes>>
        BY <2>1 DEF vars
      <3>2. CollectedSoFar'
        BY <3>1 DEF CollectedSoFar
      <3>3. SourcesInOrder' <=> SourcesInOrder
        <4>1. \A s : GroupOf(s)' = GroupOf(s)
          BY <3>1 DEF GroupOf
        <4>2. \A a, b : Before(a, b)' <=> Before(a, b)
          BY <3>1 DEF Before, Inserted
        <4> QED
          BY <3>1, <4>1, <4>2, Zenon DEF SourcesInOrder
      <3> QED
        BY <3>2, <3>3
    <2> QED
      BY <2>1, CollectStep
  <1> QED
    BY ConvertInvariant, <1>1, <1>2, PTL DEF Spec
-----------------------------------------------------------------------------
(* User info.                                                              *)

\* f holds what a loop has after each of its n steps.
Runs(f, V, first, n, step) ==
  /\ f \in [0 .. n -> V] /\ f[0] = first
  /\ \A k \in 1 .. n : f[k] = step[k][f[k - 1]]

\* A loop that makes n steps has a value after each of them: what the equation of a
\* recursive function needs to have a solution.
LEMMA Iterated ==
  ASSUME NEW V, NEW first \in V, NEW n \in Nat, NEW step \in [1 .. n -> [V -> V]]
  PROVE  \E f : Runs(f, V, first, n, step)
  <1> DEFINE stuck == {m \in 0 .. n : ~\E f : Runs(f, V, first, m, step)}
  <1>1. SUFFICES stuck = {}
    OBVIOUS
  <1>2. SUFFICES ASSUME stuck # {} PROVE FALSE
    OBVIOUS
  <1> DEFINE m == Min(stuck)
  <1>3. m \in stuck /\ \A k \in stuck : m <= k
    <2>1. stuck \in SUBSET Nat
      OBVIOUS
    <2> HIDE DEF stuck
    <2> QED
      BY <1>2, <2>1, MinOfNats
  <1>4. m \in 0 .. n
    <2> HIDE DEF m
    <2> QED
      BY <1>3
  <1>5. m # 0
    <2>1. Runs([k \in 0 .. 0 |-> first], V, first, 0, step)
      BY DEF Runs
    <2> QED
      BY <1>3, <2>1
  <1>6. m - 1 \in 0 .. n /\ m - 1 \notin stuck
    <2> HIDE DEF m, stuck
    <2> QED
      BY <1>3, <1>4, <1>5
  <1>7. PICK f : Runs(f, V, first, m - 1, step)
    BY <1>6
  <1> DEFINE longer == [k \in 0 .. m |-> IF k = m THEN step[m][f[m - 1]] ELSE f[k]]
  <1>8. Runs(longer, V, first, m, step)
    <2> HIDE DEF m, stuck
    <2> QED
      BY <1>4, <1>5, <1>7 DEF Runs
  <1> QED
    BY <1>3, <1>8

\* The right side of the equation of aggregate_sub_info's sum.
SumStep(list, n, sum) ==
  [k \in 0 .. n |-> IF k = 0 THEN 0
                   ELSE IF list[k] = None THEN sum[k - 1]
                   ELSE SatAdd(sum[k - 1], list[k].total)]

\* The saturating sum of the counters that are there is at least as large as each.
LEMMA SaturatingSum ==
  ASSUME NEW list \in Seq(Infos \cup {None}), NEW n \in 0 .. Len(list),
         NEW i \in 1 .. n, list[i] # None
  PROVE  LET sum == CHOOSE g : g = SumStep(list, n, g)
         IN  sum[n] \in 0 .. MaxU64 /\ sum[n] >= list[i].total
  <1> DEFINE U64     == 0 .. MaxU64
             sum     == CHOOSE g : g = SumStep(list, n, g)
             step    == [k \in 1 .. n |-> [x \in U64 |->
                            IF list[k] = None THEN x ELSE SatAdd(x, list[k].total)]]
  <1>1. MaxU64 \in Nat
    BY SourcesAssumption
  <1>2. \A k \in 1 .. n : list[k] # None => list[k].total \in U64
    <2>1. \A k \in 1 .. n : list[k] \in Infos \cup {None}
      OBVIOUS
    <2> QED
      BY <2>1 DEF Infos
  <1>3. \A a, b \in U64 : SatAdd(a, b) \in U64 /\ SatAdd(a, b) >= a /\ SatAdd(a, b) >= b
    BY <1>1 DEF SatAdd
  <1>4. step \in [1 .. n -> [U64 -> U64]]
    BY <1>2, <1>3
  <1>5. PICK f \in [0 .. n -> U64] :
           f[0] = 0 /\ \A k \in 1 .. n : f[k] = step[k][f[k - 1]]
    <2>1. 0 \in U64 /\ n \in Nat
      BY <1>1
    <2>2. \E f : Runs(f, U64, 0, n, step)
      <3> HIDE DEF step, U64
      <3> QED
        BY <1>4, <2>1, Iterated
    <2> HIDE DEF step, U64
    <2> QED
      BY <2>2 DEF Runs
  <1>6. f = SumStep(list, n, f)
    <2>1. \A k \in 1 .. n : f[k - 1] \in U64
      <3> HIDE DEF U64, step
      <3> QED
        BY <1>5
    <2>2. \A k \in 1 .. n : f[k] = IF list[k] = None THEN f[k - 1]
                                  ELSE SatAdd(f[k - 1], list[k].total)
      <3> HIDE DEF U64
      <3> QED
        BY <1>5, <2>1
    <2>3. \A k \in 0 .. n : f[k] = IF k = 0 THEN 0
                                  ELSE IF list[k] = None THEN f[k - 1]
                                  ELSE SatAdd(f[k - 1], list[k].total)
      <3> HIDE DEF step
      <3> QED
        BY <1>5, <2>2
    <2>4. f = [k \in 0 .. n |-> f[k]]
      <3> HIDE DEF U64, step
      <3> QED
        BY <1>5
    <2> QED
      BY <2>3, <2>4 DEF SumStep
  <1>7. sum = SumStep(list, n, sum)
    BY <1>6, Zenon
  <1> HIDE DEF sum, step
  <1>8. sum[0] = 0 /\ \A k \in 1 .. n : sum[k] = IF list[k] = None THEN sum[k - 1]
                                             ELSE SatAdd(sum[k - 1], list[k].total)
    <2>1. 0 \in 0 .. n /\ \A k \in 1 .. n : k \in 0 .. n /\ k # 0
      OBVIOUS
    <2> QED
      BY <1>7, <2>1 DEF SumStep
  <1>9. \A k \in 0 .. n : sum[k] \in U64
    <2> DEFINE bad == {k \in 0 .. n : sum[k] \notin U64}
    <2>1. SUFFICES ASSUME bad # {} PROVE FALSE
      OBVIOUS
    <2>2. PICK k \in bad : \A j \in bad : k <= j
      <3>1. bad \in SUBSET Nat
        OBVIOUS
      <3> HIDE DEF bad
      <3> QED
        BY <2>1, <3>1, MinOfNats
    <2>3. k # 0
      BY <1>1, <1>8, <2>2
    <2>4. k - 1 \in 0 .. n /\ sum[k - 1] \in U64
      BY <2>2, <2>3
    <2>5. k \in 1 .. n
      BY <2>2, <2>3
    <2>6. list[k] # None => list[k].total \in U64
      BY <1>2, <2>5
    <2>7. sum[k] \in U64
      <3>1. sum[k] = IF list[k] = None THEN sum[k - 1]
                     ELSE SatAdd(sum[k - 1], list[k].total)
        BY <1>8, <2>5
      <3>2. list[k] # None => SatAdd(sum[k - 1], list[k].total) \in U64
        BY <1>3, <2>4, <2>6
      <3> HIDE DEF U64
      <3> QED
        BY <2>4, <3>1, <3>2
    <2> QED
      BY <2>2, <2>7
  <1>10. \A k \in 1 .. n : /\ sum[k] >= sum[k - 1]
                           /\ list[k] # None => sum[k] >= list[k].total
    <2> TAKE k \in 1 .. n
    <2>1. sum[k] \in U64 /\ sum[k - 1] \in U64
      BY <1>9
    <2>2. sum[k - 1] \in Int
      BY <1>1, <2>1
    <2>3. CASE list[k] = None
      BY <1>8, <2>2, <2>3
    <2>4. CASE list[k] # None
      <3> HIDE DEF U64
      <3> QED
        BY <1>2, <1>3, <1>8, <2>1, <2>4
    <2> QED
      BY <2>3, <2>4
  <1> DEFINE least == list[i].total
             bad   == {k \in i .. n : ~(sum[k] >= least)}
  <1>11. SUFFICES ASSUME bad # {} PROVE FALSE
    <2>1. n \in i .. n
      OBVIOUS
    <2>2. bad = {} => sum[n] >= least
      BY <2>1
    <2>3. sum[n] \in 0 .. MaxU64
      BY <1>9
    <2> HIDE DEF bad
    <2> QED
      BY <2>2, <2>3, Zenon DEF sum
  <1>12. PICK k \in bad : \A j \in bad : k <= j
    <2>1. bad \in SUBSET Nat
      OBVIOUS
    <2> HIDE DEF bad
    <2> QED
      BY <1>11, <2>1, MinOfNats
  <1>13. k # i
    BY <1>10, <1>12
  <1>14. k - 1 \in i .. n /\ sum[k - 1] >= least
    BY <1>12, <1>13
  <1>15. sum[k] >= sum[k - 1] /\ sum[k] \in Int /\ sum[k - 1] \in Int /\ least \in Int
    <2>1. k \in 1 .. n /\ k - 1 \in 0 .. n /\ k \in 0 .. n
      BY <1>12
    <2>2. sum[k] \in U64 /\ sum[k - 1] \in U64 /\ least \in U64
      BY <1>2, <1>9, <2>1
    <2> QED
      BY <1>1, <1>10, <2>1, <2>2
  <1> QED
    BY <1>12, <1>14, <1>15

\* What aggregate_sub_info returns is no less than any counter it counted, and no
\* later than any end it counted.
LEMMA Aggregated ==
  ASSUME NEW list \in Seq(Infos \cup {None}), infos = list,
         NEW n \in Nat \cup {None}, NEW i \in Counted(n)
  PROVE  /\ aggregate_sub_info(n) # None
         /\ aggregate_sub_info(n).total >= list[i].total
         /\ list[i].expire # None => aggregate_sub_info(n).expire <= list[i].expire
  <1> DEFINE limit   == IF n # None /\ n < Len(list) THEN n ELSE Len(list)
             counted == {j \in 1 .. limit : list[j] # None}
             expires == {list[j].expire : j \in counted} \ {None}
             end     == IF expires = {} THEN None ELSE Min(expires)
             sum     == CHOOSE g : g = SumStep(list, limit, g)
  <1>1. aggregate_sub_info(n) = [total |-> sum[limit], expire |-> end]
    BY DEF aggregate_sub_info, Counted, Limit, SumStep
  <1>2. limit \in 0 .. Len(list)
    OBVIOUS
  <1>3. i \in 1 .. limit /\ list[i] # None
    BY DEF Counted, Limit
  <1>4. sum[limit] \in 0 .. MaxU64 /\ sum[limit] >= list[i].total
    <2> HIDE DEF limit
    <2> QED
      BY <1>2, <1>3, SaturatingSum
  <1>5. list[i].expire # None => expires # {} /\ Min(expires) <= list[i].expire
    <2>1. \A j \in 1 .. limit : list[j] \in Infos \cup {None}
      BY <1>2
    <2>2. expires \in SUBSET Nat
      BY <2>1 DEF Infos
    <2>3. list[i].expire # None => list[i].expire \in expires
      BY <1>3
    <2> HIDE DEF expires
    <2> QED
      BY <2>2, <2>3, MinOfNats
  <1>6. [total |-> sum[limit], expire |-> end] # None
    <2>1. [total |-> sum[limit], expire |-> end] \in Infos
      <3>1. end \in Nat \cup {None}
        <4>1. \A j \in 1 .. limit : list[j] \in Infos \cup {None}
          BY <1>2
        <4>2. expires \in SUBSET Nat
          BY <4>1 DEF Infos
        <4> HIDE DEF expires
        <4> QED
          BY <4>2, MinOfNats
      <3> HIDE DEF sum, end, limit
      <3> QED
        BY <1>4, <3>1 DEF Infos
    <2> QED
      BY <2>1, SourcesAssumption
  <1> HIDE DEF sum, limit, expires
  <1> QED
    BY <1>1, <1>4, <1>5, <1>6

\* However large the counters are and whichever sources fail or send none, the user
\* info never reports less traffic, or a later end, than a source that counts.
THEOREM NothingUnderReported == Spec => []NeverUnderReported
  <1>1. Init => NeverUnderReported
    BY DEF Init, NeverUnderReported, Preprocessed
  <1>2. ASSUME ConvertInv, Preprocess PROVE NeverUnderReported'
    <2> SUFFICES ASSUME req.append_info, NEW i \in Counted(req.append_info_n)
                 PROVE  /\ UserInfo.total >= infos[i].total
                        /\ infos[i].expire # None => UserInfo.expire <= infos[i].expire
      BY <1>2 DEF Preprocess, NeverUnderReported, Counted, Limit
    <2>1. infos \in Seq(Infos \cup {None}) /\ req.append_info_n \in Nat \cup {None}
      <3>1. {s.info : s \in Sources} \subseteq Infos \cup {None}
        BY SourcesAssumption
      <3>2. infos \in Seq({s.info : s \in Sources}) /\ req \in Requests
        BY <1>2 DEF ConvertInv, TypeOK
      <3>3. req.append_info_n \in Nat \cup {None}
        BY <3>2, RequestsAssumption
      <3> QED
        BY <3>1, <3>2, <3>3
    <2>2. UserInfo = aggregate_sub_info(req.append_info_n)
      BY <2>1, Aggregated DEF UserInfo
    <2> QED
      BY <2>1, <2>2, Aggregated
  <1>3. ASSUME NeverUnderReported, [Next]_vars, ~Preprocess PROVE NeverUnderReported'
    <2>1. Preprocessed' => Preprocessed /\ UNCHANGED <<header, infos, req>>
      BY <1>3 DEF Next, vars, FetchInsert, BeginMain, FetchMain, Merge, ScriptFails, NameNode,
                  BeginGroups, AddGroup, Finish, Preprocessed, fetched, output
    <2> QED
      BY <1>3, <2>1 DEF NeverUnderReported, Counted, Limit
  <1> QED
    BY ConvertInvariant, <1>1, <1>2, <1>3, PTL DEF Spec

=============================================================================
