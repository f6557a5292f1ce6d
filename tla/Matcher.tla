------------------------------ MODULE Matcher ------------------------------
(***************************************************************************)
(* The rules that select nodes, in the two ways the code evaluates them:   *)
(* apply_matcher reads the text of the rule each time (include, exclude and *)
(* group rules), compile_rule and apply_compiled_rule work on a compiled   *)
(* form (emoji rules).                                                     *)
(*                                                                         *)
(* Data: a regular expression is the set of names it finds.  Of the rules  *)
(* with a prefix GROUPID and INSERT are kept, which differ in the sign     *)
(* they give the group id; the other prefixes are further tests of one     *)
(* property of the node.  A range of a rule is a sequence of parts, as the *)
(* commas split it.                                                        *)
(***************************************************************************)
EXTENDS Integers, Sequences

CONSTANTS None,
          MinInt, MaxInt      \* the bounds of i32

ASSUME BoundsAssumption == MinInt \in Int /\ MaxInt \in Int

\* A part "n" has lo = hi; in "a-b" a bound that does not parse is MinInt or MaxInt.
\* A part with another number of dashes, or no number, is "bad".
Parts == [neg : BOOLEAN, form : {"exact", "range", "bad"}, lo : Int, hi : Int]

\* `find` is what follows the prefix, None when nothing does.
Rule(by, range, find) == [by |-> by, range |-> range, find |-> find]

\* The rules that both evaluations take, which are all that have one of these prefixes.
IsRule(rule) ==
    rule.by \in {"name", "groupid", "insert"} /\ rule.range \in Seq(Parts)

-----------------------------------------------------------------------------
(* Interpreted.                                                            *)

Covers(part, target) == part.form # "bad" /\ part.lo <= target /\ target <= part.hi

\* The parts are tried in turn up to the first that covers the target; a "!" in
\* any part that was tried negates the result.
match_range(range, target) ==
    LET hits    == {i \in DOMAIN range : Covers(range[i], target)}
        negated == \E j \in DOMAIN range : range[j].neg /\ \A i \in hits : j <= i
    IN  negated # (hits # {})

apply_matcher(rule, node) ==
    CASE rule.by = "name"    -> TRUE
      [] rule.by = "groupid" -> match_range(rule.range, node.gid)
      [] rule.by = "insert"  -> match_range(rule.range, -node.gid)

reg_find(node, find) == node.name.base \in find

\* What group_generate makes of a rule, and what the rule is documented to select.
Selects(rule, node) ==
    apply_matcher(rule, node) /\ (rule.find # None => reg_find(node, rule.find))

\* should_ignore: a rule with nothing behind its prefix is compared with the remark,
\* which it never equals.
Names(rule, node) ==
    apply_matcher(rule, node) /\ rule.find # None /\ reg_find(node, rule.find)

should_ignore(node, exclude, include) ==
    \/ \E rule \in exclude : Names(rule, node)
    \/ include # {} /\ \A rule \in include : ~Names(rule, node)

-----------------------------------------------------------------------------
(* Compiled.                                                               *)

\* Only a "!" in front of the whole range is understood.  Further on it makes a
\* number unparsable, and the lower bound of a range.
parse_range_string(range) ==
    LET bare(i) == i = 1 \/ ~range[i].neg
        used(i) == \/ range[i].form = "range"
                   \/ range[i].form = "exact" /\ bare(i)
        lower(i) == IF bare(i) THEN range[i].lo ELSE MinInt
    IN [negate |-> range # <<>> /\ range[1].neg,
        ranges |-> {[lower |-> lower(i), upper |-> range[i].hi] :
                       i \in {j \in DOMAIN range : used(j) /\ lower(j) <= range[j].hi}}]

\* The prefix is not kept: GROUPID and INSERT compile to the same matcher.
compile_rule(rule) ==
    [matcher |-> IF rule.by = "name" THEN "plain" ELSE "groupid",
     ids     |-> parse_range_string(rule.range),
     find    |-> rule.find]

\* Mutant: the upper bound of a range is not part of it.
apply_compiled_rule_HalfOpen(compiled, node) ==
    /\ compiled.matcher = "groupid" =>
          compiled.ids.negate #
             \E r \in compiled.ids.ranges : r.lower <= node.gid /\ node.gid < r.upper
    /\ compiled.find # None => reg_find(node, compiled.find)

apply_compiled_rule(compiled, node) ==
    /\ compiled.matcher = "groupid" =>
          compiled.ids.negate #
             \E r \in compiled.ids.ranges : r.lower <= node.gid /\ node.gid <= r.upper
    /\ compiled.find # None => reg_find(node, compiled.find)
=============================================================================
