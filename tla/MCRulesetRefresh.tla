-------------------------- MODULE MCRulesetRefresh --------------------------
(* Two requests: two urls around an inline rule, and the same url twice.    *)
EXTENDS RulesetRefresh, TLC

CONSTANTS u1, u2

MCLists == {<<u1, Inline, u2>>, <<u1, u1>>}
Symmetry == Permutations(Requests)
=============================================================================
