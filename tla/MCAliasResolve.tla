--------------------------- MODULE MCAliasResolve ---------------------------
(* One alias and profile, which may move between two templates, two sources. *)
EXTENDS AliasResolve, TLC

Symmetry == Permutations(Templates) \cup Permutations(Sources)
=============================================================================
