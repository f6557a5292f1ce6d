----------------------------- MODULE MCRegistry -----------------------------
(* Registry with two clients, two keys of each kind and one template.  A    *)
(* behaviour writes two aliases of two profiles, or two sources of one.     *)
EXTENDS Registry, Naturals, TLC

Symmetry == Permutations(Clients) \cup Permutations(Aliases) \cup Permutations(Profiles)
                \cup Permutations(Sources)

InFlight == {h[c].req : c \in {d \in Clients : h[d].req # None}}
AliasOps == {"createAlias", "updateAlias", "deleteAlias"}
ProfileOps == {"putProfile", "deleteProfile"}

NoAlias ==
    /\ \A a \in Aliases : alias[a] = None
    /\ \A r \in InFlight : r.op \notin AliasOps
OneProfile ==
    Cardinality(everProfile \cup {r.id : r \in {q \in InFlight : q.op \in ProfileOps}}) <= 1
NoSource ==
    /\ everSource = {}
    /\ \A r \in InFlight :
        /\ r.op \notin {"putSource", "deleteSource"}
        /\ r.op = "putProfile" => r.sourceIds \in {None, {}}

OneSide == NoSource \/ (NoAlias /\ OneProfile)
=============================================================================
