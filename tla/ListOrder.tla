------------------------------ MODULE ListOrder ------------------------------
(***************************************************************************)
(* Positions of a list, in its order.                                      *)
(***************************************************************************)
EXTENDS Naturals, FiniteSets

\* The numbers of a finite set in increasing order: the k-th is the one that exactly k
\* of them do not exceed.
Sorted(S) ==
    [k \in 1 .. Cardinality(S) |->
        CHOOSE i \in {m \in S : Cardinality({j \in S : j <= m}) = k} : TRUE]
=============================================================================
