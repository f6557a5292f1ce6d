----------------------------- MODULE MCSubCache -----------------------------
(* SubCache with configurations k1 and k2 that yield the requests u1 and u2. *)
EXTENDS SubCache, TLC

CONSTANTS k1, k2, u1, u2

MCConfs == {k1, k2}
MCUrls == {u1, u2}
MCUrlOf == k1 :> u1 @@ k2 :> u2
PullSymmetry == Permutations(Pulls)
=============================================================================
