--------------------------- MODULE MCSettingsLock ---------------------------
(* Three requests on two worker threads: two of them share a thread.        *)
EXTENDS SettingsLock, TLC

CONSTANTS r1, r2, r3, main, t1, t2

MCThreadOf == main :> t1 @@ r1 :> t1 @@ r2 :> t1 @@ r3 :> t2
=============================================================================
