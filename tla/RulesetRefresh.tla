--------------------------- MODULE RulesetRefresh ---------------------------
(***************************************************************************)
(* refresh_rulesets and the memory cache it shares with every other        *)
(* request of the process.  The native build starts all fetches at once    *)
(* and joins them; the wasm build fetches one ruleset after another.       *)
(* Requests run on several threads (native) or interleave at their awaits  *)
(* (wasm); the cache is behind a mutex that is held for one call at a time.*)
(*                                                                         *)
(* Data: a ruleset of the list is a url or an inline rule ("[]..."), known *)
(* by its position; group, type and interval are carried along unchanged   *)
(* and left out.  A body is known by its url and the time it was loaded.   *)
(* The cache is stamped with the system clock, which may be set back.      *)
(***************************************************************************)
EXTENDS ListOrder, Integers, SequencesExt

CONSTANTS Requests, Urls,
          Lists,          \* the ruleset lists a request may ask for
          Inline, Loading, Failed, None,
          MaxAge,         \* cache_ruleset, in seconds; 0 turns the cache off
          MaxTime, MaxBack   \* bounds of the clock and of how far it is set back

ASSUME RulesetAssumption ==
    /\ MaxAge \in Nat /\ MaxTime \in Nat /\ MaxBack \in Nat
    /\ Urls \cap {Inline, None} = {}
    /\ Loading \notin {Inline, Failed, None} /\ Failed \notin {Inline, None} /\ Inline # None
    /\ Lists \subseteq Seq(Urls \cup {Inline}) /\ None \notin Lists

VARIABLES
    native,   \* which build runs: the parallel version or, if FALSE, the wasm one
    now,      \* real time
    back,     \* how far the system clock has been set back
    cache,    \* MEMORY_CACHE: a body with its stamp, or None
    req,      \* the refresh each request is in
    loaded,   \* history: every body a url was loaded with
    oldest    \* history: the longest a body had been in the cache when it was used

vars == <<native, now, back, cache, req, loaded, oldest>>

Times == 0 .. MaxTime
clock == now - back           \* SystemTime::now()

Bodies == [url : Urls, at : Times]

ASSUME BodyAssumption == \A c \in {Inline, Loading, Failed, None} : c \notin Bodies

\* "stored" is the real time of the stamp, a history value.
Items == [body : Bodies, stamp : Int, stored : Times]

NewRefresh == [pc |-> "new", list |-> None, pos |-> 0, got |-> <<>>, hand |-> 0,
               content |-> <<>>, failed |-> <<>>]

Init ==
    /\ native \in BOOLEAN
    /\ now = 0 /\ back = 0
    /\ cache = [u \in Urls |-> None]
    /\ req = [r \in Requests |-> NewRefresh]
    /\ loaded = {} /\ oldest = -1

Tick ==
    /\ now < MaxTime /\ now' = now + 1
    /\ UNCHANGED <<native, back, cache, req, loaded, oldest>>

SetBack ==
    /\ back < MaxBack /\ back' = back + 1
    /\ UNCHANGED <<native, now, cache, req, loaded, oldest>>

At(r, step) == req[r].pc = step
Positions(r) == 1 .. Len(req[r].list)
Entry(i, body) == [pos |-> i, body |-> body]

\* The entries of some positions, in the order of the list.
Entries(S, body) == [k \in 1 .. Cardinality(S) |-> Entry(Sorted(S)[k], body[Sorted(S)[k]])]

-----------------------------------------------------------------------------
(* memory_cache and fetch_ruleset.                                         *)

\* Mutant: an item is still good when it is as old as the timeout.
GetIfValid_Inclusive(u) ==
    IF cache[u] # None /\ 0 <= clock - cache[u].stamp /\ clock - cache[u].stamp <= MaxAge
    THEN cache[u].body ELSE None

\* An item from the future (the clock was set back) is not used.
GetIfValid(u) ==
    IF cache[u] # None /\ 0 <= clock - cache[u].stamp /\ clock - cache[u].stamp < MaxAge
    THEN cache[u].body ELSE None

Cached(u) == IF MaxAge > 0 THEN GetIfValid(u) ELSE None

\* Looking at the cache for position i: a hit is the result of the fetch, a miss
\* goes on to load_text.
Lookup(r, i, hit, miss) ==
    LET u == req[r].list[i] IN
    /\ IF Cached(u) # None
       THEN /\ req' = [req EXCEPT ![r] = hit]
            /\ oldest' = IF now - cache[u].stored > oldest THEN now - cache[u].stored
                         ELSE oldest
       ELSE req' = [req EXCEPT ![r] = miss] /\ UNCHANGED oldest
    /\ UNCHANGED <<native, now, back, cache, loaded>>

StoreItem(body) ==
    cache' = IF MaxAge > 0
             THEN [cache EXCEPT ![body.url] =
                      [body |-> body, stamp |-> clock, stored |-> now]]
             ELSE cache

-----------------------------------------------------------------------------
(* The parallel version.                                                   *)

InlineEntries(list) == Entries({i \in 1 .. Len(list) : list[i] = Inline}, list)

\* The futures that have not been polled yet: an inline rule has none.
Unpolled(r) == {i \in Positions(r) : req[r].list[i] # Inline /\ req[r].got[i] = None}

\* The loop over the list pushes the inline rules and prepares the other futures.
BeginParallel(r) ==
    /\ native /\ At(r, "new")
    /\ \E list \in Lists :
          req' = [req EXCEPT ![r] = [NewRefresh EXCEPT !.pc = "join", !.list = list,
                                        !.got = [i \in 1 .. Len(list) |-> None],
                                        !.content = InlineEntries(list)]]
    /\ UNCHANGED <<native, now, back, cache, loaded, oldest>>

\* join_all polls the futures in order: each looks at the cache and, when it has to,
\* starts loading.
Poll(r) ==
    /\ native /\ At(r, "join") /\ req[r].hand = 0
    /\ \E i \in Unpolled(r) :
          /\ \A j \in Unpolled(r) : i <= j
          /\ Lookup(r, i, [req[r] EXCEPT !.got[i] = Cached(req[r].list[i])],
                          [req[r] EXCEPT !.got[i] = Loading])

\* load_text of a future that is being loaded ends, in any order, an embedded ruleset
\* before the next future is polled; what it loaded is in hand until it has been
\* stored.  The client unwraps a body that is not UTF-8: the request goes down with
\* all its futures, and what they had not stored is lost.
LoadedOne(r) ==
    /\ native /\ At(r, "join") /\ req[r].hand = 0
    /\ \E i \in Positions(r) :
          /\ req[r].got[i] = Loading
          /\ \/ LET b == [url |-> req[r].list[i], at |-> now] IN
                /\ loaded' = loaded \cup {b}
                /\ req' = [req EXCEPT ![r].got[i] = b, ![r].hand = i]
             \/ /\ \/ req' = [req EXCEPT ![r].got[i] = Failed]
                   \/ req' = [req EXCEPT ![r] = [NewRefresh EXCEPT !.pc = "panicked",
                                                                   !.list = req[r].list]]
                /\ UNCHANGED loaded
    /\ UNCHANGED <<native, now, back, cache, oldest>>

StoreOne(r) ==
    /\ native /\ req[r].hand # 0
    /\ StoreItem(req[r].got[req[r].hand])
    /\ req' = [req EXCEPT ![r].hand = 0]
    /\ UNCHANGED <<native, now, back, loaded, oldest>>

\* Mutant: the results are taken in the order in which they arrived.
Join_ByArrival(r) ==
    LET got == req[r].got
        ok(i)  == got[i] \notin {None, Failed}
        fetched == SetToSortSeq({i \in Positions(r) : ok(i)},
                                LAMBDA i, j : got[i].at < got[j].at
                                                \/ (got[i].at = got[j].at /\ i < j))
    IN
    /\ native /\ At(r, "join") /\ req[r].hand = 0
    /\ Unpolled(r) = {} /\ \A i \in Positions(r) : got[i] # Loading
    /\ req' = [req EXCEPT ![r].pc = "done",
                 ![r].content = @ \o [k \in 1 .. Len(fetched) |->
                                         Entry(fetched[k], got[fetched[k]])],
                 ![r].failed = Sorted({i \in Positions(r) : got[i] = Failed})]
    /\ UNCHANGED <<native, now, back, cache, loaded, oldest>>

\* Mutant: the join waits until as many fetches have succeeded as were started.
Join_AllSucceeded(r) ==
    LET got == req[r].got IN
    /\ native /\ At(r, "join") /\ req[r].hand = 0
    /\ Unpolled(r) = {} /\ \A i \in Positions(r) : got[i] \notin {Loading, Failed}
    /\ req' = [req EXCEPT ![r].pc = "done",
                 ![r].content = @ \o Entries({i \in Positions(r) : got[i] # None}, got)]
    /\ UNCHANGED <<native, now, back, cache, loaded, oldest>>

\* All are in: the results come in the order of the futures.
Join(r) ==
    LET got == req[r].got IN
    /\ native /\ At(r, "join") /\ req[r].hand = 0
    /\ Unpolled(r) = {} /\ \A i \in Positions(r) : got[i] # Loading
    /\ req' = [req EXCEPT ![r].pc = "done",
                 ![r].content = @ \o Entries({i \in Positions(r) : got[i] \notin {None, Failed}},
                                             got),
                 ![r].failed = Sorted({i \in Positions(r) : got[i] = Failed})]
    /\ UNCHANGED <<native, now, back, cache, loaded, oldest>>

-----------------------------------------------------------------------------
(* The sequential version.                                                 *)

BeginSequential(r) ==
    /\ ~native /\ At(r, "new")
    /\ \E list \in Lists :
          req' = [req EXCEPT ![r] = [NewRefresh EXCEPT !.pc = "next", !.list = list, !.pos = 1]]
    /\ UNCHANGED <<native, now, back, cache, loaded, oldest>>

\* One entry more, and on to the next ruleset.
Pushed(q, body) ==
    [q EXCEPT !.pc = "next", !.pos = @ + 1, !.content = Append(@, Entry(q.pos, body))]

NextRuleset(r) ==
    LET q == req[r] IN
    /\ ~native /\ At(r, "next")
    /\ IF q.pos > Len(q.list)
       THEN req' = [req EXCEPT ![r].pc = "done"] /\ UNCHANGED <<native, now, back, cache, loaded, oldest>>
       ELSE IF q.list[q.pos] = Inline
       THEN /\ req' = [req EXCEPT ![r] = Pushed(q, Inline)]
            /\ UNCHANGED <<native, now, back, cache, loaded, oldest>>
       ELSE Lookup(r, q.pos, Pushed(q, Cached(q.list[q.pos])), [q EXCEPT !.pc = "load"])

\* load_text ends, and the item is stored before the next await.
LoadedNext(r) ==
    LET q == req[r] IN
    /\ ~native /\ At(r, "load")
    /\ \/ LET b == [url |-> q.list[q.pos], at |-> now] IN
          /\ loaded' = loaded \cup {b}
          /\ StoreItem(b)
          /\ req' = [req EXCEPT ![r] = Pushed(q, b)]
       \/ /\ req' = [req EXCEPT ![r].pc = "next", ![r].pos = @ + 1,
                                ![r].failed = Append(@, q.pos)]
          /\ UNCHANGED <<cache, loaded>>
    /\ UNCHANGED <<native, now, back, oldest>>

-----------------------------------------------------------------------------
Next ==
    \/ Tick \/ SetBack
    \/ \E r \in Requests :
          \/ BeginParallel(r) \/ Poll(r) \/ LoadedOne(r) \/ StoreOne(r) \/ Join(r)
          \/ BeginSequential(r) \/ NextRuleset(r) \/ LoadedNext(r)

Spec == Init /\ [][Next]_vars

\* Tasks are run, and a native load ends: its client has a timeout of 15 seconds.
\* The wasm client has none.
Progress(r) == Poll(r) \/ LoadedOne(r) \/ StoreOne(r) \/ Join(r) \/ NextRuleset(r)

FairSpec == Spec /\ \A r \in Requests : WF_vars(Progress(r))

-----------------------------------------------------------------------------
(* Properties.                                                             *)

\* A body taken from the cache had been there for less than the timeout plus what
\* the clock was set back by meanwhile, whichever request stored it.
CachedInTime == oldest >= 0 => oldest < MaxAge + back

\* Whatever the order in which the fetches end, and whatever other requests put
\* into the cache, a request gets one entry per ruleset that is inline or could be
\* loaded, with a body of its own url, in the order of its build, and a report of
\* the others.
Service ==
    INSTANCE RulesetService WITH
        asked  <- [r \in Requests |-> req[r].list],
        answer <- [r \in Requests |-> IF At(r, "done")
                                      THEN [content |-> req[r].content, failed |-> req[r].failed]
                                      ELSE None]
ImplementsRulesetService == Service!Spec

\* "inline handled separately later": what refresh_rulesets says of its first loop,
\* and what the sequential version does, which keeps the order of the list.  The
\* first rule that matches wins, so an inline FINAL belongs where the list has it.
InlineInPlace ==
    \A r \in Requests : At(r, "done") =>
        \A j, k \in 1 .. Len(req[r].content) :
            j < k => req[r].content[j].pos < req[r].content[k].pos

\* Every refresh ends, with an answer or a panic, unless it is a wasm one that waits for
\* a load.
RefreshEnds ==
    \A r \in Requests :
        req[r].list # None ~> (At(r, "done") \/ At(r, "panicked") \/ At(r, "load"))
=============================================================================
