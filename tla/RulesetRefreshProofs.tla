------------------------- MODULE RulesetRefreshProofs -------------------------
(***************************************************************************)
(* Theorems about RulesetRefresh, for any number of requests and urls, any *)
(* timeout and any course of the clock.  The invariant says what an item's *)
(* stamp is worth: it is no later than the moment it was stored, so an     *)
(* item is younger than its stamp says by no more than the clock has been  *)
(* set back; and that a request only looks up the urls of its list.        *)
(***************************************************************************)
EXTENDS RulesetRefresh, FiniteSetTheorems, WellFoundedInduction, TLAPS

\* The clocks, and the age of what was used.
ClockOK == now \in Times /\ back \in 0 .. MaxBack /\ oldest \in Int

\* An item is stamped when it is stored, by a clock that is never ahead.
StampOK(item) ==
    /\ item.stamp \in Int /\ item.stored \in Times
    /\ item.stamp <= item.stored /\ item.stored <= now

StampsHonest ==
    /\ cache = [u \in Urls |-> cache[u]]
    /\ \A u \in Urls : cache[u] # None => StampOK(cache[u])

CacheInv == ClockOK /\ StampsHonest /\ CachedInTime

\* The fields of a refresh.
Fields == {"pc", "list", "pos", "got", "hand", "content", "failed"}
Shaped(q) == q = [f \in Fields |-> q[f]]

\* A refresh that has begun has a list, and the loop is inside it.
RefreshOK(q) ==
    /\ Shaped(q)
    /\ q.pc \in {"join", "next", "load"} => q.list \in Lists
    /\ q.pc \in {"next", "load"} => q.pos \in Nat \ {0}

RefreshesOK ==
    /\ req = [r \in Requests |-> req[r]]
    /\ \A r \in Requests : RefreshOK(req[r])

IInv == CacheInv /\ RefreshesOK

-----------------------------------------------------------------------------
(* The cache.                                                              *)

LEMMA ListElement ==
    ASSUME NEW list \in Lists, NEW i \in 1 .. Len(list), list[i] # Inline
    PROVE  list[i] \in Urls
  <1>1. list \in Seq(Urls \cup {Inline})
    BY RulesetAssumption DEF RulesetAssumption
  <1>. QED
    BY <1>1

LEMMA ListLength ==
    ASSUME NEW list \in Lists PROVE Len(list) \in Nat
  <1>1. list \in Seq(Urls \cup {Inline})
    BY RulesetAssumption DEF RulesetAssumption
  <1>. QED
    BY <1>1

\* An item that is found good has not been there for longer than the timeout and
\* what the clock was set back by.
LEMMA HitIsInTime ==
    ASSUME ClockOK, StampsHonest, NEW u \in Urls, Cached(u) # None
    PROVE  /\ now - cache[u].stored \in Int
           /\ now - cache[u].stored < MaxAge + back
  <1>1. cache[u] # None /\ clock - cache[u].stamp < MaxAge
    BY DEF Cached, GetIfValid
  <1>2. StampOK(cache[u])
    BY <1>1 DEF StampsHonest
  <1>. QED
    BY <1>1, <1>2, RulesetAssumption DEF StampOK, ClockOK, clock, Times, RulesetAssumption

\* Storing an item keeps the stamps honest.
LEMMA StoredHonestly ==
    ASSUME ClockOK, StampsHonest, NEW body, StoreItem(body), UNCHANGED <<now, back, oldest>>
    PROVE  ClockOK' /\ StampsHonest'
  <1>. DEFINE item == [body |-> body, stamp |-> clock, stored |-> now]
  <1>1. ClockOK'
    BY DEF ClockOK
  <1>2. StampOK(item)' /\ StampOK(item)
    BY RulesetAssumption DEF StampOK, ClockOK, clock, Times, RulesetAssumption
  <1>3. CASE cache' = cache
    BY <1>1, <1>3 DEF StampsHonest, StampOK
  <1>4. CASE cache' = [cache EXCEPT ![body.url] = item]
    <2>1. cache' = [u \in Urls |-> IF u = body.url THEN item ELSE cache[u]]
      BY <1>4 DEF StampsHonest
    <2>2. ASSUME NEW u \in Urls, cache'[u] # None PROVE StampOK(cache[u])'
      <3>1. CASE u = body.url
        <4>1. cache'[u] = item
          BY <2>1, <3>1
        <4>. QED
          BY <4>1, <1>2 DEF StampOK
      <3>2. CASE u # body.url
        <4>1. cache'[u] = cache[u]
          BY <2>1, <3>2
        <4>. QED
          BY <4>1, <2>2 DEF StampsHonest, StampOK
      <3>. QED
        BY <3>1, <3>2
    <2>3. cache' = [u \in Urls |-> cache'[u]]
      BY <2>1
    <2>. QED
      BY <1>1, <2>2, <2>3 DEF StampsHonest
  <1>. QED
    BY <1>3, <1>4 DEF StoreItem

\* A look at the cache for a url of the list.
LEMMA LookedUpInTime ==
    ASSUME CacheInv, NEW r, NEW i, req[r].list[i] \in Urls,
           NEW hit, NEW miss, Lookup(r, i, hit, miss)
    PROVE  CacheInv' /\ (req' = [req EXCEPT ![r] = hit] \/ req' = [req EXCEPT ![r] = miss])
  <1>. DEFINE u == req[r].list[i]
              age == now - cache[u].stored
  <1>1. UNCHANGED <<now, back, cache>>
    BY DEF Lookup
  <1>2. StampsHonest'
    BY <1>1 DEF CacheInv, StampsHonest, StampOK
  <1>3. CASE Cached(u) # None
    <2>1. age \in Int /\ age < MaxAge + back
      BY <1>3, HitIsInTime DEF CacheInv
    <2>2. /\ req' = [req EXCEPT ![r] = hit]
          /\ oldest' = IF age > oldest THEN age ELSE oldest
      BY <1>3 DEF Lookup
    <2>3. ClockOK' /\ CachedInTime'
      <3>. HIDE DEF age
      <3>. QED
        BY <1>1, <2>1, <2>2 DEF CacheInv, ClockOK, CachedInTime
    <2>. QED
      BY <1>2, <2>2, <2>3 DEF CacheInv
  <1>4. CASE Cached(u) = None
    <2>1. req' = [req EXCEPT ![r] = miss] /\ oldest' = oldest
      BY <1>4 DEF Lookup
    <2>. QED
      BY <1>1, <1>2, <2>1 DEF CacheInv, ClockOK, CachedInTime
  <1>. QED
    BY <1>3, <1>4

-----------------------------------------------------------------------------
(* The refreshes.                                                          *)

\* A step that changes one refresh.
LEMMA OneRefresh ==
    ASSUME RefreshesOK, NEW r \in Requests, NEW q, req' = [req EXCEPT ![r] = q], RefreshOK(q)
    PROVE  RefreshesOK'
  <1>1. req' = [s \in Requests |-> IF s = r THEN q ELSE req[s]]
    BY DEF RefreshesOK
  <1>2. req' = [s \in Requests |-> req'[s]]
    BY <1>1
  <1>3. \A s \in Requests : RefreshOK(req'[s])
    BY <1>1 DEF RefreshesOK
  <1>. QED
    BY <1>2, <1>3 DEF RefreshesOK, RefreshOK, Shaped, Fields

LEMMA PushedOK ==
    ASSUME NEW q, RefreshOK(q), q.pc \in {"next", "load"}, NEW body
    PROVE  RefreshOK(Pushed(q, body))
  <1>. DEFINE p == Pushed(q, body)
  <1>1. Shaped(p) /\ p.pc = "next" /\ p.list = q.list /\ p.pos = q.pos + 1
    BY DEF Pushed, RefreshOK, Shaped, Fields
  <1>. HIDE DEF p
  <1>2. RefreshOK(p)
    BY <1>1 DEF RefreshOK
  <1>. QED
    BY <1>2 DEF p

LEMMA InitHolds == Init => IInv
  <1>. SUFFICES ASSUME Init PROVE IInv
    OBVIOUS
  <1>1. CacheInv
    <2>1. ClockOK /\ CachedInTime
      BY RulesetAssumption DEF Init, ClockOK, CachedInTime, Times, RulesetAssumption
    <2>2. StampsHonest
      BY DEF Init, StampsHonest
    <2>. QED
      BY <2>1, <2>2 DEF CacheInv
  <1>2. RefreshesOK
    BY DEF Init, RefreshesOK, RefreshOK, Shaped, Fields, NewRefresh
  <1>. QED
    BY <1>1, <1>2 DEF IInv

\* What was in time is in time when the clock is set back further.
LEMMA LaterStill ==
    \A o, m, b, c \in Int : b <= c /\ (o >= 0 => o < m + b) => (o >= 0 => o < m + c)
  OBVIOUS

\* Time passes and the clock is set back: the stamps stay in the past, and what was
\* used is no older than before.
LEMMA ClockSteps ==
    ASSUME IInv, Tick \/ SetBack PROVE IInv'
  <1>1. UNCHANGED <<cache, req, oldest>> /\ now' \in Times /\ back' \in 0 .. MaxBack
        /\ now <= now' /\ back <= back'
    BY RulesetAssumption DEF IInv, CacheInv, ClockOK, Tick, SetBack, Times, RulesetAssumption
  <1>2. ClockOK'
    BY <1>1 DEF IInv, CacheInv, ClockOK
  <1>3. CachedInTime'
    <2>1. /\ oldest' = oldest /\ oldest \in Int /\ oldest' \in Int
          /\ back \in Int /\ back' \in Int /\ back <= back'
      BY <1>1, RulesetAssumption DEF IInv, CacheInv, ClockOK, RulesetAssumption
    <2>2. oldest >= 0 => oldest < MaxAge + back
      BY DEF IInv, CacheInv, CachedInTime
    <2>3. MaxAge \in Int
      BY RulesetAssumption DEF RulesetAssumption
    <2>4. oldest' >= 0 => oldest' < MaxAge + back'
      BY <2>1, <2>2, <2>3, LaterStill
    <2>. QED
      BY <2>4 DEF CachedInTime
  <1>4. StampsHonest'
    BY <1>1 DEF IInv, CacheInv, ClockOK, StampsHonest, StampOK, Times
  <1>. QED
    BY <1>1, <1>2, <1>3, <1>4 DEF IInv, CacheInv, RefreshesOK, RefreshOK, Shaped

-----------------------------------------------------------------------------
(* The steps of a request, one lemma per version.                          *)

LEMMA ParallelSteps ==
    ASSUME IInv, NEW r \in Requests,
           BeginParallel(r) \/ Poll(r) \/ LoadedOne(r) \/ StoreOne(r) \/ Join(r)
    PROVE  IInv'
  <1>. USE DEF IInv
  <1>1. RefreshOK(req[r])
    BY DEF RefreshesOK
  <1>2. CASE BeginParallel(r)
    <2>1. PICK list \in Lists :
            req' = [req EXCEPT ![r] = [NewRefresh EXCEPT !.pc = "join", !.list = list,
                                          !.got = [i \in 1 .. Len(list) |-> None],
                                          !.content = InlineEntries(list)]]
      BY <1>2 DEF BeginParallel
    <2>2. RefreshesOK'
      <3>. DEFINE q == [NewRefresh EXCEPT !.pc = "join", !.list = list,
                                          !.got = [i \in 1 .. Len(list) |-> None],
                                          !.content = InlineEntries(list)]
      <3>1. RefreshOK(q)
        <4>1. Shaped(q) /\ q.pc = "join" /\ q.list = list
          BY DEF NewRefresh, Shaped, Fields
        <4>. HIDE DEF q
        <4>. QED
          BY <4>1 DEF RefreshOK
      <3>. QED
        BY <2>1, <3>1, OneRefresh
    <2>. QED
      BY <1>2, <2>2
      DEF BeginParallel, CacheInv, ClockOK, StampsHonest, StampOK, CachedInTime
  <1>3. CASE Poll(r)
    <2>1. PICK i \in Unpolled(r) :
            Lookup(r, i, [req[r] EXCEPT !.got[i] = Cached(req[r].list[i])],
                         [req[r] EXCEPT !.got[i] = Loading])
      BY <1>3 DEF Poll
    <2>2. req[r].list[i] \in Urls /\ req[r].pc = "join"
      BY <1>1, <1>3, ListElement DEF Unpolled, Positions, RefreshOK, Poll, At
    <2>3. /\ RefreshOK([req[r] EXCEPT !.got[i] = Cached(req[r].list[i])])
          /\ RefreshOK([req[r] EXCEPT !.got[i] = Loading])
      BY <1>1, <2>2 DEF RefreshOK, Shaped, Fields
    <2>. QED
      BY <2>1, <2>2, <2>3, LookedUpInTime, OneRefresh
  <1>4. CASE LoadedOne(r)
    <2>1. PICK i \in Positions(r) :
            \/ req' = [req EXCEPT ![r].got[i] = [url |-> req[r].list[i], at |-> now],
                                  ![r].hand = i]
            \/ req' = [req EXCEPT ![r].got[i] = Failed]
            \/ req' = [req EXCEPT ![r] = [NewRefresh EXCEPT !.pc = "panicked",
                                                            !.list = req[r].list]]
      BY <1>4 DEF LoadedOne
    <2>. DEFINE w == [NewRefresh EXCEPT !.pc = "panicked", !.list = req[r].list]
    <2>2. \/ req' = [req EXCEPT ![r] = w]
          \/ \E v, h : req' = [req EXCEPT ![r] = [req[r] EXCEPT !.got[i] = v, !.hand = h]]
      <3>1. CASE req' = [req EXCEPT ![r].got[i] = [url |-> req[r].list[i], at |-> now],
                                    ![r].hand = i]
        <4>1. req' = [req EXCEPT ![r] = [req[r] EXCEPT
                         !.got[i] = [url |-> req[r].list[i], at |-> now], !.hand = i]]
          BY <3>1, <1>1 DEF RefreshesOK, RefreshOK, Shaped, Fields
        <4>. QED
          BY <4>1
      <3>2. CASE req' = [req EXCEPT ![r].got[i] = Failed]
        <4>1. req' = [req EXCEPT ![r] = [req[r] EXCEPT !.got[i] = Failed, !.hand = req[r].hand]]
          BY <3>2, <1>1 DEF RefreshesOK, RefreshOK, Shaped, Fields
        <4>. QED
          BY <4>1
      <3>. QED
        BY <2>1, <3>1, <3>2
    <2>3. RefreshOK(w)
      <3>1. Shaped(w) /\ w.pc = "panicked"
        BY DEF NewRefresh, Shaped, Fields
      <3>. HIDE DEF w
      <3>. QED
        BY <3>1 DEF RefreshOK
    <2>. HIDE DEF w
    <2>4. \A v, h : RefreshOK([req[r] EXCEPT !.got[i] = v, !.hand = h])
      <3>. TAKE v, h
      <3>. DEFINE p == [req[r] EXCEPT !.got[i] = v, !.hand = h]
      <3>1. Shaped(p) /\ p.pc = req[r].pc /\ p.list = req[r].list /\ p.pos = req[r].pos
        BY <1>1 DEF RefreshOK, Shaped, Fields
      <3>. HIDE DEF p
      <3>2. RefreshOK(p)
        BY <1>1, <3>1 DEF RefreshOK
      <3>. QED
        BY <3>2 DEF p
    <2>5. RefreshesOK'
      <3>1. CASE req' = [req EXCEPT ![r] = w]
        BY <2>3, <3>1, OneRefresh
      <3>2. ASSUME NEW v, NEW h,
                   req' = [req EXCEPT ![r] = [req[r] EXCEPT !.got[i] = v, !.hand = h]]
            PROVE  RefreshesOK'
        BY <2>4, <3>2, OneRefresh
      <3>. QED
        BY <2>2, <3>1, <3>2
    <2>. QED
      BY <1>4, <2>5
      DEF LoadedOne, CacheInv, ClockOK, StampsHonest, StampOK, CachedInTime
  <1>5. CASE StoreOne(r)
    <2>1. ClockOK' /\ StampsHonest' /\ CachedInTime'
      BY <1>5, StoredHonestly DEF StoreOne, CacheInv, CachedInTime
    <2>2. req' = [req EXCEPT ![r] = [req[r] EXCEPT !.hand = 0]]
      BY <1>5 DEF StoreOne
    <2>3. RefreshOK([req[r] EXCEPT !.hand = 0])
      BY <1>1 DEF RefreshOK, Shaped, Fields
    <2>4. RefreshesOK'
      BY <2>2, <2>3, OneRefresh
    <2>. QED
      BY <2>1, <2>4 DEF CacheInv
  <1>6. CASE Join(r)
    <2>1. PICK c, f : req' = [req EXCEPT ![r].pc = "done", ![r].content = c, ![r].failed = f]
      BY <1>6 DEF Join
    <2>2. req' = [req EXCEPT ![r] = [req[r] EXCEPT !.pc = "done", !.content = c, !.failed = f]]
      BY <2>1, <1>1 DEF RefreshesOK, RefreshOK, Shaped, Fields
    <2>3. RefreshOK([req[r] EXCEPT !.pc = "done", !.content = c, !.failed = f])
      <3>. DEFINE p == [req[r] EXCEPT !.pc = "done", !.content = c, !.failed = f]
      <3>1. Shaped(p) /\ p.pc = "done"
        BY <1>1 DEF RefreshOK, Shaped, Fields
      <3>. HIDE DEF p
      <3>2. RefreshOK(p)
        BY <3>1 DEF RefreshOK
      <3>. QED
        BY <3>2 DEF p
    <2>4. RefreshesOK'
      BY <2>2, <2>3, OneRefresh
    <2>. QED
      BY <1>6, <2>4 DEF Join, CacheInv, ClockOK, StampsHonest, StampOK, CachedInTime
  <1>. QED
    BY <1>2, <1>3, <1>4, <1>5, <1>6

LEMMA SequentialSteps ==
    ASSUME IInv, NEW r \in Requests,
           BeginSequential(r) \/ NextRuleset(r) \/ LoadedNext(r)
    PROVE  IInv'
  <1>. USE DEF IInv
  <1>. DEFINE q == req[r]
  <1>1. RefreshOK(q)
    BY DEF RefreshesOK
  <1>2. CASE BeginSequential(r)
    <2>1. PICK list \in Lists :
            req' = [req EXCEPT ![r] = [NewRefresh EXCEPT !.pc = "next", !.list = list, !.pos = 1]]
      BY <1>2 DEF BeginSequential
    <2>2. RefreshOK([NewRefresh EXCEPT !.pc = "next", !.list = list, !.pos = 1])
      <3>. DEFINE p == [NewRefresh EXCEPT !.pc = "next", !.list = list, !.pos = 1]
      <3>1. Shaped(p) /\ p.pc = "next" /\ p.list = list /\ p.pos = 1
        BY DEF NewRefresh, Shaped, Fields
      <3>. HIDE DEF p
      <3>2. RefreshOK(p)
        BY <3>1 DEF RefreshOK
      <3>. QED
        BY <3>2 DEF p
    <2>3. RefreshesOK'
      BY <2>1, <2>2, OneRefresh
    <2>. QED
      BY <1>2, <2>3
      DEF BeginSequential, CacheInv, ClockOK, StampsHonest, StampOK, CachedInTime
  <1>3. CASE NextRuleset(r)
    <2>1. q.pc = "next" /\ q.list \in Lists /\ q.pos \in Nat \ {0}
      BY <1>1, <1>3 DEF NextRuleset, At, RefreshOK
    <2>2. CASE q.pos > Len(q.list)
      <3>1. req' = [req EXCEPT ![r] = [q EXCEPT !.pc = "done"]]
            /\ UNCHANGED <<now, back, cache, oldest>>
        BY <1>3, <2>2 DEF NextRuleset
      <3>2. RefreshOK([q EXCEPT !.pc = "done"])
        BY <1>1 DEF RefreshOK, Shaped, Fields
      <3>3. RefreshesOK'
        BY <3>1, <3>2, OneRefresh
      <3>. QED
        BY <3>1, <3>3 DEF CacheInv, ClockOK, StampsHonest, StampOK, CachedInTime
    <2>3. CASE q.pos \in 1 .. Len(q.list) /\ q.list[q.pos] = Inline
      <3>1. req' = [req EXCEPT ![r] = Pushed(q, Inline)]
            /\ UNCHANGED <<now, back, cache, oldest>>
        BY <1>3, <2>3, <2>1, ListLength DEF NextRuleset
      <3>2. RefreshesOK'
        BY <3>1, <2>1, <1>1, PushedOK, OneRefresh
      <3>. QED
        BY <3>1, <3>2 DEF CacheInv, ClockOK, StampsHonest, StampOK, CachedInTime
    <2>4. CASE q.pos \in 1 .. Len(q.list) /\ q.list[q.pos] # Inline
      <3>1. Lookup(r, q.pos, Pushed(q, Cached(q.list[q.pos])), [q EXCEPT !.pc = "load"])
        BY <1>3, <2>4, <2>1, ListLength DEF NextRuleset
      <3>2. q.list[q.pos] \in Urls
        BY <2>1, <2>4, ListElement
      <3>3. RefreshOK(Pushed(q, Cached(q.list[q.pos]))) /\ RefreshOK([q EXCEPT !.pc = "load"])
        <4>1. RefreshOK(Pushed(q, Cached(q.list[q.pos])))
          BY <1>1, <2>1, PushedOK
        <4>2. RefreshOK([q EXCEPT !.pc = "load"])
          BY <1>1, <2>1 DEF RefreshOK, Shaped, Fields
        <4>. QED
          BY <4>1, <4>2
      <3>4. CacheInv' /\ (\/ req' = [req EXCEPT ![r] = Pushed(q, Cached(q.list[q.pos]))]
                          \/ req' = [req EXCEPT ![r] = [q EXCEPT !.pc = "load"]])
        BY <3>1, <3>2, LookedUpInTime
      <3>. QED
        BY <3>3, <3>4, OneRefresh
    <2>. QED
      BY <2>1, <2>2, <2>3, <2>4, ListLength
  <1>4. CASE LoadedNext(r)
    <2>1. q.pc = "load" /\ q.list \in Lists /\ q.pos \in Nat \ {0}
      BY <1>1, <1>4 DEF LoadedNext, At, RefreshOK
    <2>2. CASE \E b : StoreItem(b) /\ req' = [req EXCEPT ![r] = Pushed(q, b)]
      <3>1. PICK b : StoreItem(b) /\ req' = [req EXCEPT ![r] = Pushed(q, b)]
        BY <2>2
      <3>2. UNCHANGED <<now, back, oldest>>
        BY <1>4 DEF LoadedNext
      <3>3. CacheInv'
        BY <3>1, <3>2, StoredHonestly DEF CacheInv, CachedInTime
      <3>4. RefreshesOK'
        BY <3>1, <2>1, <1>1, PushedOK, OneRefresh
      <3>. QED
        BY <3>3, <3>4
    <2>3. CASE /\ req' = [req EXCEPT ![r].pc = "next", ![r].pos = @ + 1,
                                     ![r].failed = Append(@, q.pos)]
               /\ UNCHANGED cache
      <3>1. req' = [req EXCEPT ![r] = [q EXCEPT !.pc = "next", !.pos = @ + 1,
                                                !.failed = Append(@, q.pos)]]
        BY <2>3, <1>1 DEF RefreshesOK, RefreshOK, Shaped, Fields
      <3>2. RefreshOK([q EXCEPT !.pc = "next", !.pos = @ + 1, !.failed = Append(@, q.pos)])
        <4>. DEFINE p == [q EXCEPT !.pc = "next", !.pos = @ + 1, !.failed = Append(@, q.pos)]
        <4>1. Shaped(p) /\ p.pc = "next" /\ p.list = q.list /\ p.pos = q.pos + 1
          BY <1>1 DEF RefreshOK, Shaped, Fields
        <4>. HIDE DEF p
        <4>2. RefreshOK(p)
          BY <4>1, <2>1 DEF RefreshOK
        <4>. QED
          BY <4>2 DEF p
      <3>3. RefreshesOK'
        BY <3>1, <3>2, OneRefresh
      <3>. QED
        BY <1>4, <2>3, <3>3
        DEF LoadedNext, CacheInv, ClockOK, StampsHonest, StampOK, CachedInTime
    <2>. QED
      BY <1>4, <2>2, <2>3 DEF LoadedNext
  <1>. QED
    BY <1>2, <1>3, <1>4

-----------------------------------------------------------------------------
(* The invariant, and what it means for what is used.                      *)

LEMMA StepKeeps == IInv /\ [Next]_vars => IInv'
  <1>. SUFFICES ASSUME IInv, [Next]_vars PROVE IInv'
    OBVIOUS
  <1>1. CASE Tick \/ SetBack
    BY <1>1, ClockSteps
  <1>2. ASSUME NEW r \in Requests,
               \/ BeginParallel(r) \/ Poll(r) \/ LoadedOne(r) \/ StoreOne(r) \/ Join(r)
        PROVE  IInv'
    BY <1>2, ParallelSteps
  <1>3. ASSUME NEW r \in Requests, BeginSequential(r) \/ NextRuleset(r) \/ LoadedNext(r)
        PROVE  IInv'
    BY <1>3, SequentialSteps
  <1>4. CASE UNCHANGED vars
    BY <1>4 DEF vars, IInv, CacheInv, ClockOK, StampsHonest, StampOK, CachedInTime,
                RefreshesOK, RefreshOK, Shaped
  <1>. QED
    BY <1>1, <1>2, <1>3, <1>4 DEF Next

\* A ruleset taken from the memory cache had been there for less than cache_ruleset
\* and what the system clock was set back by meanwhile, whatever the requests that
\* share the cache do and whichever of them stored it.
THEOREM CachedRulesetsAreInTime == Spec => []CachedInTime
  <1>1. IInv => CachedInTime
    BY DEF IInv, CacheInv
  <1>. QED
    BY <1>1, InitHolds, StepKeeps, PTL DEF Spec
-----------------------------------------------------------------------------
(* The order of a list.                                                    *)

\* A set of natural numbers has a smallest one.
LEMMA Least ==
    ASSUME NEW S \in SUBSET Nat, S # {}
    PROVE  \E m \in S : \A n \in S : m <= n
  <1>1. PICK m \in S : \A n \in S : ~(<<n, m>> \in OpToRel(<, Nat))
    BY NatLessThanWellFounded, WFMin, Zenon
  <1>2. \A n \in S : ~(n < m)
    BY <1>1, Zenon DEF OpToRel
  <1>. QED
    BY <1>2

\* The elements of S that are k-th in their order, and one of a set.
Rank(S, i) == {j \in S : j <= i}
OfRank(S, k) == {i \in S : Cardinality(Rank(S, i)) = k}
OneOf(T) == CHOOSE i \in T : TRUE

LEMMA SortedByRank ==
    ASSUME NEW S
    PROVE  Sorted(S) = [k \in 1 .. Cardinality(S) |-> OneOf(OfRank(S, k))]
  BY DEF Sorted, OneOf, OfRank, Rank

\* A number above all the others comes last.
LEMMA SortedLast ==
    ASSUME NEW S \in SUBSET Int, IsFiniteSet(S), NEW m \in Int, \A i \in S : i < m
    PROVE  LET T == S \cup {m} IN
           /\ Cardinality(T) = Cardinality(S) + 1 /\ Cardinality(S) \in Nat /\ IsFiniteSet(T)
           /\ \A k \in 1 .. Cardinality(S) : Sorted(T)[k] = Sorted(S)[k]
           /\ Sorted(T)[Cardinality(S) + 1] = m
  <1>. DEFINE T == S \cup {m}
              c == Cardinality(S)
  <1>1. c \in Nat /\ IsFiniteSet(T) /\ Cardinality(T) = c + 1
    <2>1. m \notin S
      OBVIOUS
    <2>. QED
      BY <2>1, FS_CardinalityType, FS_AddElement
  <1>2. \A i \in S : Rank(T, i) = Rank(S, i) /\ Cardinality(Rank(S, i)) <= c
    <2>. SUFFICES ASSUME NEW i \in S
                  PROVE  Rank(T, i) = Rank(S, i) /\ Cardinality(Rank(S, i)) <= c
      OBVIOUS
    <2>1. Rank(T, i) = Rank(S, i)
      BY DEF Rank
    <2>2. Rank(S, i) \subseteq S
      BY DEF Rank
    <2>. QED
      BY <2>1, <2>2, FS_Subset
  <1>3. Rank(T, m) = T
    <2>1. \A j \in T : j <= m
      OBVIOUS
    <2>. HIDE DEF T
    <2>. QED
      BY <2>1 DEF Rank
  <1>. HIDE DEF T, c
  <1>4. \A k \in 1 .. c : OfRank(T, k) = OfRank(S, k)
    <2>. SUFFICES ASSUME NEW k \in 1 .. c PROVE OfRank(T, k) = OfRank(S, k)
      OBVIOUS
    <2>1. m \notin OfRank(T, k)
      BY <1>1, <1>3 DEF OfRank
    <2>2. \A i \in S : i \in OfRank(T, k) <=> i \in OfRank(S, k)
      BY <1>2 DEF OfRank, T
    <2>3. OfRank(T, k) \subseteq S \cup {m} /\ OfRank(S, k) \subseteq S
      BY DEF OfRank, T
    <2>. QED
      BY <2>1, <2>2, <2>3
  <1>5. OfRank(T, c + 1) = {m}
    <2>1. \A i \in S : Cardinality(Rank(T, i)) # c + 1
      <3>1. \A i \in S : Cardinality(Rank(S, i)) \in Nat
        <4>1. \A i \in S : Rank(S, i) \subseteq S
          BY DEF Rank
        <4>. QED
          BY <4>1, FS_Subset, FS_CardinalityType
      <3>. QED
        BY <1>1, <1>2, <3>1
    <2>. QED
      BY <1>1, <1>3, <2>1 DEF OfRank, T
  <1>6. \A k \in 1 .. c : Sorted(T)[k] = Sorted(S)[k]
    <2>1. \A k \in 1 .. c : k \in 1 .. Cardinality(T)
      BY <1>1
    <2>2. Sorted(S) = [k \in 1 .. c |-> OneOf(OfRank(S, k))]
      BY SortedByRank DEF c
    <2>. QED
      BY <1>4, <2>1, <2>2, SortedByRank
  <1>7. Sorted(T)[c + 1] = m
    <2>1. c + 1 \in 1 .. Cardinality(T)
      BY <1>1
    <2>2. Sorted(T)[c + 1] = OneOf({m})
      BY <1>5, <2>1, SortedByRank
    <2>. QED
      BY <2>2 DEF OneOf
  <1>. QED
    BY <1>1, <1>6, <1>7 DEF T, c

\* The order has exactly the elements of the set, each before the greater ones.
InOrder(f, S) ==
    /\ \A k \in 1 .. Cardinality(S) : f[k] \in S
    /\ \A j, k \in 1 .. Cardinality(S) : j < k => f[j] < f[k]
    /\ \A i \in S : \E k \in 1 .. Cardinality(S) : f[k] = i

LEMMA SortedInOrder ==
    ASSUME NEW n \in Nat, NEW S \in SUBSET (1 .. n)
    PROVE  IsFiniteSet(S) /\ Cardinality(S) \in Nat /\ InOrder(Sorted(S), S)
  <1>. DEFINE Upto(m) == S \cap (1 .. m)
              wrong == {m \in 0 .. n : ~(IsFiniteSet(Upto(m)) /\ InOrder(Sorted(Upto(m)), Upto(m)))}
  <1>1. SUFFICES wrong = {}
    <2>1. Upto(n) = S
      OBVIOUS
    <2>2. n \notin wrong => IsFiniteSet(S) /\ InOrder(Sorted(S), S)
      BY <2>1
    <2>. QED
      BY <2>2, FS_CardinalityType
  <1>2. SUFFICES ASSUME wrong # {} PROVE FALSE
    OBVIOUS
  <1>3. PICK m \in wrong : \A j \in wrong : m <= j
    <2>1. wrong \in SUBSET Nat
      OBVIOUS
    <2>. HIDE DEF wrong
    <2>. QED
      BY <1>2, <2>1, Least
  <1>4. m \in 0 .. n /\ ~(IsFiniteSet(Upto(m)) /\ InOrder(Sorted(Upto(m)), Upto(m)))
    OBVIOUS
  <1>5. m # 0
    <2>1. ASSUME m = 0 PROVE FALSE
      <3>1. Upto(m) = {}
        BY <2>1
      <3>2. IsFiniteSet(Upto(m)) /\ Cardinality(Upto(m)) = 0
        BY <3>1, FS_EmptySet
      <3>. HIDE DEF Upto
      <3>. QED
        BY <1>4, <3>1, <3>2 DEF InOrder
    <2>. QED
      BY <2>1
  <1>. DEFINE Less == Upto(m - 1)
  <1>6. IsFiniteSet(Less) /\ InOrder(Sorted(Less), Less)
    <2>1. m - 1 \in 0 .. n /\ ~(m <= m - 1)
      BY <1>4, <1>5
    <2>2. m - 1 \notin wrong
      <3>. HIDE DEF wrong
      <3>. QED
        BY <1>3, <2>1
    <2>. QED
      BY <2>1, <2>2
  <1>7. CASE m \notin S
    <2>1. Upto(m) = Less
      BY <1>4, <1>7
    <2>. QED
      BY <1>4, <1>6, <2>1
  <1>8. CASE m \in S
    <2>. DEFINE T == Less \cup {m}
                c == Cardinality(Less)
    <2>1. Upto(m) = T /\ Less \in SUBSET Int /\ m \in Int /\ \A i \in Less : i < m
      BY <1>4, <1>8
    <2>. HIDE DEF Less, Upto
    <2>2. /\ Cardinality(T) = c + 1 /\ c \in Nat /\ IsFiniteSet(T)
          /\ \A k \in 1 .. c : Sorted(T)[k] = Sorted(Less)[k]
          /\ Sorted(T)[c + 1] = m
      BY <1>6, <2>1, SortedLast
    <2>3. InOrder(Sorted(T), T)
      <3>. DEFINE f == Sorted(T)
                  g == Sorted(Less)
      <3>1. /\ \A k \in 1 .. c : f[k] = g[k] /\ g[k] \in Less /\ f[k] < m
            /\ \A j, k \in 1 .. c : j < k => g[j] < g[k]
            /\ \A i \in Less : \E k \in 1 .. c : g[k] = i
        BY <1>6, <2>1, <2>2 DEF InOrder
      <3>2. f[c + 1] = m
        BY <2>2
      <3>. HIDE DEF f, g, c
      <3>3. \A k \in 1 .. c + 1 : k \in 1 .. c \/ k = c + 1
        BY <2>2
      <3>4. \A k \in 1 .. c + 1 : f[k] \in T
        BY <3>1, <3>2, <3>3
      <3>5. \A j, k \in 1 .. c + 1 : j < k => f[j] < f[k]
        BY <2>1, <2>2, <3>1, <3>2, <3>3
      <3>6. \A i \in T : \E k \in 1 .. c + 1 : f[k] = i
        BY <2>2, <3>1, <3>2
      <3>. QED
        BY <2>2, <3>4, <3>5, <3>6 DEF InOrder, f
    <2>. QED
      BY <1>4, <2>1, <2>2, <2>3
  <1>. QED
    BY <1>7, <1>8

\* The entries of some positions depend on the bodies at these positions.
LEMMA EntriesAgree ==
    ASSUME NEW n \in Nat, NEW S \in SUBSET (1 .. n), NEW a, NEW b, \A i \in S : a[i] = b[i]
    PROVE  Entries(S, a) = Entries(S, b)
  <1>1. \A k \in 1 .. Cardinality(S) : Sorted(S)[k] \in S
    BY SortedInOrder DEF InOrder
  <1>. QED
    BY <1>1 DEF Entries

\* A later position, and its entry, are appended.
LEMMA Appended ==
    ASSUME NEW m \in Nat \ {0}, NEW S \in SUBSET (1 .. m - 1), NEW a
    PROVE  /\ Sorted(S \cup {m}) = Append(Sorted(S), m)
           /\ Entries(S \cup {m}, a) = Append(Entries(S, a), Entry(m, a[m]))
  <1>. DEFINE T == S \cup {m}
              c == Cardinality(S)
              f == Sorted(S)
              g == Sorted(T)
  <1>1. IsFiniteSet(S)
    <2>1. m - 1 \in Nat
      OBVIOUS
    <2>. QED
      BY <2>1, SortedInOrder
  <1>2. Cardinality(T) = c + 1 /\ c \in Nat /\ (\A k \in 1 .. c : g[k] = f[k]) /\ g[c + 1] = m
    <2>1. S \in SUBSET Int /\ m \in Int /\ \A i \in S : i < m
      OBVIOUS
    <2>. QED
      BY <1>1, <2>1, SortedLast
  <1>3. f = [k \in 1 .. c |-> f[k]] /\ g = [k \in 1 .. c + 1 |-> g[k]]
    <2>. HIDE DEF T
    <2>. QED
      BY <1>2, SortedByRank
  <1>4. /\ Entries(S, a) = [k \in 1 .. c |-> Entry(f[k], a[f[k]])]
        /\ Entries(T, a) = [k \in 1 .. c + 1 |-> Entry(g[k], a[g[k]])]
    BY <1>2 DEF Entries
  <1>. HIDE DEF f, g, c, T
  <1>5. \A h, d : h = [k \in 1 .. c |-> h[k]] =>
                     Append(h, d) = [k \in 1 .. c + 1 |-> IF k = c + 1 THEN d ELSE h[k]]
    <2>. SUFFICES ASSUME NEW h, NEW d, h = [k \in 1 .. c |-> h[k]]
                  PROVE  Append(h, d) = [k \in 1 .. c + 1 |-> IF k = c + 1 THEN d ELSE h[k]]
      OBVIOUS
    <2>. DEFINE V == {h[k] : k \in 1 .. c} \cup {d}
    <2>1. h \in Seq(V) /\ Len(h) = c
      BY <1>2
    <2>. HIDE DEF V
    <2>. QED
      BY <1>2, <2>1
  <1>6. g = Append(f, m)
    <2>1. g = [k \in 1 .. c + 1 |-> IF k = c + 1 THEN m ELSE f[k]]
      BY <1>2, <1>3
    <2>. QED
      BY <1>3, <1>5, <2>1
  <1>7. Entries(T, a) = Append(Entries(S, a), Entry(m, a[m]))
    <2>. DEFINE h == Entries(S, a)
    <2>1. h = [k \in 1 .. c |-> h[k]] /\ \A k \in 1 .. c : h[k] = Entry(f[k], a[f[k]])
      BY <1>4
    <2>2. Entries(T, a) = [k \in 1 .. c + 1 |-> IF k = c + 1 THEN Entry(m, a[m]) ELSE h[k]]
      BY <1>2, <1>4, <2>1
    <2>. QED
      BY <1>5, <2>1, <2>2
  <1>. QED
    BY <1>6, <1>7 DEF f, g, T

-----------------------------------------------------------------------------
(* What a refresh has so far.                                              *)

\* The bodies the url at a position was loaded with.
BodiesFor(list, i, L) == {b \in L : b.url = list[i]}

\* The results of the futures, where L are the bodies that were loaded.
GotOK(q, L) ==
    /\ q.got = [i \in 1 .. Len(q.list) |-> q.got[i]]
    /\ \A i \in 1 .. Len(q.list) :
          IF q.list[i] = Inline THEN q.got[i] = None
          ELSE q.got[i] \in BodiesFor(q.list, i, L) \cup {None, Loading, Failed}

\* The sequential version has an entry or a failure for every position before the one
\* in hand, as if `body` had been known all along.
Told(q, body, L) ==
    LET before == 1 .. q.pos - 1 IN
    /\ body \in [1 .. Len(q.list) -> L \cup {Inline, None}]
    /\ \A i \in before : IF q.list[i] = Inline THEN body[i] = Inline
                         ELSE body[i] \in BodiesFor(q.list, i, L) \cup {None}
    /\ q.content = Entries({i \in before : body[i] # None}, body)
    /\ q.failed = Sorted({i \in before : body[i] = None})

RequestOK(q, L, parallel) ==
    /\ q.pc \in {"new", "join", "next", "load", "done", "panicked"}
    /\ IF q.pc = "new" THEN q.list = None ELSE q.list \in Lists
    /\ q.pc = "join" => parallel /\ GotOK(q, L) /\ q.content = InlineEntries(q.list)
    /\ q.hand # 0 =>
          /\ q.pc = "join" /\ q.hand \in 1 .. Len(q.list)
          /\ q.got[q.hand] \in BodiesFor(q.list, q.hand, L)
    /\ q.pc \in {"next", "load"} =>
          /\ ~parallel /\ q.hand = 0 /\ q.pos \in 1 .. Len(q.list) + 1
          /\ \E body : Told(q, body, L)
    /\ q.pc = "load" => q.pos <= Len(q.list) /\ q.list[q.pos] # Inline

\* What the cache holds for a url was loaded from it.
CacheSound(store, L) ==
    \A u \in Urls : store[u] # None => store[u].body \in L /\ store[u].body.url = u

AnswersInv ==
    /\ native \in BOOLEAN /\ loaded \subseteq Bodies /\ CacheSound(cache, loaded)
    /\ \A r \in Requests : RequestOK(req[r], loaded, native)

\* More bodies may have been loaded meanwhile.
LEMMA StillOK ==
    ASSUME NEW q, NEW L, NEW M, L \subseteq M, NEW parallel, RequestOK(q, L, parallel)
    PROVE  RequestOK(q, M, parallel)
  <1>1. \A i : BodiesFor(q.list, i, L) \subseteq BodiesFor(q.list, i, M)
    BY DEF BodiesFor
  <1>2. GotOK(q, L) => GotOK(q, M)
    BY <1>1 DEF GotOK
  <1>3. \A body : Told(q, body, L) => Told(q, body, M)
    <2>. SUFFICES ASSUME NEW body, Told(q, body, L) PROVE Told(q, body, M)
      OBVIOUS
    <2>1. body \in [1 .. Len(q.list) -> M \cup {Inline, None}]
      BY DEF Told
    <2>. QED
      BY <1>1, <2>1 DEF Told
  <1>. QED
    BY <1>1, <1>2, <1>3 DEF RequestOK

\* One position more has been dealt with.
LEMMA ToldMore ==
    ASSUME NEW q, NEW p, NEW L, NEW v, NEW body, Told(q, body, L),
           Len(q.list) \in Nat, q.pos \in 1 .. Len(q.list),
           IF q.list[q.pos] = Inline THEN v = Inline
           ELSE v \in BodiesFor(q.list, q.pos, L) \cup {None},
           p.list = q.list, p.pos = q.pos + 1,
           p.content = IF v = None THEN q.content ELSE Append(q.content, Entry(q.pos, v)),
           p.failed = IF v = None THEN Append(q.failed, q.pos) ELSE q.failed
    PROVE  Told(p, [body EXCEPT ![q.pos] = v], L)
  <1>. DEFINE n == q.pos
              before == 1 .. n - 1
              after == 1 .. p.pos - 1
              more == [body EXCEPT ![n] = v]
              ok == {i \in before : body[i] # None}
              bad == {i \in before : body[i] = None}
  <1>1. /\ n \in Nat \ {0} /\ after = before \cup {n} /\ n \notin before
        /\ ok \in SUBSET before /\ bad \in SUBSET before
    OBVIOUS
  <1>2. /\ more \in [1 .. Len(q.list) -> L \cup {Inline, None}]
        /\ more[n] = v /\ \A i \in before : more[i] = body[i]
    <2>1. v \in L \cup {Inline, None}
      BY DEF BodiesFor
    <2>. QED
      BY <2>1 DEF Told
  <1>3. q.content = Entries(ok, body) /\ q.failed = Sorted(bad)
    BY DEF Told
  <1>4. Entries(ok, body) = Entries(ok, more)
    <2>1. n - 1 \in Nat /\ ok \in SUBSET (1 .. n - 1) /\ \A i \in ok : body[i] = more[i]
      BY <1>1, <1>2
    <2>. HIDE DEF ok, more
    <2>. QED
      BY <2>1, EntriesAgree
  <1>5. \A i \in after : IF p.list[i] = Inline THEN more[i] = Inline
                        ELSE more[i] \in BodiesFor(p.list, i, L) \cup {None}
    <2>. HIDE DEF more
    <2>. QED
      BY <1>1, <1>2 DEF Told
  <1>. HIDE DEF more
  <1>6. CASE v = None
    <2>1. {i \in after : more[i] # None} = ok /\ {i \in after : more[i] = None} = bad \cup {n}
      BY <1>1, <1>2, <1>6
    <2>2. p.content = Entries(ok, more) /\ p.failed = Append(Sorted(bad), n)
      BY <1>3, <1>4, <1>6
    <2>3. Sorted(bad \cup {n}) = Append(Sorted(bad), n)
      <3>. HIDE DEF bad
      <3>. QED
        BY <1>1, Appended
    <2>. HIDE DEF ok, bad
    <2>. QED
      BY <1>2, <1>5, <2>1, <2>2, <2>3 DEF Told, more
  <1>7. CASE v # None
    <2>1. {i \in after : more[i] # None} = ok \cup {n} /\ {i \in after : more[i] = None} = bad
      BY <1>1, <1>2, <1>7
    <2>2. p.content = Append(Entries(ok, more), Entry(n, more[n])) /\ p.failed = Sorted(bad)
      BY <1>2, <1>3, <1>4, <1>7
    <2>3. Entries(ok \cup {n}, more) = Append(Entries(ok, more), Entry(n, more[n]))
      <3>. HIDE DEF ok
      <3>. QED
        BY <1>1, Appended
    <2>. HIDE DEF ok, bad
    <2>. QED
      BY <1>2, <1>5, <2>1, <2>2, <2>3 DEF Told, more
  <1>. QED
    BY <1>6, <1>7

-----------------------------------------------------------------------------
(* What a step is to the service.                                          *)

\* One body may be loaded in a step.
Loads == loaded' = loaded \/ \E b \in Bodies : loaded' = loaded \cup {b}

\* Nothing the caller sees.
Quiet(r, p) ==
    /\ req' = [req EXCEPT ![r] = p] /\ native' = native /\ Loads
    /\ p.list = req[r].list /\ req[r].pc # "done" /\ p.pc # "done"

Asks(r, p) ==
    /\ req' = [req EXCEPT ![r] = p] /\ native' = native /\ loaded' = loaded
    /\ req[r].list = None /\ p.list \in Lists
    /\ req[r].pc # "done" /\ p.pc # "done"

Permitted(list, body) ==
    /\ body \in [1 .. Len(list) -> loaded \cup {Inline, None}]
    /\ \A i \in DOMAIN body : IF list[i] = Inline THEN body[i] = Inline
                              ELSE body[i] # None => body[i] # Inline /\ body[i].url = list[i]

Answers(r, p) ==
    /\ req' = [req EXCEPT ![r] = p] /\ native' = native /\ loaded' = loaded
    /\ p.list = req[r].list /\ p.list \in Lists
    /\ req[r].pc # "done" /\ p.pc = "done"
    /\ \E body : /\ Permitted(p.list, body)
                 /\ [content |-> p.content, failed |-> p.failed] = Service!Outcome(p.list, body)

Visible(r, p) == Quiet(r, p) \/ Asks(r, p) \/ Answers(r, p)

\* A step of one request keeps the others as they are.
LEMMA OthersStay ==
    ASSUME IInv, AnswersInv, NEW r \in Requests, NEW p, Visible(r, p),
           RequestOK(p, loaded', native), CacheSound(cache', loaded')
    PROVE  AnswersInv'
  <1>1. req' = [s \in Requests |-> IF s = r THEN p ELSE req[s]]
    BY DEF Visible, Quiet, Asks, Answers, IInv, RefreshesOK
  <1>2. native' = native /\ loaded \subseteq loaded' /\ loaded' \subseteq Bodies
    BY DEF Visible, Quiet, Asks, Answers, Loads, AnswersInv
  <1>3. \A s \in Requests : RequestOK(req[s], loaded', native)
    BY <1>2, StillOK DEF AnswersInv
  <1>4. \A s \in Requests : RequestOK(req'[s], loaded', native')
    BY <1>1, <1>2, <1>3
  <1>. QED
    BY <1>2, <1>4 DEF AnswersInv

\* It is a step of the service, or none.
LEMMA ServiceStep ==
    ASSUME IInv, AnswersInv, NEW r \in Requests, NEW p, Visible(r, p)
    PROVE  [Service!Next]_(Service!serviceVars)
  <1>. DEFINE asked  == [s \in Requests |-> req[s].list]
              answer == [s \in Requests |->
                            IF At(s, "done")
                            THEN [content |-> req[s].content, failed |-> req[s].failed]
                            ELSE None]
  <1>1. req' = [s \in Requests |-> IF s = r THEN p ELSE req[s]]
    BY DEF Visible, Quiet, Asks, Answers, IInv, RefreshesOK
  <1>2. asked' = [s \in Requests |-> IF s = r THEN p.list ELSE asked[s]]
    BY <1>1
  <1>3. answer' = [s \in Requests |->
                      IF s = r
                      THEN IF p.pc = "done" THEN [content |-> p.content, failed |-> p.failed]
                           ELSE None
                      ELSE answer[s]]
    BY <1>1 DEF At
  <1>4. asked[r] = req[r].list /\ (req[r].pc # "done" => answer[r] = None)
    BY DEF At
  <1>5. asked = [s \in Requests |-> asked[s]] /\ answer = [s \in Requests |-> answer[s]]
    OBVIOUS
  <1>6. CASE Quiet(r, p)
    <2>. HIDE DEF asked, answer
    <2>1. asked' = asked /\ answer' = answer
      BY <1>2, <1>3, <1>4, <1>5, <1>6 DEF Quiet
    <2>2. native' = native /\ Loads
      BY <1>6 DEF Quiet
    <2>. QED
      BY <2>1, <2>2 DEF Loads, Service!Next, Service!Load, Service!serviceVars, Service!Bodies,
                        Bodies, asked, answer
  <1>7. CASE Asks(r, p)
    <2>. HIDE DEF asked, answer
    <2>1. answer' = answer /\ asked' = [asked EXCEPT ![r] = p.list] /\ asked[r] = None
      BY <1>2, <1>3, <1>4, <1>5, <1>7 DEF Asks
    <2>2. Service!Ask(r)
      BY <1>7, <2>1 DEF Asks, Service!Ask, asked, answer
    <2>. QED
      BY <2>2 DEF Service!Next
  <1>8. CASE Answers(r, p)
    <2>1. PICK body : /\ Permitted(p.list, body)
                      /\ [content |-> p.content, failed |-> p.failed]
                            = Service!Outcome(p.list, body)
      BY <1>8 DEF Answers
    <2>. HIDE DEF asked, answer
    <2>2. /\ asked' = asked /\ asked[r] = p.list /\ asked[r] # None /\ answer[r] = None
          /\ answer' = [answer EXCEPT ![r] = Service!Outcome(asked[r], body)]
      BY <1>2, <1>3, <1>4, <1>5, <1>8, <2>1, RulesetAssumption DEF Answers
    <2>3. Permitted(asked[r], body)
      BY <2>1, <2>2
    <2>4. native' = native /\ loaded' = loaded
      BY <1>8 DEF Answers
    <2>5. Service!Answer(r)
      BY <2>2, <2>3, <2>4 DEF Service!Answer, Permitted, asked, answer
    <2>. QED
      BY <2>5 DEF Service!Next
  <1>. QED
    BY <1>6, <1>7, <1>8 DEF Visible

\* The order of the service is the order of the refresh.
LEMMA SameOrder ==
    /\ \A S : Service!Sorted(S) = Sorted(S)
    /\ \A S, body : Service!Entries(S, body) = Entries(S, body)
  <1>1. \A S : Service!Cardinality(S) = Cardinality(S)
    BY Zenon DEF Service!Cardinality, Cardinality
  <1>2. \A S : Service!Sorted(S) = Sorted(S)
    <2>. SUFFICES ASSUME NEW S PROVE Service!Sorted(S) = Sorted(S)
      OBVIOUS
    <2>. DEFINE theirs(k) == {m \in S : Service!Cardinality({j \in S : j <= m}) = k}
    <2>1. \A k : theirs(k) = OfRank(S, k)
      BY <1>1 DEF OfRank, Rank
    <2>2. Service!Sorted(S) = [k \in 1 .. Service!Cardinality(S) |-> OneOf(theirs(k))]
      BY DEF Service!Sorted, OneOf
    <2>. HIDE DEF theirs
    <2>. QED
      BY <1>1, <2>1, <2>2, SortedByRank
  <1>3. \A S, body : Service!Entries(S, body) = Entries(S, body)
    BY <1>1, <1>2, Zenon DEF Service!Entries, Entries, Entry
  <1>. QED
    BY <1>2, <1>3
-----------------------------------------------------------------------------
(* What each step shows.                                                   *)

\* The refresh p is what the step of request r makes of it.
Shown(r) == \E p : /\ Visible(r, p) /\ RequestOK(p, loaded', native)
                   /\ CacheSound(cache', loaded')

LEMMA BeginParallelShows ==
    ASSUME IInv, AnswersInv, NEW r \in Requests, BeginParallel(r)
    PROVE  Shown(r)
  <1>1. PICK list \in Lists :
          req' = [req EXCEPT ![r] = [NewRefresh EXCEPT !.pc = "join", !.list = list,
                                        !.got = [i \in 1 .. Len(list) |-> None],
                                        !.content = InlineEntries(list)]]
    BY DEF BeginParallel
  <1>. DEFINE p == [NewRefresh EXCEPT !.pc = "join", !.list = list,
                                      !.got = [i \in 1 .. Len(list) |-> None],
                                      !.content = InlineEntries(list)]
  <1>2. /\ p.pc = "join" /\ p.list = list /\ p.hand = 0 /\ p.content = InlineEntries(list)
        /\ p.got = [i \in 1 .. Len(list) |-> None]
    BY DEF NewRefresh
  <1>3. req[r].pc = "new" /\ req[r].list = None /\ native /\ UNCHANGED <<native, loaded, cache>>
    BY DEF BeginParallel, At, AnswersInv, RequestOK
  <1>4. req' = [req EXCEPT ![r] = p]
    BY <1>1
  <1>. HIDE DEF p
  <1>5. Asks(r, p)
    BY <1>2, <1>3, <1>4 DEF Asks
  <1>6. RequestOK(p, loaded', native)
    BY <1>2, <1>3 DEF RequestOK, GotOK
  <1>. QED
    BY <1>3, <1>5, <1>6 DEF Visible, Shown, AnswersInv, CacheSound

LEMMA BeginSequentialShows ==
    ASSUME IInv, AnswersInv, NEW r \in Requests, BeginSequential(r)
    PROVE  Shown(r)
  <1>1. PICK list \in Lists :
          req' = [req EXCEPT ![r] = [NewRefresh EXCEPT !.pc = "next", !.list = list, !.pos = 1]]
    BY DEF BeginSequential
  <1>. DEFINE p == [NewRefresh EXCEPT !.pc = "next", !.list = list, !.pos = 1]
              none == [i \in 1 .. Len(list) |-> None]
  <1>2. /\ p.pc = "next" /\ p.list = list /\ p.hand = 0 /\ p.pos = 1
        /\ p.content = <<>> /\ p.failed = <<>>
    BY DEF NewRefresh
  <1>3. /\ req[r].pc = "new" /\ req[r].list = None /\ ~native
        /\ UNCHANGED <<native, loaded, cache>>
    BY DEF BeginSequential, At, AnswersInv, RequestOK
  <1>4. req' = [req EXCEPT ![r] = p]
    BY <1>1
  <1>. HIDE DEF p
  <1>5. Asks(r, p)
    BY <1>2, <1>3, <1>4 DEF Asks
  <1>6. Told(p, none, loaded')
    <2>1. Entries({}, none) = <<>> /\ Sorted({}) = <<>>
      <3>1. Cardinality({}) = 0
        BY FS_EmptySet
      <3>. QED
        BY <3>1 DEF Entries, Sorted
    <2>2. 1 .. p.pos - 1 = {}
      BY <1>2
    <2>. QED
      BY <1>2, <2>1, <2>2 DEF Told
  <1>7. RequestOK(p, loaded', native)
    BY <1>2, <1>3, <1>6, ListLength DEF RequestOK
  <1>. QED
    BY <1>3, <1>5, <1>7 DEF Visible, Shown, AnswersInv, CacheSound

\* What the cache gives for a url was loaded from it.
LEMMA CachedBody ==
    ASSUME AnswersInv, NEW list, NEW i, list[i] \in Urls, Cached(list[i]) # None
    PROVE  Cached(list[i]) \in BodiesFor(list, i, loaded)
  BY DEF AnswersInv, CacheSound, Cached, GetIfValid, BodiesFor

\* A result changes for one position.
LEMMA GotOne ==
    ASSUME NEW q, NEW p, NEW L, NEW parallel, RequestOK(q, L, parallel), q.pc = "join",
           NEW i \in 1 .. Len(q.list), q.list[i] # Inline,
           NEW v \in BodiesFor(q.list, i, L) \cup {Loading, Failed}, p.list = q.list,
           p.got = [q.got EXCEPT ![i] = v], p.pc = "join", p.content = q.content,
           p.hand = 0 \/ v \in BodiesFor(q.list, i, L), p.hand \in {0, i}
    PROVE  RequestOK(p, L, parallel)
  <1>1. GotOK(q, L) /\ parallel /\ q.content = InlineEntries(q.list) /\ q.list \in Lists
    BY DEF RequestOK
  <1>2. p.got = [j \in 1 .. Len(p.list) |-> IF j = i THEN v ELSE q.got[j]]
    BY <1>1 DEF GotOK
  <1>3. GotOK(p, L)
    BY <1>1, <1>2 DEF GotOK
  <1>. QED
    BY <1>1, <1>2, <1>3 DEF RequestOK

LEMMA PollShows ==
    ASSUME IInv, AnswersInv, NEW r \in Requests, Poll(r)
    PROVE  Shown(r)
  <1>. DEFINE q == req[r]
  <1>1. RequestOK(q, loaded, native) /\ q.pc = "join" /\ q.hand = 0 /\ q.list \in Lists
    BY DEF AnswersInv, Poll, At, RequestOK
  <1>2. PICK i \in Unpolled(r) :
          Lookup(r, i, [q EXCEPT !.got[i] = Cached(q.list[i])], [q EXCEPT !.got[i] = Loading])
    BY DEF Poll
  <1>3. i \in 1 .. Len(q.list) /\ q.list[i] # Inline /\ q.list[i] \in Urls
    BY <1>1, ListElement DEF Unpolled, Positions
  <1>4. UNCHANGED <<native, loaded, cache>>
    BY <1>2 DEF Lookup
  <1>5. PICK v \in BodiesFor(q.list, i, loaded) \cup {Loading, Failed} :
           req' = [req EXCEPT ![r] = [q EXCEPT !.got[i] = v]]
    BY <1>2, <1>3, CachedBody DEF Lookup
  <1>. DEFINE p == [q EXCEPT !.got[i] = v]
  <1>6. /\ p.list = q.list /\ p.pc = "join" /\ p.content = q.content /\ p.hand = 0
        /\ p.got = [q.got EXCEPT ![i] = v]
    BY <1>1 DEF IInv, RefreshesOK, RefreshOK, Shaped, Fields
  <1>7. req' = [req EXCEPT ![r] = p]
    BY <1>5
  <1>. HIDE DEF p
  <1>8. Quiet(r, p)
    BY <1>1, <1>4, <1>6, <1>7 DEF Quiet, Loads
  <1>9. RequestOK(p, loaded, native)
    BY <1>1, <1>3, <1>6, GotOne
  <1>. QED
    BY <1>4, <1>8, <1>9 DEF Visible, Shown, AnswersInv, CacheSound
LEMMA LoadedOneShows ==
    ASSUME IInv, AnswersInv, NEW r \in Requests, LoadedOne(r)
    PROVE  Shown(r)
  <1>. DEFINE q == req[r]
  <1>1. RequestOK(q, loaded, native) /\ q.pc = "join" /\ q.hand = 0 /\ q.list \in Lists
    BY DEF AnswersInv, LoadedOne, At, RequestOK
  <1>2. PICK i \in 1 .. Len(q.list) :
          /\ q.got[i] = Loading
          /\ \/ LET b == [url |-> q.list[i], at |-> now] IN
                /\ loaded' = loaded \cup {b}
                /\ req' = [req EXCEPT ![r].got[i] = b, ![r].hand = i]
             \/ /\ \/ req' = [req EXCEPT ![r].got[i] = Failed]
                   \/ req' = [req EXCEPT ![r] = [NewRefresh EXCEPT !.pc = "panicked",
                                                                   !.list = q.list]]
                /\ UNCHANGED loaded
    BY DEF LoadedOne, Positions
  <1>3. q.list[i] # Inline
    <2>1. Loading # None
      BY RulesetAssumption
    <2>. QED
      BY <1>1, <1>2, <2>1 DEF RequestOK, GotOK
  <1>4. q.list[i] \in Urls /\ UNCHANGED <<native, cache>>
    BY <1>1, <1>3, ListElement DEF LoadedOne
  <1>5. CASE /\ loaded' = loaded \cup {[url |-> q.list[i], at |-> now]}
             /\ req' = [req EXCEPT ![r].got[i] = [url |-> q.list[i], at |-> now], ![r].hand = i]
    <2>. DEFINE b == [url |-> q.list[i], at |-> now]
                p == [q EXCEPT !.got[i] = b, !.hand = i]
    <2>1. b \in Bodies /\ b.url = q.list[i]
      BY <1>4 DEF Bodies, IInv, CacheInv, ClockOK
    <2>2. req' = [req EXCEPT ![r] = p]
      BY <1>5 DEF IInv, RefreshesOK, RefreshOK, Shaped, Fields
    <2>3. /\ p.list = q.list /\ p.pc = "join" /\ p.content = q.content /\ p.hand = i
          /\ p.got = [q.got EXCEPT ![i] = b]
      BY <1>1 DEF IInv, RefreshesOK, RefreshOK, Shaped, Fields
    <2>4. loaded' = loaded \cup {b}
      BY <1>5
    <2>. HIDE DEF p, b
    <2>5. Quiet(r, p)
      BY <1>1, <1>4, <2>1, <2>2, <2>3, <2>4 DEF Quiet, Loads
    <2>6. RequestOK(q, loaded', native) /\ b \in BodiesFor(q.list, i, loaded')
      BY <1>1, <2>1, <2>4, StillOK DEF BodiesFor
    <2>7. RequestOK(p, loaded', native)
      <3>. DEFINE L == loaded'
      <3>1. SUFFICES RequestOK(p, L, native)
        OBVIOUS
      <3>2. RequestOK(q, L, native) /\ b \in BodiesFor(q.list, i, L)
        BY <2>6
      <3>3. q.pc = "join" /\ i \in 1 .. Len(q.list) /\ q.list[i] # Inline /\ p.hand \in {0, i}
        BY <1>1, <1>3, <2>3
      <3>4. b \in BodiesFor(q.list, i, L) \cup {Loading, Failed}
        BY <3>2
      <3>. HIDE DEF L, q
      <3>. QED
        BY <2>3, <3>2, <3>3, <3>4, GotOne
    <2>8. CacheSound(cache', loaded')
      BY <1>4, <2>4 DEF AnswersInv, CacheSound
    <2>. QED
      BY <2>5, <2>7, <2>8 DEF Visible, Shown
  <1>6. CASE req' = [req EXCEPT ![r].got[i] = Failed] /\ UNCHANGED loaded
    <2>. DEFINE p == [q EXCEPT !.got[i] = Failed]
    <2>1. req' = [req EXCEPT ![r] = p]
      BY <1>6 DEF IInv, RefreshesOK, RefreshOK, Shaped, Fields
    <2>2. /\ p.list = q.list /\ p.pc = "join" /\ p.content = q.content /\ p.hand = 0
          /\ p.got = [q.got EXCEPT ![i] = Failed]
      BY <1>1 DEF IInv, RefreshesOK, RefreshOK, Shaped, Fields
    <2>. HIDE DEF p
    <2>3. Quiet(r, p)
      BY <1>1, <1>4, <1>6, <2>1, <2>2 DEF Quiet, Loads
    <2>4. RequestOK(p, loaded, native)
      BY <1>1, <1>3, <2>2, GotOne
    <2>. QED
      BY <1>4, <1>6, <2>3, <2>4 DEF Visible, Shown, AnswersInv, CacheSound
  <1>7. CASE /\ req' = [req EXCEPT ![r] = [NewRefresh EXCEPT !.pc = "panicked",
                                                             !.list = q.list]]
             /\ UNCHANGED loaded
    <2>. DEFINE p == [NewRefresh EXCEPT !.pc = "panicked", !.list = q.list]
    <2>1. p.list = q.list /\ p.pc = "panicked" /\ p.hand = 0
      BY DEF NewRefresh
    <2>2. req' = [req EXCEPT ![r] = p]
      BY <1>7
    <2>. HIDE DEF p
    <2>3. Quiet(r, p)
      BY <1>1, <1>4, <1>7, <2>1, <2>2 DEF Quiet, Loads
    <2>4. RequestOK(p, loaded, native)
      BY <1>1, <2>1, RulesetAssumption DEF RequestOK
    <2>. QED
      BY <1>4, <1>7, <2>3, <2>4 DEF Visible, Shown, AnswersInv, CacheSound
  <1>. QED
    BY <1>2, <1>5, <1>6, <1>7

\* A body that was loaded for a url is what the cache then holds for it.
LEMMA StoredSoundly ==
    ASSUME IInv, NEW L, NEW M, L \subseteq M, CacheSound(cache, L),
           NEW b \in M, b.url \in Urls, StoreItem(b)
    PROVE  CacheSound(cache', M)
  <1>. DEFINE item == [body |-> b, stamp |-> clock, stored |-> now]
  <1>1. cache' = cache \/ cache' = [cache EXCEPT ![b.url] = item]
    BY DEF StoreItem
  <1>2. cache = [u \in Urls |-> cache[u]] /\ item.body = b
    BY DEF IInv, CacheInv, StampsHonest
  <1>. HIDE DEF item
  <1>3. ASSUME NEW u \in Urls, cache'[u] # None
        PROVE  cache'[u].body \in M /\ cache'[u].body.url = u
    <2>1. CASE cache'[u] = cache[u]
      BY <1>3, <2>1 DEF CacheSound
    <2>2. CASE cache'[u] = item /\ u = b.url
      BY <1>2, <2>2
    <2>. QED
      BY <1>1, <1>2, <2>1, <2>2
  <1>. QED
    BY <1>3 DEF CacheSound

LEMMA StoreOneShows ==
    ASSUME IInv, AnswersInv, NEW r \in Requests, StoreOne(r)
    PROVE  Shown(r)
  <1>. DEFINE q == req[r]
              b == q.got[q.hand]
              p == [q EXCEPT !.hand = 0]
  <1>1. RequestOK(q, loaded, native) /\ q.hand # 0 /\ UNCHANGED <<native, loaded>>
    BY DEF AnswersInv, StoreOne
  <1>2. /\ q.pc = "join" /\ q.hand \in 1 .. Len(q.list) /\ q.list \in Lists
        /\ b \in BodiesFor(q.list, q.hand, loaded)
    BY <1>1 DEF RequestOK
  <1>3. b \in loaded /\ b.url \in Urls
    BY <1>2 DEF BodiesFor, AnswersInv, Bodies
  <1>4. req' = [req EXCEPT ![r] = p]
    BY DEF StoreOne
  <1>5. /\ p.list = q.list /\ p.pc = "join" /\ p.content = q.content /\ p.hand = 0
        /\ p.got = q.got
    BY <1>2 DEF IInv, RefreshesOK, RefreshOK, Shaped, Fields
  <1>. HIDE DEF p
  <1>6. Quiet(r, p)
    BY <1>1, <1>2, <1>4, <1>5 DEF Quiet, Loads
  <1>7. RequestOK(p, loaded, native)
    BY <1>1, <1>2, <1>5 DEF RequestOK, GotOK
  <1>8. CacheSound(cache', loaded)
    <2>1. StoreItem(b) /\ CacheSound(cache, loaded)
      BY DEF StoreOne, AnswersInv
    <2>. HIDE DEF b
    <2>. QED
      BY <1>3, <2>1, StoredSoundly
  <1>. QED
    BY <1>1, <1>6, <1>7, <1>8 DEF Visible, Shown

\* The results of a parallel refresh are an outcome the service permits.
LEMMA JoinShows ==
    ASSUME IInv, AnswersInv, NEW r \in Requests, Join(r)
    PROVE  Shown(r)
  <1>. DEFINE q == req[r]
              n == Len(q.list)
              fetched == {i \in 1 .. n : q.got[i] \notin {None, Failed}}
              failed == {i \in 1 .. n : q.got[i] = Failed}
              inline == {i \in 1 .. n : q.list[i] = Inline}
              p == [q EXCEPT !.pc = "done", !.content = q.content \o Entries(fetched, q.got),
                             !.failed = Sorted(failed)]
              body == [i \in 1 .. n |-> IF q.list[i] = Inline THEN Inline
                                       ELSE IF q.got[i] = Failed THEN None ELSE q.got[i]]
  <1>1. RequestOK(q, loaded, native) /\ q.pc = "join" /\ q.hand = 0 /\ q.list \in Lists
    BY DEF AnswersInv, Join, At, RequestOK
  <1>2. native /\ GotOK(q, loaded) /\ q.content = Entries(inline, q.list) /\ n \in Nat
    BY <1>1, ListLength DEF RequestOK, InlineEntries
  <1>3. UNCHANGED <<native, loaded, cache>>
    BY DEF Join
  <1>4. req' = [req EXCEPT ![r] = p]
    BY DEF Join, Positions, IInv, RefreshesOK, RefreshOK, Shaped, Fields
  <1>5. /\ p.list = q.list /\ p.pc = "done" /\ p.hand = 0 /\ p.failed = Sorted(failed)
        /\ p.content = q.content \o Entries(fetched, q.got)
    BY <1>1 DEF IInv, RefreshesOK, RefreshOK, Shaped, Fields
  <1>. HIDE DEF p
  <1>6. \A i \in 1 .. n : IF q.list[i] = Inline THEN q.got[i] = None
                         ELSE q.got[i] \in BodiesFor(q.list, i, loaded) \cup {Failed}
    <2>1. \A i \in 1 .. n : q.got[i] # Loading /\ (q.list[i] = Inline \/ q.got[i] # None)
      BY DEF Join, Positions, Unpolled
    <2>. QED
      BY <1>2, <2>1 DEF GotOK
  <1>7. \A i \in 1 .. n : q.got[i] \in BodiesFor(q.list, i, loaded) =>
                             q.got[i] \notin {Inline, Failed, None}
    BY BodyAssumption DEF BodiesFor, AnswersInv
  <1>8. Permitted(q.list, body)
    <2>1. body \in [1 .. n -> loaded \cup {Inline, None}]
      BY <1>6 DEF BodiesFor
    <2>2. ASSUME NEW i \in 1 .. n
          PROVE  IF q.list[i] = Inline THEN body[i] = Inline
                 ELSE body[i] # None => body[i] # Inline /\ body[i].url = q.list[i]
      BY <1>6, <1>7, <2>2 DEF BodiesFor
    <2>. HIDE DEF body
    <2>. QED
      BY <2>1, <2>2 DEF Permitted
  <1>9. /\ {i \in DOMAIN body : q.list[i] = Inline} = inline
        /\ {i \in DOMAIN body : body[i] # None} \ inline = fetched
        /\ DOMAIN body \ {i \in DOMAIN body : body[i] # None} = failed
    <2>1. DOMAIN body = 1 .. n
      OBVIOUS
    <2>2. \A i \in 1 .. n :
             /\ body[i] = None <=> q.got[i] = Failed
             /\ i \notin inline => (body[i] # None <=> i \in fetched)
             /\ i \in inline => i \notin fetched
      BY <1>6, <1>7, RulesetAssumption
    <2>3. {i \in DOMAIN body : q.list[i] = Inline} = inline
      BY <2>1
    <2>4. inline \subseteq 1 .. n /\ fetched \subseteq 1 .. n /\ failed \subseteq 1 .. n
      OBVIOUS
    <2>5. \A i \in 1 .. n : i \in failed <=> q.got[i] = Failed
      OBVIOUS
    <2>. HIDE DEF body, n, inline, fetched, failed
    <2>6. {i \in 1 .. n : body[i] # None} \ inline = fetched
      BY <2>2, <2>4
    <2>7. (1 .. n) \ {i \in 1 .. n : body[i] # None} = failed
      BY <2>2, <2>4, <2>5
    <2>. QED
      BY <2>1, <2>3, <2>6, <2>7
  <1>10. Entries(inline, body) = Entries(inline, q.list)
    <2>1. inline \in SUBSET (1 .. n) /\ \A i \in inline : body[i] = q.list[i]
      OBVIOUS
    <2>. HIDE DEF inline, body, n
    <2>. QED
      BY <1>2, <2>1, EntriesAgree
  <1>11. Entries(fetched, body) = Entries(fetched, q.got)
    <2>1. fetched \in SUBSET (1 .. n) /\ \A i \in fetched : body[i] = q.got[i]
      BY <1>6
    <2>. HIDE DEF fetched, body, n
    <2>. QED
      BY <1>2, <2>1, EntriesAgree
  <1>12. [content |-> p.content, failed |-> p.failed] = Service!Outcome(q.list, body)
    <2>. HIDE DEF inline, fetched, failed, body, q
    <2>. QED
      BY <1>2, <1>5, <1>9, <1>10, <1>11, SameOrder DEF Service!Outcome
  <1>13. Answers(r, p)
    <2>. HIDE DEF body
    <2>. QED
      BY <1>1, <1>3, <1>4, <1>5, <1>8, <1>12 DEF Answers
  <1>14. RequestOK(p, loaded, native)
    BY <1>1, <1>5 DEF RequestOK
  <1>. QED
    BY <1>3, <1>13, <1>14 DEF Visible, Shown, AnswersInv, CacheSound

\* A ruleset that is inline, or was found or loaded, is pushed; a failure is reported.
LEMMA Pushes ==
    ASSUME NEW q, NEW p, NEW L, RequestOK(q, L, FALSE), q.pc \in {"next", "load"},
           q.pos <= Len(q.list), NEW v,
           IF q.list[q.pos] = Inline THEN v = Inline
           ELSE v \in BodiesFor(q.list, q.pos, L) \cup {None},
           p.list = q.list, p.pos = q.pos + 1, p.pc = "next", p.hand = q.hand,
           p.content = IF v = None THEN q.content ELSE Append(q.content, Entry(q.pos, v)),
           p.failed = IF v = None THEN Append(q.failed, q.pos) ELSE q.failed
    PROVE  RequestOK(p, L, FALSE)
  <1>1. /\ q.list \in Lists /\ q.hand = 0 /\ q.pos \in 1 .. Len(q.list) + 1
        /\ \E body : Told(q, body, L)
    BY DEF RequestOK
  <1>2. Len(q.list) \in Nat /\ q.pos \in 1 .. Len(q.list)
    BY <1>1, ListLength
  <1>3. PICK body : Told(q, body, L)
    BY <1>1
  <1>4. Told(p, [body EXCEPT ![q.pos] = v], L)
    BY <1>2, <1>3, ToldMore
  <1>5. p.pos \in 1 .. Len(p.list) + 1
    BY <1>2
  <1>. QED
    BY <1>1, <1>4, <1>5 DEF RequestOK

LEMMA PushedFields ==
    ASSUME NEW q, RefreshOK(q), NEW v
    PROVE  LET p == Pushed(q, v) IN
           /\ p.list = q.list /\ p.pos = q.pos + 1 /\ p.pc = "next" /\ p.hand = q.hand
           /\ p.content = Append(q.content, Entry(q.pos, v)) /\ p.failed = q.failed
  BY DEF Pushed, RefreshOK, Shaped, Fields

LEMMA NextRulesetShows ==
    ASSUME IInv, AnswersInv, NEW r \in Requests, NextRuleset(r)
    PROVE  Shown(r)
  <1>. DEFINE q == req[r]
  <1>1. /\ RequestOK(q, loaded, FALSE) /\ q.pc = "next" /\ native = FALSE /\ q.hand = 0
        /\ q.list \in Lists /\ q.pos \in 1 .. Len(q.list) + 1 /\ Len(q.list) \in Nat
        /\ \E body : Told(q, body, loaded)
    BY ListLength DEF AnswersInv, NextRuleset, At, RequestOK
  <1>2. Shaped(q) /\ RefreshOK(q)
    BY DEF IInv, RefreshesOK, RefreshOK
  <1>3. UNCHANGED <<native, loaded, cache>>
    BY DEF NextRuleset, Lookup
  <1>4. CASE q.pos > Len(q.list)
    <2>. DEFINE p == [q EXCEPT !.pc = "done"]
    <2>1. req' = [req EXCEPT ![r] = p]
      BY <1>4 DEF NextRuleset
    <2>2. /\ p.pc = "done" /\ p.list = q.list /\ p.hand = 0 /\ p.content = q.content
          /\ p.failed = q.failed
      BY <1>1, <1>2 DEF Shaped, Fields
    <2>. HIDE DEF p
    <2>3. PICK body : Told(q, body, loaded)
      BY <1>1
    <2>4. 1 .. q.pos - 1 = 1 .. Len(q.list)
      BY <1>1, <1>4
    <2>5. Permitted(q.list, body)
      <3>1. \A i \in 1 .. Len(q.list) :
               IF q.list[i] = Inline THEN body[i] = Inline
               ELSE body[i] \in BodiesFor(q.list, i, loaded) \cup {None}
        BY <2>3, <2>4 DEF Told
      <3>2. body \in [1 .. Len(q.list) -> loaded \cup {Inline, None}]
        BY <2>3 DEF Told
      <3>. QED
        BY <3>1, <3>2, BodyAssumption DEF Permitted, BodiesFor, AnswersInv
    <2>6. [content |-> p.content, failed |-> p.failed] = Service!Outcome(q.list, body)
      <3>1. DOMAIN body = 1 .. Len(q.list)
        BY <2>3 DEF Told
      <3>2. /\ q.content = Entries({i \in 1 .. Len(q.list) : body[i] # None}, body)
            /\ q.failed = Sorted({i \in 1 .. Len(q.list) : body[i] = None})
        BY <2>3, <2>4 DEF Told
      <3>3. (1 .. Len(q.list)) \ {i \in 1 .. Len(q.list) : body[i] # None}
               = {i \in 1 .. Len(q.list) : body[i] = None}
        OBVIOUS
      <3>. HIDE DEF q
      <3>. QED
        BY <1>1, <2>2, <3>1, <3>2, <3>3, SameOrder DEF Service!Outcome
    <2>7. Answers(r, p)
      BY <1>1, <1>3, <2>1, <2>2, <2>5, <2>6 DEF Answers
    <2>8. RequestOK(p, loaded, native)
      BY <1>1, <2>2 DEF RequestOK
    <2>. QED
      BY <1>3, <2>7, <2>8 DEF Visible, Shown, AnswersInv, CacheSound
  <1>5. ASSUME q.pos <= Len(q.list), NEW v, v # None,
               IF q.list[q.pos] = Inline THEN v = Inline
               ELSE v \in BodiesFor(q.list, q.pos, loaded),
               req' = [req EXCEPT ![r] = Pushed(q, v)]
        PROVE  Shown(r)
    <2>. DEFINE p == Pushed(q, v)
    <2>1. /\ p.list = q.list /\ p.pos = q.pos + 1 /\ p.pc = "next" /\ p.hand = q.hand
          /\ p.content = Append(q.content, Entry(q.pos, v)) /\ p.failed = q.failed
      BY <1>2, PushedFields
    <2>2. req' = [req EXCEPT ![r] = p]
      BY <1>5
    <2>. HIDE DEF p
    <2>3. RequestOK(p, loaded, FALSE)
      <3>. HIDE DEF q
      <3>. QED
        BY <1>1, <1>5, <2>1, Pushes
    <2>4. Quiet(r, p)
      BY <1>1, <1>3, <2>1, <2>2 DEF Quiet, Loads
    <2>. QED
      BY <1>1, <1>3, <2>3, <2>4 DEF Visible, Shown, AnswersInv, CacheSound
  <1>6. CASE q.pos <= Len(q.list) /\ q.list[q.pos] = Inline
    <2>1. req' = [req EXCEPT ![r] = Pushed(q, Inline)]
      BY <1>1, <1>6 DEF NextRuleset
    <2>. QED
      BY <1>5, <1>6, <2>1, RulesetAssumption
  <1>7. CASE q.pos <= Len(q.list) /\ q.list[q.pos] # Inline
    <2>1. Lookup(r, q.pos, Pushed(q, Cached(q.list[q.pos])), [q EXCEPT !.pc = "load"])
      BY <1>1, <1>7 DEF NextRuleset
    <2>2. q.list[q.pos] \in Urls
      BY <1>1, <1>7, ListElement
    <2>3. CASE Cached(q.list[q.pos]) # None
      <3>1. req' = [req EXCEPT ![r] = Pushed(q, Cached(q.list[q.pos]))]
        BY <2>1, <2>3 DEF Lookup
      <3>. QED
        BY <1>5, <1>7, <2>2, <2>3, <3>1, CachedBody
    <2>4. CASE Cached(q.list[q.pos]) = None
      <3>. DEFINE p == [q EXCEPT !.pc = "load"]
      <3>1. req' = [req EXCEPT ![r] = p]
        BY <2>1, <2>4 DEF Lookup
      <3>2. /\ p.pc = "load" /\ p.list = q.list /\ p.hand = 0 /\ p.pos = q.pos
            /\ p.content = q.content /\ p.failed = q.failed
        BY <1>1, <1>2 DEF Shaped, Fields
      <3>. HIDE DEF p
      <3>3. Quiet(r, p)
        BY <1>1, <1>3, <3>1, <3>2 DEF Quiet, Loads
      <3>4. RequestOK(p, loaded, FALSE)
        <4>1. PICK body : Told(q, body, loaded)
          BY <1>1
        <4>2. Told(p, body, loaded)
          BY <3>2, <4>1 DEF Told
        <4>. QED
          BY <1>1, <1>7, <3>2, <4>2 DEF RequestOK
      <3>. QED
        BY <1>1, <1>3, <3>3, <3>4 DEF Visible, Shown, AnswersInv, CacheSound
    <2>. QED
      BY <2>3, <2>4
  <1>. QED
    BY <1>1, <1>4, <1>6, <1>7

LEMMA LoadedNextShows ==
    ASSUME IInv, AnswersInv, NEW r \in Requests, LoadedNext(r)
    PROVE  Shown(r)
  <1>. DEFINE q == req[r]
  <1>1. /\ RequestOK(q, loaded, FALSE) /\ q.pc = "load" /\ native = FALSE
        /\ q.list \in Lists /\ q.pos <= Len(q.list) /\ q.list[q.pos] # Inline
        /\ q.pos \in 1 .. Len(q.list)
    BY ListLength DEF AnswersInv, LoadedNext, At, RequestOK
  <1>2. Shaped(q) /\ RefreshOK(q) /\ q.list[q.pos] \in Urls
    BY <1>1, ListElement DEF IInv, RefreshesOK, RefreshOK
  <1>3. native' = native
    BY DEF LoadedNext
  <1>4. CASE LET b == [url |-> q.list[q.pos], at |-> now] IN
             /\ loaded' = loaded \cup {b}
             /\ StoreItem(b)
             /\ req' = [req EXCEPT ![r] = Pushed(q, b)]
    <2>. DEFINE b == [url |-> q.list[q.pos], at |-> now]
                p == Pushed(q, b)
    <2>1. b \in Bodies /\ b.url = q.list[q.pos]
      BY <1>2 DEF Bodies, IInv, CacheInv, ClockOK
    <2>2. loaded' = loaded \cup {b} /\ StoreItem(b) /\ req' = [req EXCEPT ![r] = p]
      BY <1>4
    <2>3. /\ p.list = q.list /\ p.pos = q.pos + 1 /\ p.pc = "next" /\ p.hand = q.hand
          /\ p.content = Append(q.content, Entry(q.pos, b)) /\ p.failed = q.failed
      BY <1>2, PushedFields
    <2>. HIDE DEF b, p
    <2>4. b # None
      BY <2>1, BodyAssumption
    <2>5. RequestOK(p, loaded', FALSE)
      <3>. DEFINE L == loaded'
      <3>1. SUFFICES RequestOK(p, L, FALSE)
        OBVIOUS
      <3>2. RequestOK(q, L, FALSE) /\ b \in BodiesFor(q.list, q.pos, L)
        BY <1>1, <2>1, <2>2, StillOK DEF BodiesFor
      <3>. HIDE DEF L, q
      <3>. QED
        BY <1>1, <2>3, <2>4, <3>2, Pushes
    <2>6. CacheSound(cache', loaded')
      <3>. DEFINE M == loaded'
      <3>1. loaded \subseteq M /\ b \in M /\ CacheSound(cache, loaded)
        BY <2>2 DEF AnswersInv
      <3>. HIDE DEF M
      <3>2. CacheSound(cache', M)
        BY <1>2, <2>1, <2>2, <3>1, StoredSoundly
      <3>. QED
        BY <3>2 DEF M
    <2>7. Quiet(r, p)
      BY <1>1, <1>3, <2>1, <2>2, <2>3 DEF Quiet, Loads
    <2>. QED
      BY <1>1, <2>5, <2>6, <2>7 DEF Visible, Shown
  <1>5. CASE /\ req' = [req EXCEPT ![r].pc = "next", ![r].pos = @ + 1,
                                   ![r].failed = Append(@, q.pos)]
             /\ UNCHANGED <<cache, loaded>>
    <2>. DEFINE p == [q EXCEPT !.pc = "next", !.pos = @ + 1, !.failed = Append(@, q.pos)]
    <2>1. req' = [req EXCEPT ![r] = p]
      BY <1>5 DEF IInv, RefreshesOK, RefreshOK, Shaped, Fields
    <2>2. /\ p.list = q.list /\ p.pos = q.pos + 1 /\ p.pc = "next" /\ p.hand = q.hand
          /\ p.content = q.content /\ p.failed = Append(q.failed, q.pos)
      BY <1>2 DEF Shaped, Fields
    <2>. HIDE DEF p
    <2>3. RequestOK(p, loaded, FALSE)
      <3>. HIDE DEF q
      <3>. QED
        BY <1>1, <2>2, Pushes
    <2>4. Quiet(r, p)
      BY <1>1, <1>3, <1>5, <2>1, <2>2 DEF Quiet, Loads
    <2>. QED
      BY <1>1, <1>5, <2>3, <2>4 DEF Visible, Shown, AnswersInv, CacheSound
  <1>. QED
    BY <1>4, <1>5 DEF LoadedNext

-----------------------------------------------------------------------------
(* The refinement.                                                         *)

LEMMA AnswersStart == Init => AnswersInv
  BY DEF Init, AnswersInv, CacheSound, RequestOK, NewRefresh

\* Every step of a request is a step of the service or changes nothing it shows.
LEMMA StepRefines ==
    ASSUME IInv, AnswersInv, [Next]_vars
    PROVE  AnswersInv' /\ [Service!Next]_(Service!serviceVars)
  <1>1. CASE Tick \/ SetBack
    BY <1>1 DEF Tick, SetBack, AnswersInv, CacheSound, Service!serviceVars, At
  <1>2. ASSUME NEW r \in Requests, Shown(r)
        PROVE  AnswersInv' /\ [Service!Next]_(Service!serviceVars)
    BY <1>2, OthersStay, ServiceStep DEF Shown
  <1>3. CASE UNCHANGED vars
    BY <1>3 DEF vars, AnswersInv, CacheSound, Service!serviceVars, At
  <1>. QED
    BY <1>1, <1>2, <1>3, BeginParallelShows, PollShows, LoadedOneShows, StoreOneShows, JoinShows,
       BeginSequentialShows, NextRulesetShows, LoadedNextShows DEF Next

\* Whatever the order in which the fetches of any number of requests end, whatever they
\* put into the shared cache and whichever of them fail: a request gets one entry per
\* ruleset that is inline or could be loaded, with a body of its own url, in the order
\* of its build, and a report of the others.
THEOREM RefreshKeepsItsPromise == Spec => ImplementsRulesetService
  <1>1. Init => Service!Init
    BY DEF Init, Service!Init, NewRefresh, At
  <1>. QED
    BY <1>1, InitHolds, AnswersStart, StepKeeps, StepRefines, PTL
    DEF Spec, ImplementsRulesetService, Service!Spec

=============================================================================
