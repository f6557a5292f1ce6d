------------------------------ MODULE SubCache ------------------------------
(***************************************************************************)
(* GET /{alias}: renderAliasSubscription and its stale-while-revalidate    *)
(* cache.  Every alias has one cache record in KV (cache:sub:{alias}), so  *)
(* the module is about one alias.  A pull runs between awaits, and so does *)
(* the background refresh it may hand to waitUntil; any number of them are *)
(* in flight together, with no lock and no single flight.                  *)
(*                                                                         *)
(* Data: a configuration stands for what resolveAlias returns, version     *)
(* stamps included, and for the user agent the sources are asked with;     *)
(* UrlOf gives the converter request it yields (target, source urls,       *)
(* template ref, options, user agent), which several configurations may    *)
(* share.  A body is known by the request it converts, its kind ("ok", an  *)
(* "empty" 2xx/3xx body, or a "bad" status), the pull it was made for and  *)
(* the time it was made.                                                   *)
(***************************************************************************)
EXTENDS Integers, Sequences

CONSTANTS Pulls,             \* the requests of clients
          Confs, Urls, UrlOf,
          FreshEnv, StaleEnv,        \* SUB_CACHE_FRESH_SECONDS, SUB_CACHE_STALE_SECONDS
          TtlSlack, MinTtl,          \* the 120 s and the 60 s of getCachePolicy
          NotFound, NoSource,        \* the answers 404 and 400
          Timeout, Failure,          \* the answers 504 and 500
          None,
          MaxTime            \* bound: the clock of the model stops there

Unresolved == {NotFound, NoSource}
Failures == {Timeout, Failure}

ASSUME SubCacheAssumption ==
    /\ FreshEnv \in Nat \ {0} /\ StaleEnv \in Nat \ {0}
    /\ TtlSlack \in Nat \ {0} /\ MinTtl \in Nat
    /\ MaxTime \in Nat
    /\ UrlOf \in [Confs -> Urls]
    /\ None \notin Confs \cup Urls \cup Unresolved \cup Failures
    /\ NotFound # NoSource /\ Timeout # Failure
    /\ Unresolved \cap (Confs \cup Urls \cup Failures) = {}

VARIABLES
    now,       \* Date.now()
    kv,        \* the record under cache:sub:{alias}, or None
    pull,      \* the handler of each pull
    refresh,   \* the background refresh each pull may have started
    logs,      \* the pull log entries of each pull, oldest first
    made       \* history: every answer the converter has given

vars == <<now, kv, pull, refresh, logs, made>>

Times == 0 .. MaxTime
Kinds == {"ok", "empty", "bad"}

Bodies == [url : Urls, kind : Kinds, by : Pulls \cup {None}, at : Times]

\* getCachePolicy: the stale window is never shorter than the fresh one and the
\* record outlives both.
MaxOf(a, b) == IF a >= b THEN a ELSE b
FreshMs == FreshEnv
StaleMs == MaxOf(StaleEnv, FreshEnv)
Ttl     == MaxOf(StaleMs + TtlSlack, MinTtl)

\* buildSignature: everything the converter request is built from, and the stamps.
Signature(c) == c

\* shouldCacheResponse looks at the status only.
Cacheable(b) == b.kind # "bad"

Records == [sig : Confs, body : Bodies, updatedAt : Times, expiry : Int]

\* readCache: an expired record is gone, one with an empty body is ignored.
ReadCache == IF kv # None /\ now < kv.expiry /\ kv.body.kind # "empty" THEN kv ELSE None

PullSteps == {"new", "lookup", "fetch", "body", "store", "log",
              "errlog", "done", "crashed"}

NewPull == [pc |-> "new", conf |-> None, t0 |-> 0, via |-> "none", at |-> 0,
            result |-> None]

NoRefresh == [pc |-> "none", body |-> None, at |-> 0]

-----------------------------------------------------------------------------
\* The cache may hold a record of an earlier pull.
Init ==
    /\ now = 0
    /\ \/ kv = None /\ made = {}
       \/ \E c \in Confs, k \in {"ok", "empty"} :
             LET b == [url |-> UrlOf[c], kind |-> k, by |-> None, at |-> 0] IN
             /\ kv = [sig |-> Signature(c), body |-> b, updatedAt |-> 0, expiry |-> Ttl]
             /\ made = {b}
    /\ pull = [r \in Pulls |-> NewPull]
    /\ refresh = [r \in Pulls |-> NoRefresh]
    /\ logs = [r \in Pulls |-> <<>>]

Tick ==
    /\ now < MaxTime
    /\ now' = now + 1
    /\ UNCHANGED <<kv, pull, refresh, logs, made>>

At(r, step) == pull[r].pc = step

\* An exception goes to the catch block, which logs and answers 504 or 500.
Throw(r, why) ==
    pull' = [pull EXCEPT ![r].pc = "errlog", ![r].via = "error", ![r].result = why]

\* resolveAlias answers: null or "no enabled source", which are logged and
\* returned, or a configuration.  Admin handlers write the registry at any time,
\* so it may be any.  nowMs is taken here, before the cache is read.
Resolve(r) ==
    /\ At(r, "new")
    /\ \/ \E c \in Unresolved :
             pull' = [pull EXCEPT ![r].pc = "log", ![r].conf = c, ![r].result = c]
       \/ \E c \in Confs :
             pull' = [pull EXCEPT ![r].pc = "lookup", ![r].conf = c, ![r].t0 = now]
       \/ Throw(r, Failure)
    /\ UNCHANGED <<now, kv, refresh, logs, made>>

\* The cache answers: a record of this signature is served when it is fresh,
\* served and refreshed in the background when it is stale (waitUntil itself may
\* be unavailable), and otherwise the converter is asked.
Lookup(r) ==
    LET p == pull[r]
        c == ReadCache
        match == c # None /\ c.sig = Signature(p.conf)
        age == p.t0 - c.updatedAt
        Serve(via) == pull' = [pull EXCEPT ![r].pc = "log", ![r].via = via,
                                           ![r].result = c.body]
    IN
    /\ At(r, "lookup")
    /\ \/ /\ match /\ age <= FreshMs
          /\ Serve("hit")
          /\ UNCHANGED refresh
       \/ /\ match /\ age > FreshMs /\ age <= StaleMs
          /\ Serve("stale")
          /\ \/ refresh' = [refresh EXCEPT ![r].pc = "fetch"]
             \/ UNCHANGED refresh
       \/ /\ match => age > StaleMs
          /\ pull' = [pull EXCEPT ![r].pc = "fetch", ![r].via = "miss"]
          /\ UNCHANGED refresh
       \/ Throw(r, Failure) /\ UNCHANGED refresh
    /\ UNCHANGED <<now, kv, logs, made>>

-----------------------------------------------------------------------------
(* fetchAndBuildResponse.                                                  *)

\* The converter sends its headers, which ends the abort timer.
Headers(r) ==
    /\ At(r, "fetch")
    /\ pull' = [pull EXCEPT ![r].pc = "body"]
    /\ UNCHANGED <<now, kv, refresh, logs, made>>

\* Mutant: the timer is never armed.
TimedOut_NotArmed(r) == At(r, "fetch") /\ FALSE /\ UNCHANGED vars

\* The abort timer fires before the headers are there.
TimedOut(r) ==
    /\ At(r, "fetch")
    /\ Throw(r, Timeout)
    /\ UNCHANGED <<now, kv, refresh, logs, made>>

\* The service binding fails.
FetchFails(r) ==
    /\ At(r, "fetch")
    /\ Throw(r, Failure)
    /\ UNCHANGED <<now, kv, refresh, logs, made>>

\* The body is read to its end; what may be cached is stamped at once.
Body(r) ==
    LET p == pull[r] IN
    /\ At(r, "body")
    /\ \E k \in Kinds :
         LET b == [url |-> UrlOf[p.conf], kind |-> k, by |-> r, at |-> now] IN
         /\ made' = made \cup {b}
         /\ pull' = [pull EXCEPT ![r].pc = IF Cacheable(b) THEN "store" ELSE "log",
                                 ![r].at = IF Cacheable(b) THEN now ELSE p.at,
                                 ![r].result = b]
    /\ UNCHANGED <<now, kv, refresh, logs>>

BodyFails(r) ==
    /\ At(r, "body")
    /\ Throw(r, Failure)
    /\ UNCHANGED <<now, kv, refresh, logs, made>>

\* Mutant: the stamp of the record is its expiry.
Put_ExpiryAsStamp(sig, b, at) ==
    kv' = [sig |-> sig, body |-> b, updatedAt |-> at + Ttl, expiry |-> now + Ttl]

Put(sig, b, at) == kv' = [sig |-> sig, body |-> b, updatedAt |-> at, expiry |-> now + Ttl]

\* Mutant: the record is stamped when it is put, not when its body was read.
Store_StampedLate(r) ==
    /\ At(r, "store")
    /\ Put(Signature(pull[r].conf), pull[r].result, now)
    /\ pull' = [pull EXCEPT ![r].pc = "log"]
    /\ UNCHANGED <<now, refresh, logs, made>>

\* writeCache.  A put that throws may have been applied all the same.
Store(r) ==
    LET p == pull[r] IN
    /\ At(r, "store")
    /\ \/ /\ Put(Signature(p.conf), p.result, p.at)
          /\ pull' = [pull EXCEPT ![r].pc = "log"]
       \/ /\ Put(Signature(p.conf), p.result, p.at) \/ UNCHANGED kv
          /\ Throw(r, Failure)
    /\ UNCHANGED <<now, refresh, logs, made>>

-----------------------------------------------------------------------------
(* The pull log and the answer.                                            *)

LogEntry(r, status) == logs' = [logs EXCEPT ![r] = Append(@, status)]

\* The handler returns: its locals are gone, what it resolved and answered is kept.
Return(r, step, result) ==
    pull' = [pull EXCEPT ![r] = [NewPull EXCEPT !.pc = step, !.conf = pull[r].conf,
                                                !.result = result]]

\* Mutant: the log is left to run after the answer, where it may be lost.
Log_NotAwaited(r) ==
    /\ At(r, "log")
    /\ LogEntry(r, pull[r].result) \/ UNCHANGED logs
    /\ Return(r, "done", pull[r].result)
    /\ UNCHANGED <<now, kv, refresh, made>>

\* appendPullLog is awaited before the answer is returned.
Log(r) ==
    /\ At(r, "log")
    /\ \/ LogEntry(r, pull[r].result) /\ Return(r, "done", pull[r].result)
       \/ /\ LogEntry(r, pull[r].result) \/ UNCHANGED logs
          /\ Throw(r, Failure)
    /\ UNCHANGED <<now, kv, refresh, made>>

\* The log of the catch block.  When it throws too the framework answers 500.
ErrLog(r) ==
    /\ At(r, "errlog")
    /\ \/ LogEntry(r, pull[r].result) /\ Return(r, "done", pull[r].result)
       \/ /\ LogEntry(r, pull[r].result) \/ UNCHANGED logs
          /\ Return(r, "crashed", Failure)
    /\ UNCHANGED <<now, kv, refresh, made>>

-----------------------------------------------------------------------------
(* refreshCacheInBackground: the same fetch, with the signature and the    *)
(* request of the pull that started it; every failure is swallowed.        *)

EndRefresh(r) == refresh' = [refresh EXCEPT ![r] = [NoRefresh EXCEPT !.pc = "done"]]

RefreshHeaders(r) ==
    /\ refresh[r].pc = "fetch"
    /\ refresh' = [refresh EXCEPT ![r].pc = "body"]
    /\ UNCHANGED <<now, kv, pull, logs, made>>

RefreshFails(r) ==
    /\ refresh[r].pc \in {"fetch", "body"}
    /\ EndRefresh(r)
    /\ UNCHANGED <<now, kv, pull, logs, made>>

RefreshBody(r) ==
    /\ refresh[r].pc = "body"
    /\ \E k \in Kinds :
         LET b == [url |-> UrlOf[pull[r].conf], kind |-> k, by |-> r, at |-> now] IN
         /\ made' = made \cup {b}
         /\ IF Cacheable(b)
            THEN refresh' = [refresh EXCEPT ![r] = [pc |-> "store", body |-> b, at |-> now]]
            ELSE EndRefresh(r)
    /\ UNCHANGED <<now, kv, pull, logs>>

\* Mutant: the refresh signs its body with what the alias resolves to by then.
RefreshStore_Resigned(r) ==
    /\ refresh[r].pc = "store"
    /\ \E c \in Confs : Put(Signature(c), refresh[r].body, refresh[r].at)
    /\ EndRefresh(r)
    /\ UNCHANGED <<now, pull, logs, made>>

RefreshStore(r) ==
    /\ refresh[r].pc = "store"
    /\ Put(Signature(pull[r].conf), refresh[r].body, refresh[r].at) \/ UNCHANGED kv
    /\ EndRefresh(r)
    /\ UNCHANGED <<now, pull, logs, made>>

-----------------------------------------------------------------------------
Next ==
    \/ Tick
    \/ \E r \in Pulls :
          \/ Resolve(r) \/ Lookup(r) \/ Headers(r) \/ TimedOut(r) \/ FetchFails(r)
          \/ Body(r) \/ BodyFails(r) \/ Store(r) \/ Log(r) \/ ErrLog(r)
          \/ RefreshHeaders(r) \/ RefreshFails(r) \/ RefreshBody(r) \/ RefreshStore(r)

Spec == Init /\ [][Next]_vars

\* The handler goes on when its KV call returns, and the abort timer fires when
\* the headers do not come; nothing makes the converter send headers or a body.
Progress(r) == Lookup(r) \/ TimedOut(r) \/ Store(r) \/ Log(r) \/ ErrLog(r)

FairSpec == Spec /\ \A r \in Pulls : WF_vars(Progress(r))

-----------------------------------------------------------------------------
(* Properties.                                                             *)

Answered(r) == pull[r].pc \in {"done", "crashed"}

Results == {None} \cup Unresolved \cup Failures \cup Bodies

\* Type invariant: a stored stamp is a time of the clock, and a pull has at most
\* two entries in the log.
TypeOK ==
    /\ now \in Times
    /\ kv \in {None} \cup Records
    /\ pull \in [Pulls -> [pc : PullSteps, conf : {None} \cup Confs \cup Unresolved,
                           t0 : Times, via : {"none", "hit", "stale", "miss", "error"},
                           at : Times, result : Results]]
    /\ refresh \in [Pulls -> [pc : {"none", "fetch", "body", "store", "done"},
                              body : {None} \cup Bodies, at : Times]]
    /\ logs \in [Pulls -> Seq(Results)] /\ \A r \in Pulls : Len(logs[r]) <= 2
    /\ made \subseteq Bodies

\* A body served as a hit was converted at most the fresh window before the pull
\* looked at the clock, a stale one at most the stale window: the record's stamp
\* is as old as its body however long the put took and whoever stored it.
FreshEnough ==
    \A r \in Pulls : At(r, "log") =>
        /\ pull[r].via = "hit" => pull[r].t0 - pull[r].result.at <= FreshMs
        /\ pull[r].via = "stale" => pull[r].t0 - pull[r].result.at <= StaleMs

\* A pull that was answered by the handler is in the pull log with that answer,
\* and an answer that is no 5xx is its only entry: the log is appended before the
\* response is returned, and an append that fails turns the answer into a 500.
ReplyLogged ==
    \A r \in Pulls : At(r, "done") =>
        /\ logs[r] # <<>> /\ logs[r][Len(logs[r])] = pull[r].result
        /\ pull[r].result \notin Failures => Len(logs[r]) = 1

\* Caching is transparent but for age: with any number of pulls and refreshes in
\* flight while the configuration changes, a pull is answered with a conversion of
\* the request its own configuration stands for, and a failed or empty conversion
\* is only ever seen by the pull it was made for.
Service ==
    INSTANCE PullService WITH
        seen  <- [r \in Pulls |-> IF pull[r].conf \in Confs THEN UrlOf[pull[r].conf]
                                  ELSE pull[r].conf],
        reply <- [r \in Pulls |-> IF Answered(r) THEN pull[r].result ELSE None]
ImplementsPullService == Service!Spec

\* A pull is answered unless the converter sends headers and then stalls in the
\* body: the abort timer is cleared when the headers arrive, so only the wait for
\* headers is bounded.
PullsAnswered ==
    \A r \in Pulls : At(r, "lookup") ~> (Answered(r) \/ At(r, "body"))
=============================================================================
