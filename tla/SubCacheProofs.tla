---------------------------- MODULE SubCacheProofs ----------------------------
(***************************************************************************)
(* Theorems about SubCache, for any number of pulls, any configurations    *)
(* and any cache windows.  The invariant says that the record in KV is     *)
(* sound for its own signature, and follows a body from the converter to   *)
(* the answer: through the pull that fetched it, through the refresh, and  *)
(* through the record to the pulls it is served to.                        *)
(***************************************************************************)
EXTENDS SubCache, TLAPS

PullRows == [pc : PullSteps, conf : {None} \cup Confs \cup Unresolved, t0 : Times,
             via : {"none", "hit", "stale", "miss", "error"}, at : Times, result : Results]

RefreshRows == [pc : {"none", "fetch", "body", "store", "done"},
                body : {None} \cup Bodies, at : Times]

\* b is a conversion of the request of configuration c, and its status may be cached.
ConversionOf(b, c) == b \in made /\ b.url = UrlOf[c] /\ b.kind # "bad"

RecordSound ==
    kv # None => ConversionOf(kv.body, kv.sig) /\ kv.updatedAt = kv.body.at

\* What a pull holds at each step, and what it may answer.
PullSound(r) ==
    LET p == pull[r] IN
    /\ p.pc = "new" => p.conf = None /\ p.via = "none"
    /\ p.pc \in {"lookup", "fetch", "body", "store"} => p.conf \in Confs
    /\ p.pc \in {"fetch", "body", "store"} => p.via = "miss"
    /\ p.pc = "store" => ConversionOf(p.result, p.conf) /\ p.result.by = r
                           /\ p.at = p.result.at
    /\ p.pc \in {"log", "done"} =>
          \/ p.result \in Unresolved /\ p.conf = p.result /\ p.via = "none"
          \/ p.pc = "done" /\ p.result \in Failures
          \/ /\ p.conf \in Confs /\ p.result \in made /\ p.result.url = UrlOf[p.conf]
             /\ p.result.by = r \/ p.result.kind = "ok"
    /\ p.pc = "log" /\ p.via = "hit" => p.t0 - p.result.at <= FreshMs
    /\ p.pc = "log" /\ p.via = "stale" => p.t0 - p.result.at <= StaleMs
    /\ p.pc \in {"errlog", "crashed"} => p.result \in Failures

\* A refresh works for the configuration of a pull that has resolved it.
RefreshSound(r) ==
    /\ refresh[r].pc \in {"fetch", "body", "store"} => pull[r].conf \in Confs
    /\ refresh[r].pc = "store" => ConversionOf(refresh[r].body, pull[r].conf)
                                    /\ refresh[r].at = refresh[r].body.at

LogSound(r) ==
    /\ pull[r].pc \in {"new", "lookup", "fetch", "body", "store", "log"} => logs[r] = <<>>
    /\ pull[r].pc = "errlog" => Len(logs[r]) <= 1
    /\ pull[r].pc = "done" =>
          /\ logs[r] # <<>> /\ logs[r][Len(logs[r])] = pull[r].result
          /\ pull[r].result \notin Failures => Len(logs[r]) = 1

Sound == \A r \in Pulls : PullSound(r) /\ RefreshSound(r) /\ LogSound(r)

CacheInv == TypeOK /\ RecordSound /\ Sound

-----------------------------------------------------------------------------
\* The windows of getCachePolicy are nested, whatever the environment says.
LEMMA PolicyBounds == FreshMs \in Nat /\ StaleMs \in Nat /\ FreshMs <= StaleMs /\ Ttl \in Nat
  BY SubCacheAssumption DEF FreshMs, StaleMs, Ttl, MaxOf

\* A pull that has not begun is well typed.
LEMMA NewPullTyped == NewPull \in PullRows
  BY SubCacheAssumption DEF NewPull, PullRows, PullSteps, Times, Results

\* The parts of the invariant for one pull.
LEMMA PullTyped ==
  ASSUME CacheInv, NEW r \in Pulls
  PROVE  /\ pull \in [Pulls -> PullRows] /\ pull[r] \in PullRows
         /\ refresh \in [Pulls -> RefreshRows] /\ refresh[r] \in RefreshRows
         /\ PullSound(r) /\ RefreshSound(r) /\ LogSound(r)
  BY DEF CacheInv, TypeOK, PullRows, RefreshRows, Sound

\* What readCache returns is the record, and its body is no empty one.
LEMMA ReadCacheSound ==
  ASSUME CacheInv, ReadCache # None
  PROVE  /\ ReadCache = kv /\ kv \in Records
         /\ ConversionOf(kv.body, kv.sig) /\ kv.updatedAt = kv.body.at
         /\ kv.body.kind = "ok"
  <1>1. ReadCache = kv /\ kv # None /\ kv.body.kind # "empty"
    BY DEF ReadCache
  <1>2. kv \in Records
    BY <1>1 DEF CacheInv, TypeOK
  <1>3. kv.body.kind \in Kinds
    BY <1>2 DEF Records, Bodies
  <1> QED
    BY <1>1, <1>2, <1>3 DEF CacheInv, RecordSound, ConversionOf, Kinds

\* The invariant holds with an empty cache and with a record of an earlier pull.
LEMMA CacheInvInit == Init => CacheInv
  <1> SUFFICES ASSUME Init PROVE CacheInv
    OBVIOUS
  <1>1. now \in Times /\ 0 \in Times
    BY SubCacheAssumption DEF Init, Times
  <1>2. /\ kv \in {None} \cup Records /\ made \subseteq Bodies /\ RecordSound
    <2>1. CASE kv = None /\ made = {}
      BY <2>1 DEF RecordSound
    <2>2. ASSUME NEW c \in Confs, NEW k \in {"ok", "empty"}, NEW b,
                 b = [url |-> UrlOf[c], kind |-> k, by |-> None, at |-> 0],
                 kv = [sig |-> Signature(c), body |-> b, updatedAt |-> 0, expiry |-> Ttl],
                 made = {b}
          PROVE  /\ kv \in {None} \cup Records /\ made \subseteq Bodies /\ RecordSound
      <3>1. b \in Bodies
        BY <1>1, <2>2, SubCacheAssumption DEF Bodies, Kinds
      <3> QED
        BY <1>1, <2>2, <3>1, PolicyBounds DEF Records, RecordSound, ConversionOf, Signature
    <2> QED
      BY <2>1, <2>2 DEF Init
  <1>3. pull \in [Pulls -> PullRows] /\ refresh \in [Pulls -> RefreshRows]
    BY <1>1, NewPullTyped DEF Init, NoRefresh, RefreshRows
  <1>4. logs \in [Pulls -> Seq(Results)] /\ \A r \in Pulls : Len(logs[r]) <= 2
    BY DEF Init
  <1>5. Sound
    BY DEF Init, Sound, PullSound, RefreshSound, LogSound, NewPull, NoRefresh
  <1> QED
    BY <1>1, <1>2, <1>3, <1>4, <1>5 DEF CacheInv, TypeOK, PullRows, RefreshRows

-----------------------------------------------------------------------------
(* Each step keeps the invariant.                                          *)

SoundFor(r) == PullSound(r) /\ RefreshSound(r) /\ LogSound(r)

\* The pulls that do not move keep their invariant while answers accumulate.
LEMMA OthersSound ==
  ASSUME CacheInv, NEW q \in Pulls, pull'[q] = pull[q], refresh'[q] = refresh[q],
         logs'[q] = logs[q], made \subseteq made'
  PROVE  SoundFor(q)'
  BY PullTyped DEF SoundFor, PullSound, RefreshSound, LogSound, ConversionOf

\* A step of pull r that moves its handler, and neither the refresh, the log, the
\* record nor the converter's answers.
LEMMA PullFrame ==
  ASSUME CacheInv, NEW r \in Pulls, NEW y \in PullRows,
         pull' = [pull EXCEPT ![r] = y], UNCHANGED <<now, kv, refresh, logs, made>>,
         SoundFor(r)'
  PROVE  CacheInv'
  <1>1. \A q \in Pulls : SoundFor(q)'
    BY PullTyped, OthersSound
  <1>2. pull' \in [Pulls -> PullRows]
    BY PullTyped
  <1> QED
    BY <1>1, <1>2 DEF CacheInv, TypeOK, PullRows, RecordSound, ConversionOf, Sound, SoundFor

\* Throw is possible wherever nothing has been logged.
LEMMA ThrowSound ==
  ASSUME CacheInv, NEW r \in Pulls, NEW why \in Failures, Throw(r, why),
         pull[r].pc \in {"new", "lookup", "fetch", "body", "store", "log"},
         refresh'[r] = refresh[r], made \subseteq made',
         Len(logs'[r]) <= 1
  PROVE  SoundFor(r)' /\ pull' \in [Pulls -> PullRows]
  <1> DEFINE y == [pull[r] EXCEPT !.pc = "errlog", !.via = "error", !.result = why]
  <1>1. pull' = [pull EXCEPT ![r] = y]
    BY PullTyped DEF Throw, PullRows
  <1>2. y \in PullRows
    BY PullTyped DEF PullRows, PullSteps, Results
  <1>3. /\ pull'[r].pc = "errlog" /\ pull'[r].result = why /\ pull'[r].conf = pull[r].conf
        /\ pull'[r].via = "error"
    BY <1>1, PullTyped DEF PullRows
  <1> QED
    BY <1>1, <1>2, <1>3, PullTyped
    DEF SoundFor, PullSound, RefreshSound, LogSound, ConversionOf

\* A step that throws keeps the invariant.
LEMMA ThrowFrame ==
  ASSUME CacheInv, NEW r \in Pulls, NEW why \in Failures, Throw(r, why),
         pull[r].pc \in {"new", "lookup", "fetch", "body", "store", "log"},
         UNCHANGED <<now, kv, refresh, logs, made>>
  PROVE  CacheInv'
  <1>1. Len(logs'[r]) <= 1
    BY PullTyped DEF LogSound
  <1>2. SoundFor(r)' /\ pull' \in [Pulls -> PullRows]
    BY <1>1, ThrowSound
  <1>3. \A q \in Pulls \ {r} : SoundFor(q)'
    BY PullTyped, OthersSound DEF Throw
  <1> QED
    BY <1>2, <1>3 DEF CacheInv, TypeOK, PullRows, RecordSound, ConversionOf, Sound, SoundFor

\* The clock only makes what is stored older.
LEMMA TickStep ==
  ASSUME CacheInv, Tick
  PROVE  CacheInv'
  <1>1. \A q \in Pulls : SoundFor(q)'
    BY OthersSound DEF Tick
  <1>2. now' \in Times
    BY SubCacheAssumption DEF Tick, Times, CacheInv, TypeOK
  <1> QED
    BY <1>1, <1>2 DEF Tick, CacheInv, TypeOK, RecordSound, ConversionOf, Sound, SoundFor

\* What resolveAlias answers keeps it.
LEMMA ResolveStep ==
  ASSUME CacheInv, NEW r \in Pulls, Resolve(r)
  PROVE  CacheInv'
  <1>0. /\ pull[r].pc = "new" /\ pull[r].via = "none" /\ pull[r].conf = None
        /\ UNCHANGED <<now, kv, refresh, logs, made>>
    BY PullTyped DEF Resolve, At, PullSound
  <1>1. CASE Throw(r, Failure)
    BY <1>0, <1>1, ThrowFrame DEF Failures
  <1>2. ASSUME NEW c \in Unresolved,
               pull' = [pull EXCEPT ![r].pc = "log", ![r].conf = c, ![r].result = c]
        PROVE  CacheInv'
    <2> DEFINE y == [pull[r] EXCEPT !.pc = "log", !.conf = c, !.result = c]
    <2>1. pull' = [pull EXCEPT ![r] = y]
      BY <1>2, PullTyped DEF PullRows
    <2>2. y \in PullRows
      BY PullTyped DEF PullRows, PullSteps, Results
    <2>3. /\ pull'[r].pc = "log" /\ pull'[r].conf = c /\ pull'[r].result = c
          /\ pull'[r].via = "none"
      BY <1>0, <2>1, PullTyped DEF PullRows
    <2>4. SoundFor(r)'
      BY <1>0, <2>3, PullTyped, SubCacheAssumption
      DEF SoundFor, PullSound, RefreshSound, LogSound, ConversionOf
    <2> QED
      BY <1>0, <2>1, <2>2, <2>4, PullFrame
  <1>3. ASSUME NEW c \in Confs,
               pull' = [pull EXCEPT ![r].pc = "lookup", ![r].conf = c, ![r].t0 = now]
        PROVE  CacheInv'
    <2> DEFINE y == [pull[r] EXCEPT !.pc = "lookup", !.conf = c, !.t0 = now]
    <2>1. pull' = [pull EXCEPT ![r] = y]
      BY <1>3, PullTyped DEF PullRows
    <2>2. y \in PullRows
      BY PullTyped DEF PullRows, PullSteps, CacheInv, TypeOK
    <2>3. pull'[r].pc = "lookup" /\ pull'[r].conf = c
      BY <2>1, PullTyped DEF PullRows
    <2>4. SoundFor(r)'
      BY <1>0, <2>3, PullTyped, SubCacheAssumption
      DEF SoundFor, PullSound, RefreshSound, LogSound, ConversionOf
    <2> QED
      BY <1>0, <2>1, <2>2, <2>4, PullFrame
  <1> QED
    BY <1>1, <1>2, <1>3 DEF Resolve

\* What the cache answers keeps it.
LEMMA LookupStep ==
  ASSUME CacheInv, NEW r \in Pulls, Lookup(r)
  PROVE  CacheInv'
  <1> DEFINE p == pull[r]
             c == ReadCache
             match == c # None /\ c.sig = Signature(p.conf)
             age == p.t0 - c.updatedAt
  <1>0. /\ p.pc = "lookup" /\ p.conf \in Confs /\ logs[r] = <<>>
        /\ UNCHANGED <<now, kv, logs, made>>
    BY PullTyped DEF Lookup, At, PullSound, LogSound
  <1>1. CASE Throw(r, Failure) /\ UNCHANGED refresh
    BY <1>0, <1>1, ThrowFrame DEF Failures
  <1>2. ASSUME NEW via \in {"hit", "stale"}, match,
               age <= (IF via = "hit" THEN FreshMs ELSE StaleMs),
               pull' = [pull EXCEPT ![r].pc = "log", ![r].via = via, ![r].result = c.body],
               \/ UNCHANGED refresh
               \/ refresh' = [refresh EXCEPT ![r].pc = "fetch"]
        PROVE  CacheInv'
    <2> DEFINE y == [p EXCEPT !.pc = "log", !.via = via, !.result = kv.body]
    <2>1. /\ c = kv /\ kv \in Records /\ ConversionOf(kv.body, p.conf)
          /\ kv.body.kind = "ok" /\ age = p.t0 - kv.body.at
      BY <1>2, ReadCacheSound DEF Signature
    <2>2. pull' = [pull EXCEPT ![r] = y]
      BY <1>2, <2>1, PullTyped DEF PullRows
    <2>3. y \in PullRows
      BY <2>1, PullTyped DEF PullRows, PullSteps, Results, Records
    <2>4. /\ pull'[r].pc = "log" /\ pull'[r].conf = p.conf /\ pull'[r].result = kv.body
          /\ pull'[r].via = via /\ pull'[r].t0 = p.t0
      BY <2>2, PullTyped DEF PullRows
    <2>5. refresh' \in [Pulls -> RefreshRows] /\ refresh'[r].pc \in {refresh[r].pc, "fetch"}
            /\ refresh'[r].body = refresh[r].body /\ refresh'[r].at = refresh[r].at
      BY <1>2, PullTyped DEF RefreshRows
    <2>6. \A q \in Pulls \ {r} : SoundFor(q)'
      BY <1>0, <1>2, PullTyped, OthersSound
    <2>7. PullSound(r)'
      BY <1>0, <1>2, <2>1, <2>4 DEF PullSound, ConversionOf
    <2>8. RefreshSound(r)' /\ LogSound(r)'
      BY <1>0, <2>4, <2>5, PullTyped DEF RefreshSound, LogSound, ConversionOf
    <2>9. pull' \in [Pulls -> PullRows]
      BY <2>2, <2>3, PullTyped
    <2> QED
      BY <1>0, <2>5, <2>6, <2>7, <2>8, <2>9
      DEF CacheInv, TypeOK, PullRows, RefreshRows, RecordSound, ConversionOf, Sound, SoundFor
  <1>3. CASE /\ pull' = [pull EXCEPT ![r].pc = "fetch", ![r].via = "miss"]
             /\ UNCHANGED refresh
    <2> DEFINE y == [p EXCEPT !.pc = "fetch", !.via = "miss"]
    <2>1. pull' = [pull EXCEPT ![r] = y]
      BY <1>3, PullTyped DEF PullRows
    <2>2. y \in PullRows
      BY PullTyped DEF PullRows, PullSteps
    <2>3. pull'[r].pc = "fetch" /\ pull'[r].conf = p.conf /\ pull'[r].via = "miss"
      BY <2>1, PullTyped DEF PullRows
    <2>4. SoundFor(r)'
      BY <1>0, <1>3, <2>3, PullTyped
      DEF SoundFor, PullSound, RefreshSound, LogSound, ConversionOf
    <2> QED
      BY <1>0, <1>3, <2>1, <2>2, <2>4, PullFrame
  <1> QED
    BY <1>1, <1>2, <1>3 DEF Lookup

\* The headers of the converter, or their failure, keep it.
LEMMA FetchStep ==
  ASSUME CacheInv, NEW r \in Pulls,
         Headers(r) \/ TimedOut(r) \/ FetchFails(r) \/ BodyFails(r)
  PROVE  CacheInv'
  <1>1. CASE Headers(r)
    <2> DEFINE y == [pull[r] EXCEPT !.pc = "body"]
    <2>1. pull' = [pull EXCEPT ![r] = y]
      BY <1>1, PullTyped DEF Headers, PullRows
    <2>2. y \in PullRows
      BY PullTyped DEF PullRows, PullSteps
    <2>3. /\ pull[r].pc = "fetch" /\ pull'[r].pc = "body" /\ pull'[r].conf = pull[r].conf
          /\ pull'[r].via = pull[r].via
      BY <1>1, <2>1, PullTyped DEF Headers, At, PullRows
    <2>4. SoundFor(r)'
      BY <1>1, <2>3, PullTyped
      DEF Headers, SoundFor, PullSound, RefreshSound, LogSound, ConversionOf
    <2> QED
      BY <1>1, <2>1, <2>2, <2>4, PullFrame DEF Headers
  <1>2. CASE TimedOut(r) \/ FetchFails(r) \/ BodyFails(r)
    BY <1>2, ThrowFrame DEF TimedOut, FetchFails, BodyFails, At, Failures
  <1> QED
    BY <1>1, <1>2

\* A body that was read is an answer the converter has given.
LEMMA BodyStep ==
  ASSUME CacheInv, NEW r \in Pulls, Body(r)
  PROVE  CacheInv'
  <1> DEFINE p == pull[r]
  <1>0. /\ p.pc = "body" /\ p.conf \in Confs /\ p.via = "miss" /\ logs[r] = <<>>
        /\ UNCHANGED <<now, kv, refresh, logs>> /\ now \in Times
    BY PullTyped DEF Body, At, PullSound, LogSound, CacheInv, TypeOK
  <1>1. PICK k \in Kinds :
          LET b == [url |-> UrlOf[p.conf], kind |-> k, by |-> r, at |-> now] IN
          /\ made' = made \cup {b}
          /\ pull' = [pull EXCEPT ![r].pc = IF Cacheable(b) THEN "store" ELSE "log",
                                  ![r].at = IF Cacheable(b) THEN now ELSE p.at,
                                  ![r].result = b]
    BY DEF Body
  <1> DEFINE b == [url |-> UrlOf[p.conf], kind |-> k, by |-> r, at |-> now]
             step == IF Cacheable(b) THEN "store" ELSE "log"
             at == IF Cacheable(b) THEN now ELSE p.at
             y == [p EXCEPT !.pc = step, !.at = at, !.result = b]
  <1>2. b \in Bodies /\ b.url = UrlOf[p.conf] /\ b.kind = k /\ b.by = r /\ b.at = now
    BY <1>0, SubCacheAssumption DEF Bodies
  <1>3. /\ step \in {"store", "log"} /\ at \in Times
        /\ step = "store" => k # "bad" /\ at = now
    BY <1>0, PullTyped DEF Cacheable, PullRows
  <1>4. made' = made \cup {b} /\ pull' = [pull EXCEPT ![r] = y]
    BY <1>1, PullTyped DEF PullRows
  <1> HIDE DEF b, step, at
  <1>5. y \in PullRows
    <2>1. b \in Results /\ step \in PullSteps /\ at \in Times /\ p \in PullRows
      BY <1>2, <1>3, PullTyped DEF PullSteps, Results
    <2> QED
      BY <2>1 DEF PullRows
  <1>6. /\ pull'[r].pc = step /\ pull'[r].conf = p.conf /\ pull'[r].via = "miss"
        /\ pull'[r].at = at /\ pull'[r].result = b
    BY <1>0, <1>4, PullTyped DEF PullRows
  <1>7. SoundFor(r)'
    BY <1>0, <1>2, <1>3, <1>4, <1>6, PullTyped
    DEF SoundFor, PullSound, RefreshSound, LogSound, ConversionOf
  <1>8. \A q \in Pulls \ {r} : SoundFor(q)'
    BY <1>0, <1>4, PullTyped, OthersSound
  <1>9. pull' \in [Pulls -> PullRows] /\ made' \subseteq Bodies
    BY <1>2, <1>4, <1>5, PullTyped DEF CacheInv, TypeOK
  <1> QED
    BY <1>0, <1>4, <1>7, <1>8, <1>9
    DEF CacheInv, TypeOK, PullRows, RecordSound, ConversionOf, Sound, SoundFor

\* A put of a sound record, by a pull or by a refresh.
LEMMA PutSound ==
  ASSUME CacheInv, NEW c \in Confs, NEW b \in Bodies, ConversionOf(b, c),
         made' = made,
         Put(Signature(c), b, b.at) \/ UNCHANGED kv
  PROVE  kv' \in {None} \cup Records /\ RecordSound'
  <1>1. CASE UNCHANGED kv
    BY <1>1 DEF CacheInv, TypeOK, RecordSound, ConversionOf
  <1>2. CASE Put(Signature(c), b, b.at)
    <2>1. kv' = [sig |-> c, body |-> b, updatedAt |-> b.at, expiry |-> now + Ttl]
      BY <1>2 DEF Put, Signature
    <2>2. b.at \in Times /\ now + Ttl \in Int
      BY PolicyBounds DEF Bodies, CacheInv, TypeOK, Times
    <2>3. kv' \in Records /\ kv'.sig = c /\ kv'.body = b /\ kv'.updatedAt = b.at
      BY <2>1, <2>2 DEF Records
    <2> QED
      BY <2>3 DEF RecordSound, ConversionOf
  <1> QED
    BY <1>1, <1>2

\* writeCache puts a record that is sound for its signature.
LEMMA StoreStep ==
  ASSUME CacheInv, NEW r \in Pulls, Store(r)
  PROVE  CacheInv'
  <1> DEFINE p == pull[r]
             y == [p EXCEPT !.pc = "log"]
  <1>0. /\ p.pc = "store" /\ p.conf \in Confs /\ p.via = "miss" /\ logs[r] = <<>>
        /\ ConversionOf(p.result, p.conf) /\ p.result.by = r /\ p.at = p.result.at
        /\ UNCHANGED <<now, refresh, logs, made>>
    BY PullTyped DEF Store, At, PullSound, LogSound
  <1>1. p.result \in Bodies
    BY <1>0 DEF ConversionOf, CacheInv, TypeOK
  <1>2. kv' \in {None} \cup Records /\ RecordSound'
    BY <1>0, <1>1, PutSound DEF Store
  <1>3. SoundFor(r)' /\ pull' \in [Pulls -> PullRows]
    <2>1. CASE Throw(r, Failure)
      BY <1>0, <2>1, ThrowSound DEF Failures
    <2>2. CASE pull' = [pull EXCEPT ![r].pc = "log"]
      <3>1. pull' = [pull EXCEPT ![r] = y] /\ y \in PullRows
        BY <2>2, PullTyped DEF PullRows, PullSteps
      <3>2. /\ pull'[r].pc = "log" /\ pull'[r].conf = p.conf /\ pull'[r].via = "miss"
            /\ pull'[r].result = p.result
        BY <1>0, <3>1, PullTyped DEF PullRows
      <3>3. SoundFor(r)'
        BY <1>0, <3>2, PullTyped
        DEF SoundFor, PullSound, RefreshSound, LogSound, ConversionOf
      <3> QED
        BY <3>1, <3>3, PullTyped
    <2> QED
      BY <2>1, <2>2 DEF Store
  <1>4. \A q \in Pulls \ {r} : SoundFor(q)'
    BY <1>0, PullTyped, OthersSound DEF Store, Throw
  <1> QED
    BY <1>0, <1>2, <1>3, <1>4 DEF CacheInv, TypeOK, PullRows, Sound, SoundFor

\* One entry more in the log of r.
LEMMA LogEntryTyped ==
  ASSUME CacheInv, NEW r \in Pulls, NEW x \in Results,
         LogEntry(r, x) \/ UNCHANGED logs, Len(logs[r]) <= 1
  PROVE  /\ logs' \in [Pulls -> Seq(Results)] /\ \A q \in Pulls : Len(logs'[q]) <= 2
         /\ LogEntry(r, x) => logs'[r] = Append(logs[r], x)
         /\ \A q \in Pulls \ {r} : logs'[q] = logs[q]
         /\ Len(logs'[r]) <= Len(logs[r]) + 1
  <1>1. logs \in [Pulls -> Seq(Results)] /\ \A q \in Pulls : Len(logs[q]) <= 2
    BY DEF CacheInv, TypeOK
  <1>2. CASE UNCHANGED logs /\ ~LogEntry(r, x)
    BY <1>1, <1>2
  <1>3. CASE LogEntry(r, x)
    <2>1. /\ Append(logs[r], x) \in Seq(Results)
          /\ Len(Append(logs[r], x)) = Len(logs[r]) + 1 /\ Len(logs[r]) \in Nat
      BY <1>1
    <2>2. logs' = [logs EXCEPT ![r] = Append(logs[r], x)]
      BY <1>3 DEF LogEntry
    <2>3. logs'[r] = Append(logs[r], x) /\ \A q \in Pulls \ {r} : logs'[q] = logs[q]
      BY <1>1, <2>2
    <2> QED
      BY <1>1, <2>1, <2>2, <2>3
  <1> QED
    BY <1>2, <1>3

\* A handler that returns forgets its locals.
LEMMA ReturnTyped ==
  ASSUME CacheInv, NEW r \in Pulls, NEW step \in {"done", "crashed"}, NEW x \in Results,
         Return(r, step, x)
  PROVE  /\ pull' \in [Pulls -> PullRows] /\ \A q \in Pulls \ {r} : pull'[q] = pull[q]
         /\ pull'[r].pc = step /\ pull'[r].conf = pull[r].conf /\ pull'[r].result = x
         /\ pull'[r].via = "none"
  <1> DEFINE y == [NewPull EXCEPT !.pc = step, !.conf = pull[r].conf, !.result = x]
  <1>1. /\ y \in PullRows /\ y.pc = step /\ y.conf = pull[r].conf /\ y.result = x
        /\ y.via = "none"
    BY NewPullTyped, PullTyped DEF PullRows, PullSteps, NewPull
  <1>2. pull' = [pull EXCEPT ![r] = y]
    BY DEF Return
  <1> HIDE DEF y
  <1> QED
    BY <1>1, <1>2, PullTyped

\* The log entry is the answer, and the answer is the log entry.
LEMMA LogStep ==
  ASSUME CacheInv, NEW r \in Pulls, Log(r) \/ ErrLog(r)
  PROVE  CacheInv'
  <1> DEFINE p == pull[r]
  <1>0. /\ p.pc \in {"log", "errlog"} /\ p.result \in Results
        /\ UNCHANGED <<now, kv, refresh, made>> /\ Len(logs[r]) <= 1
        /\ p.pc = "log" => logs[r] = <<>>
        /\ p.pc = "errlog" => p.result \in Failures
        /\ logs[r] \in Seq(Results)
    BY PullTyped DEF Log, ErrLog, At, PullRows, PullSound, LogSound, CacheInv, TypeOK
  <1>1. LogEntry(r, p.result) \/ UNCHANGED logs
    BY DEF Log, ErrLog
  <1>2. /\ logs' \in [Pulls -> Seq(Results)] /\ \A q \in Pulls : Len(logs'[q]) <= 2
        /\ LogEntry(r, p.result) => logs'[r] = Append(logs[r], p.result)
        /\ \A q \in Pulls \ {r} : logs'[q] = logs[q]
        /\ Len(logs'[r]) <= Len(logs[r]) + 1
    BY <1>0, <1>1, LogEntryTyped
  <1>3. SoundFor(r)' /\ pull' \in [Pulls -> PullRows]
    <2>1. CASE p.pc = "log" /\ Throw(r, Failure)
      BY <1>0, <1>2, <2>1, ThrowSound DEF Failures
    <2>2. CASE LogEntry(r, p.result) /\ Return(r, "done", p.result)
      <3>1. /\ pull' \in [Pulls -> PullRows]
            /\ pull'[r].pc = "done" /\ pull'[r].conf = p.conf /\ pull'[r].result = p.result
            /\ pull'[r].via = "none"
        BY <1>0, <2>2, ReturnTyped
      <3>2. /\ logs'[r] # <<>> /\ logs'[r][Len(logs'[r])] = p.result
            /\ p.result \notin Failures => Len(logs'[r]) = 1
        BY <1>0, <1>2, <2>2
      <3>3. LogSound(r)' /\ RefreshSound(r)'
        BY <1>0, <3>1, <3>2, PullTyped DEF LogSound, RefreshSound, ConversionOf
      <3>4. PullSound(r)'
        BY <1>0, <3>1, PullTyped DEF PullSound
      <3> QED
        BY <3>1, <3>3, <3>4 DEF SoundFor
    <2>3. CASE Return(r, "crashed", Failure)
      <3>1. /\ pull' \in [Pulls -> PullRows]
            /\ pull'[r].pc = "crashed" /\ pull'[r].conf = p.conf
            /\ pull'[r].result = Failure
        BY <2>3, ReturnTyped DEF Results, Failures
      <3> QED
        BY <1>0, <3>1, PullTyped
        DEF SoundFor, PullSound, LogSound, RefreshSound, ConversionOf, Failures
    <2> QED
      BY <2>1, <2>2, <2>3 DEF Log, ErrLog, At
  <1>4. \A q \in Pulls \ {r} : SoundFor(q)'
    BY <1>0, <1>2, PullTyped, OthersSound DEF Log, ErrLog, Throw, Return
  <1> QED
    BY <1>0, <1>2, <1>3, <1>4
    DEF CacheInv, TypeOK, PullRows, RecordSound, ConversionOf, Sound, SoundFor

\* A step of the refresh of r.
LEMMA RefreshFrame ==
  ASSUME CacheInv, NEW r \in Pulls, NEW y \in RefreshRows,
         refresh' = [refresh EXCEPT ![r] = y], UNCHANGED <<now, pull, logs>>,
         kv' \in {None} \cup Records, RecordSound',
         made \subseteq made', made' \subseteq Bodies, RefreshSound(r)'
  PROVE  CacheInv'
  <1>1. \A q \in Pulls \ {r} : SoundFor(q)'
    BY PullTyped, OthersSound
  <1>2. SoundFor(r)'
    BY PullTyped DEF SoundFor, PullSound, LogSound, ConversionOf
  <1>3. refresh' \in [Pulls -> RefreshRows]
    BY PullTyped
  <1> QED
    BY <1>1, <1>2, <1>3 DEF CacheInv, TypeOK, RefreshRows, Sound, SoundFor

\* A refresh that ends forgets its body.
LEMMA EndRefreshFrame ==
  ASSUME CacheInv, NEW r \in Pulls, EndRefresh(r), UNCHANGED <<now, pull, logs>>,
         kv' \in {None} \cup Records, RecordSound',
         made \subseteq made', made' \subseteq Bodies
  PROVE  CacheInv'
  <1> DEFINE y == [NoRefresh EXCEPT !.pc = "done"]
  <1>1. y \in RefreshRows /\ y.pc = "done"
    BY SubCacheAssumption DEF NoRefresh, RefreshRows, Times
  <1>2. refresh' = [refresh EXCEPT ![r] = y]
    BY DEF EndRefresh
  <1> HIDE DEF y
  <1>3. RefreshSound(r)'
    BY <1>1, <1>2, PullTyped DEF RefreshSound
  <1> QED
    BY <1>1, <1>2, <1>3, RefreshFrame

\* The background refresh keeps the invariant.
LEMMA RefreshStep ==
  ASSUME CacheInv, NEW r \in Pulls,
         RefreshHeaders(r) \/ RefreshFails(r) \/ RefreshBody(r) \/ RefreshStore(r)
  PROVE  CacheInv'
  <1>0. /\ made \subseteq Bodies /\ kv \in {None} \cup Records /\ now \in Times
        /\ UNCHANGED <<kv, made>> => RecordSound' /\ kv' \in {None} \cup Records
    BY DEF CacheInv, TypeOK, RecordSound, ConversionOf
  <1>1. CASE RefreshHeaders(r)
    <2> DEFINE y == [refresh[r] EXCEPT !.pc = "body"]
    <2>1. refresh' = [refresh EXCEPT ![r] = y] /\ y \in RefreshRows
      BY <1>1, PullTyped DEF RefreshHeaders, RefreshRows
    <2>2. refresh'[r].pc = "body"
      BY <2>1, PullTyped DEF RefreshRows
    <2>3. RefreshSound(r)'
      BY <1>1, <2>2, PullTyped DEF RefreshHeaders, RefreshSound
    <2> QED
      BY <1>0, <1>1, <2>1, <2>3, RefreshFrame DEF RefreshHeaders
  <1>2. CASE RefreshFails(r)
    BY <1>0, <1>2, EndRefreshFrame DEF RefreshFails
  <1>3. CASE RefreshBody(r)
    <2>0. pull[r].conf \in Confs
      BY <1>3, PullTyped DEF RefreshBody, RefreshSound
    <2>1. PICK k \in Kinds :
            LET b == [url |-> UrlOf[pull[r].conf], kind |-> k, by |-> r, at |-> now] IN
            /\ made' = made \cup {b}
            /\ IF Cacheable(b)
               THEN refresh' = [refresh EXCEPT ![r] = [pc |-> "store", body |-> b, at |-> now]]
               ELSE EndRefresh(r)
      BY <1>3 DEF RefreshBody
    <2> DEFINE b == [url |-> UrlOf[pull[r].conf], kind |-> k, by |-> r, at |-> now]
    <2>2. b \in Bodies /\ b.url = UrlOf[pull[r].conf] /\ b.kind = k /\ b.at = now
      BY <1>0, <2>0, SubCacheAssumption DEF Bodies
    <2>3. made' = made \cup {b} /\ made' \subseteq Bodies /\ UNCHANGED <<now, kv, pull, logs>>
      BY <1>0, <1>3, <2>1, <2>2 DEF RefreshBody
    <2>4. RecordSound' /\ kv' \in {None} \cup Records
      BY <1>0, <2>3 DEF CacheInv, RecordSound, ConversionOf
    <2>5. CASE EndRefresh(r)
      BY <2>3, <2>4, <2>5, EndRefreshFrame
    <2>6. CASE /\ Cacheable(b)
               /\ refresh' = [refresh EXCEPT ![r] = [pc |-> "store", body |-> b, at |-> now]]
      <3> DEFINE y == [pc |-> "store", body |-> b, at |-> now]
      <3>1. k # "bad"
        BY <2>2, <2>6 DEF Cacheable
      <3> HIDE DEF b
      <3>2. y \in RefreshRows /\ y.pc = "store" /\ y.body = b /\ y.at = now
        BY <1>0, <2>2 DEF RefreshRows
      <3>3. refresh'[r] = y
        BY <2>6, PullTyped
      <3> HIDE DEF y
      <3>4. RefreshSound(r)'
        BY <2>0, <2>2, <2>3, <3>1, <3>2, <3>3 DEF RefreshSound, ConversionOf
      <3> QED
        BY <2>3, <2>4, <2>6, <3>2, <3>4, RefreshFrame DEF y
    <2> QED
      BY <2>1, <2>5, <2>6
  <1>4. CASE RefreshStore(r)
    <2>1. /\ pull[r].conf \in Confs /\ ConversionOf(refresh[r].body, pull[r].conf)
          /\ refresh[r].at = refresh[r].body.at /\ refresh[r].body \in Bodies
      BY <1>0, <1>4, PullTyped DEF RefreshStore, RefreshSound, ConversionOf
    <2>2. kv' \in {None} \cup Records /\ RecordSound'
      BY <1>4, <2>1, PutSound DEF RefreshStore
    <2> QED
      BY <1>0, <1>4, <2>2, EndRefreshFrame DEF RefreshStore
  <1> QED
    BY <1>1, <1>2, <1>3, <1>4

\* Every step keeps it.
LEMMA CacheInvStep == CacheInv /\ [Next]_vars => CacheInv'
  <1> SUFFICES ASSUME CacheInv, [Next]_vars PROVE CacheInv'
    OBVIOUS
  <1>1. CASE Next
    BY <1>1, TickStep, ResolveStep, LookupStep, FetchStep, BodyStep, StoreStep, LogStep,
       RefreshStep
    DEF Next
  <1>2. CASE UNCHANGED vars
    BY <1>2 DEF vars, CacheInv, TypeOK, RecordSound, ConversionOf, Sound, PullSound,
       RefreshSound, LogSound
  <1> QED
    BY <1>1, <1>2

\* The record of the cache is a conversion of the request its signature stands for,
\* stamped no later than it was read, and so is whatever a pull or a refresh holds.
THEOREM CacheInvariant == Spec => []CacheInv
  <1> QED
    BY CacheInvInit, CacheInvStep, PTL DEF Spec

\* Stamps are times of the clock, and a pull has at most two entries in the log.
THEOREM CacheTypeCorrect == Spec => []TypeOK
  <1>1. CacheInv => TypeOK
    BY DEF CacheInv
  <1> QED
    BY <1>1, CacheInvariant, PTL

\* What is served from the cache is no older than its window allows.
THEOREM ServedFreshEnough == Spec => []FreshEnough
  <1>1. CacheInv => FreshEnough
    BY PullTyped DEF FreshEnough, At, PullSound
  <1> QED
    BY <1>1, CacheInvariant, PTL

\* An answer is in the pull log, and is its only entry unless the pull failed.
THEOREM RepliesAreLogged == Spec => []ReplyLogged
  <1>1. CacheInv => ReplyLogged
    BY PullTyped DEF ReplyLogged, At, LogSound
  <1> QED
    BY <1>1, CacheInvariant, PTL

-----------------------------------------------------------------------------
(* SubCache implements PullService.                                        *)

SeenOf(p) == IF p.conf \in Confs THEN UrlOf[p.conf] ELSE p.conf
ReplyOf(p) == IF p.pc \in {"done", "crashed"} THEN p.result ELSE None

seenBar == [r \in Pulls |-> SeenOf(pull[r])]
replyBar == [r \in Pulls |-> ReplyOf(pull[r])]

\* The refinement mapping depends on a pull's configuration and answer only.
LEMMA BarFields ==
  /\ Service!Init <=> /\ seenBar = [r \in Pulls |-> None]
                      /\ \A m \in made : m.kind # "bad"
                      /\ replyBar = [r \in Pulls |-> None]
  /\ UNCHANGED Service!pullVars <=> UNCHANGED <<seenBar, made, replyBar>>
  /\ \A r \in Pulls :
       /\ Service!Resolve(r) <=>
            /\ seenBar[r] = None /\ replyBar[r] = None
            /\ \E u \in Urls \cup Unresolved : seenBar' = [seenBar EXCEPT ![r] = u]
            /\ UNCHANGED <<made, replyBar>>
       /\ Service!Convert(r) <=>
            /\ seenBar[r] \in Urls
            /\ \E k \in Kinds, t \in Times :
                  made' = made \cup {[url |-> seenBar[r], kind |-> k, by |-> r, at |-> t]}
            /\ UNCHANGED <<seenBar, replyBar>>
       /\ Service!AnswerError(r) <=>
            /\ replyBar[r] = None
            /\ \E e \in Unresolved \cup Failures :
                  /\ e \in Unresolved => seenBar[r] = e
                  /\ replyBar' = [replyBar EXCEPT ![r] = e]
            /\ UNCHANGED <<seenBar, made>>
       /\ Service!AnswerConversion(r) <=>
            /\ replyBar[r] = None
            /\ \E m \in made : /\ m.url = seenBar[r]
                               /\ m.by = r \/ m.kind = "ok"
                               /\ replyBar' = [replyBar EXCEPT ![r] = m]
            /\ UNCHANGED <<seenBar, made>>
  BY DEF Service!Init, Service!pullVars, Service!Resolve, Service!Convert,
     Service!AnswerError, Service!AnswerConversion, Service!Kinds, Service!Unresolved,
     Service!Failures, seenBar, replyBar, SeenOf, ReplyOf, Answered, Kinds, Unresolved,
     Failures

\* A pull that keeps its configuration and does not answer leaves no trace.
LEMMA BarsKept ==
  ASSUME NEW r \in Pulls, \A q \in Pulls \ {r} : pull'[q] = pull[q],
         pull'[r].conf = pull[r].conf,
         pull[r].pc \notin {"done", "crashed"}, pull'[r].pc \notin {"done", "crashed"}
  PROVE  UNCHANGED <<seenBar, replyBar>>
  <1>1. \A q \in Pulls : SeenOf(pull'[q]) = SeenOf(pull[q])
                          /\ ReplyOf(pull'[q]) = ReplyOf(pull[q])
    BY DEF SeenOf, ReplyOf
  <1> QED
    BY <1>1 DEF seenBar, replyBar

\* A pull that throws has not answered yet.
LEMMA ThrowKeepsBars ==
  ASSUME CacheInv, NEW r \in Pulls, NEW why, Throw(r, why),
         pull[r].pc \notin {"done", "crashed"}
  PROVE  UNCHANGED <<seenBar, replyBar>>
  <1>1. pull'[r].pc = "errlog" /\ pull'[r].conf = pull[r].conf
          /\ \A q \in Pulls \ {r} : pull'[q] = pull[q]
    BY PullTyped DEF Throw, PullRows
  <1> QED
    BY <1>1, BarsKept

\* Resolve is the Resolve of PullService, or leaves no trace.
LEMMA ResolveRefines ==
  ASSUME CacheInv, NEW r \in Pulls, Resolve(r)
  PROVE  Service!Resolve(r) \/ UNCHANGED Service!pullVars
  <1>0. pull[r].pc = "new" /\ pull[r].conf = None /\ UNCHANGED made
    BY PullTyped DEF Resolve, At, PullSound
  <1>1. seenBar[r] = None /\ replyBar[r] = None
    BY <1>0, SubCacheAssumption DEF seenBar, replyBar, SeenOf, ReplyOf
  <1>2. CASE Throw(r, Failure)
    BY <1>0, <1>2, ThrowKeepsBars, BarFields
  <1>3. ASSUME NEW c \in Confs \cup Unresolved, NEW y \in PullRows,
               pull' = [pull EXCEPT ![r] = y], y.conf = c,
               y.pc \notin {"done", "crashed"}
        PROVE  Service!Resolve(r)
    <2>1. SeenOf(y) \in Urls \cup Unresolved /\ ReplyOf(y) = None
      BY <1>3, SubCacheAssumption DEF SeenOf, ReplyOf
    <2>2. seenBar' = [seenBar EXCEPT ![r] = SeenOf(y)]
      BY <1>3, PullTyped DEF seenBar
    <2>3. \A q \in Pulls : ReplyOf(pull'[q]) = ReplyOf(pull[q])
      BY <1>0, <1>3, <2>1, PullTyped DEF ReplyOf
    <2>4. replyBar' = replyBar
      BY <2>3 DEF replyBar
    <2> QED
      BY <1>0, <1>1, <2>1, <2>2, <2>4, BarFields
  <1>4. ASSUME NEW c \in Unresolved,
               pull' = [pull EXCEPT ![r].pc = "log", ![r].conf = c, ![r].result = c]
        PROVE  Service!Resolve(r)
    <2> DEFINE y == [pull[r] EXCEPT !.pc = "log", !.conf = c, !.result = c]
    <2>1. pull' = [pull EXCEPT ![r] = y] /\ y \in PullRows /\ y.conf = c /\ y.pc = "log"
      BY <1>4, PullTyped DEF PullRows, PullSteps, Results
    <2> QED
      BY <1>3, <2>1
  <1>5. ASSUME NEW c \in Confs,
               pull' = [pull EXCEPT ![r].pc = "lookup", ![r].conf = c, ![r].t0 = now]
        PROVE  Service!Resolve(r)
    <2> DEFINE y == [pull[r] EXCEPT !.pc = "lookup", !.conf = c, !.t0 = now]
    <2>1. pull' = [pull EXCEPT ![r] = y] /\ y \in PullRows /\ y.conf = c /\ y.pc = "lookup"
      BY <1>5, PullTyped DEF PullRows, PullSteps, CacheInv, TypeOK
    <2> QED
      BY <1>3, <2>1
  <1> QED
    BY <1>2, <1>4, <1>5 DEF Resolve

\* What a pull does between its configuration and its answer.
LEMMA WorkRefines ==
  ASSUME CacheInv, NEW r \in Pulls,
         Lookup(r) \/ Headers(r) \/ TimedOut(r) \/ FetchFails(r) \/ BodyFails(r) \/ Store(r)
  PROVE  UNCHANGED Service!pullVars
  <1>0. UNCHANGED made /\ pull[r].pc \notin {"done", "crashed"}
    BY DEF Lookup, Headers, TimedOut, FetchFails, BodyFails, Store, At
  <1>1. CASE \E why : Throw(r, why)
    BY <1>0, <1>1, ThrowKeepsBars, BarFields
  <1>2. CASE ~\E why : Throw(r, why)
    <2>1. pull'[r].conf = pull[r].conf /\ pull'[r].pc \in {"log", "fetch", "body"}
            /\ \A q \in Pulls \ {r} : pull'[q] = pull[q]
      <3>1. CASE Lookup(r)
        <4>1. CASE pull' = [pull EXCEPT ![r].pc = "fetch", ![r].via = "miss"]
          BY <4>1, PullTyped DEF PullRows
        <4>2. ASSUME NEW via, NEW x,
                     pull' = [pull EXCEPT ![r].pc = "log", ![r].via = via, ![r].result = x]
              PROVE  /\ pull'[r].conf = pull[r].conf /\ pull'[r].pc = "log"
                     /\ \A q \in Pulls \ {r} : pull'[q] = pull[q]
          BY <4>2, PullTyped DEF PullRows
        <4> QED
          BY <1>2, <3>1, <4>1, <4>2 DEF Lookup
      <3>2. CASE ~Lookup(r)
        BY <1>2, <3>2, PullTyped
        DEF Headers, TimedOut, FetchFails, BodyFails, Store, PullRows
      <3> QED
        BY <3>1, <3>2
    <2> QED
      BY <1>0, <2>1, BarsKept, BarFields
  <1> QED
    BY <1>1, <1>2

\* A body that was read is a Convert of PullService.
LEMMA ConvertRefines ==
  ASSUME CacheInv, NEW r \in Pulls, Body(r) \/ RefreshBody(r)
  PROVE  Service!Convert(r)
  <1>0. pull[r].conf \in Confs /\ now \in Times
    BY PullTyped DEF Body, RefreshBody, At, PullSound, RefreshSound, CacheInv, TypeOK
  <1>1. seenBar[r] = UrlOf[pull[r].conf] /\ seenBar[r] \in Urls
    BY <1>0, SubCacheAssumption DEF seenBar, SeenOf
  <1>2. \E k \in Kinds, t \in Times :
          made' = made \cup {[url |-> seenBar[r], kind |-> k, by |-> r, at |-> t]}
    BY <1>0, <1>1 DEF Body, RefreshBody
  <1>3. UNCHANGED <<seenBar, replyBar>>
    <2>1. CASE RefreshBody(r)
      BY <2>1 DEF RefreshBody, seenBar, replyBar
    <2>2. CASE Body(r)
      <3>1. pull[r].pc = "body"
        BY <2>2 DEF Body, At
      <3>2. \E step \in {"store", "log"} : \E at, x :
              pull' = [pull EXCEPT ![r].pc = step, ![r].at = at, ![r].result = x]
        BY <2>2 DEF Body
      <3>3. pull'[r].conf = pull[r].conf /\ pull'[r].pc \in {"store", "log"}
              /\ \A q \in Pulls \ {r} : pull'[q] = pull[q]
        BY <3>2, PullTyped DEF PullRows
      <3> QED
        BY <3>1, <3>3, BarsKept
    <2> QED
      BY <2>1, <2>2
  <1> QED
    BY <1>1, <1>2, <1>3, BarFields

\* The return of the handler is an answer of PullService.
LEMMA AnswerRefines ==
  ASSUME CacheInv, NEW r \in Pulls, Log(r) \/ ErrLog(r)
  PROVE  Service!AnswerError(r) \/ Service!AnswerConversion(r) \/ UNCHANGED Service!pullVars
  <1>0. /\ pull[r].pc \in {"log", "errlog"} /\ UNCHANGED made
        /\ pull[r].result \in Results
    BY PullTyped DEF Log, ErrLog, At, PullRows
  <1>1. CASE \E why : Throw(r, why)
    BY <1>0, <1>1, ThrowKeepsBars, BarFields
  <1>2. ASSUME NEW step \in {"done", "crashed"}, NEW x \in Results, Return(r, step, x),
               x \in Failures \/ (x = pull[r].result /\ pull[r].pc = "log")
        PROVE  Service!AnswerError(r) \/ Service!AnswerConversion(r)
    <2>1. /\ \A q \in Pulls \ {r} : pull'[q] = pull[q]
          /\ pull'[r].pc = step /\ pull'[r].conf = pull[r].conf /\ pull'[r].result = x
      BY <1>2, ReturnTyped
    <2>2. replyBar[r] = None
      BY <1>0 DEF replyBar, ReplyOf
    <2>3. seenBar' = seenBar
      BY <2>1 DEF seenBar, SeenOf
    <2>4. replyBar' = [replyBar EXCEPT ![r] = x]
      BY <2>1 DEF replyBar, ReplyOf
    <2>5. CASE x \in Failures
      <3>1. x \notin Unresolved
        BY <2>5, SubCacheAssumption
      <3> QED
        BY <1>0, <2>2, <2>3, <2>4, <2>5, <3>1, BarFields
    <2>6. CASE x \in Unresolved /\ pull[r].conf = x
      <3>1. seenBar[r] = x
        BY <2>6, SubCacheAssumption DEF seenBar, SeenOf
      <3> QED
        BY <1>0, <2>2, <2>3, <2>4, <2>6, <3>1, BarFields
    <2>7. CASE /\ pull[r].conf \in Confs /\ x \in made /\ x.url = UrlOf[pull[r].conf]
               /\ x.by = r \/ x.kind = "ok"
      <3>1. seenBar[r] = x.url
        BY <2>7 DEF seenBar, SeenOf
      <3> QED
        BY <1>0, <2>2, <2>3, <2>4, <2>7, <3>1, BarFields
    <2> QED
      BY <1>2, <2>5, <2>6, <2>7, PullTyped DEF PullSound
  <1>3. CASE ErrLog(r)
    BY <1>0, <1>2, <1>3, PullTyped DEF ErrLog, At, PullSound, Failures, Results
  <1>4. CASE Log(r)
    BY <1>0, <1>1, <1>2, <1>4 DEF Log, At
  <1> QED
    BY <1>3, <1>4

\* Caching is transparent but for age, however pulls, refreshes and configuration
\* changes interleave.
THEOREM CacheImplementsPullService == Spec => ImplementsPullService
  <1>1. Init => Service!Init
    <2> SUFFICES ASSUME Init PROVE Service!Init
      OBVIOUS
    <2>1. \A r \in Pulls : SeenOf(pull[r]) = None /\ ReplyOf(pull[r]) = None
      BY SubCacheAssumption DEF Init, NewPull, SeenOf, ReplyOf
    <2>2. \A m \in made : m.kind # "bad"
      BY DEF Init
    <2> QED
      BY <2>1, <2>2, BarFields DEF seenBar, replyBar
  <1>2. CacheInv /\ [Next]_vars => [Service!Next]_(Service!pullVars)
    <2> SUFFICES ASSUME CacheInv, [Next]_vars
                 PROVE  Service!Next \/ UNCHANGED Service!pullVars
      OBVIOUS
    <2>1. CASE Tick \/ UNCHANGED vars
      BY <2>1, BarFields DEF Tick, vars, seenBar, replyBar
    <2>2. ASSUME NEW r \in Pulls,
                 \/ RefreshHeaders(r) \/ RefreshFails(r) \/ RefreshStore(r)
          PROVE  UNCHANGED Service!pullVars
      BY <2>2, BarFields DEF RefreshHeaders, RefreshFails, RefreshStore, seenBar, replyBar
    <2> QED
      BY <2>1, <2>2, ResolveRefines, WorkRefines, ConvertRefines, AnswerRefines
      DEF Next, Service!Next
  <1> QED
    BY <1>1, <1>2, CacheInvariant, PTL DEF Spec, ImplementsPullService, Service!Spec
=============================================================================
