-------------------------- MODULE AliasResolveProofs --------------------------
(***************************************************************************)
(* Theorems about AliasResolve, for any aliases, profiles, templates,      *)
(* sources and payloads, and any number of writes between the reads.  The  *)
(* invariant says at every step of the resolve what the answers so far     *)
(* still tell about the store: all of it while nothing was written, the    *)
(* references while they stand, and otherwise only what was once on.       *)
(***************************************************************************)
EXTENDS AliasResolve, TLAPS

Rows == [payload : Payloads, templateId : Templates, sourceIds : SUBSET Sources]
Answers == [profile : Profiles, template : Templates, sources : SUBSET Sources]

StoreOK ==
    /\ alias \in [Aliases -> Profiles \cup {None}]
    /\ profile \in [Profiles -> Rows \cup {None}]
    /\ template \in [Templates -> Payloads \cup {None}]
    /\ source \in [Sources -> Payloads \cup {None}]
    /\ everProfile \subseteq Profiles /\ everTemplate \subseteq Templates
    /\ everSource \subseteq Sources

ResolverOK ==
    /\ pc \in {"idle", "readAlias", "readProfile", "readTemplate", "readSources", "done"}
    /\ pc # "idle" => asked \in Aliases
    /\ pc = "readProfile" => prof = [id |-> prof.id] /\ prof.id \in Profiles
    /\ pc \in {"readTemplate", "readSources"} =>
          /\ prof = [id |-> prof.id, templateId |-> prof.templateId, sourceIds |-> prof.sourceIds]
          /\ prof.id \in Profiles /\ prof.templateId \in Templates /\ prof.sourceIds \subseteq Sources
    /\ todo \subseteq Sources /\ got \subseteq Sources
    /\ pc \in {"idle", "readAlias", "readProfile", "readTemplate"} => got = {}
    /\ result \in Answers \cup {None}

TypeOK == StoreOK /\ ResolverOK

Reading == {"readAlias", "readProfile", "readTemplate", "readSources"}

\* What was read was on when it was read.
SeenOn ==
    /\ pc \in Reading => alwaysOn \subseteq On /\ On \subseteq onceOn
    /\ pc \in {"readTemplate", "readSources"} => prof.id \in onceOn
    /\ pc = "readSources" => prof.templateId \in onceOn /\ got \subseteq onceOn
    /\ OnlyLiveEntities

\* While nothing is written, what was read is what is there.
Undisturbed ==
    /\ pc \in Reading \ {"readAlias"} /\ ~disturbed => prof.id = alias[asked]
    /\ pc \in {"readTemplate", "readSources"} /\ ~disturbed =>
          /\ ProfileOn(prof.id)
          /\ prof.templateId = profile[prof.id].templateId
          /\ prof.sourceIds = profile[prof.id].sourceIds
    /\ pc = "readSources" /\ ~disturbed =>
          /\ TemplateOn(prof.templateId) /\ todo \subseteq prof.sourceIds
          /\ got = {s \in prof.sourceIds \ todo : SourceOn(s)}
    /\ QuietResolve

\* While the chain stands, what was read is the chain; and no source is given up
\* that was on all along.
Standing ==
    /\ pc \in Reading \ {"readAlias"} /\ steady => Refs(asked) # None /\ prof.id = alias[asked]
    /\ pc \in {"readTemplate", "readSources"} /\ steady =>
          /\ prof.templateId = profile[prof.id].templateId
          /\ prof.sourceIds = profile[prof.id].sourceIds
    /\ pc = "readSources" => prof.sourceIds \cap alwaysOn \subseteq got \cup todo
    /\ SteadyChainResolves

ResolveInv == TypeOK /\ SeenOn /\ Undisturbed /\ Standing

-----------------------------------------------------------------------------
(* What the steps have in common.                                          *)

\* A read changes nothing in the store, so all that is derived from it stays.
LEMMA SameStore ==
  ASSUME UNCHANGED storeVars
  PROVE  /\ On' = On
         /\ \A p : ProfileOn(p)' = ProfileOn(p)
         /\ \A t : TemplateOn(t)' = TemplateOn(t)
         /\ \A s : SourceOn(s)' = SourceOn(s)
         /\ \A a : Refs(a)' = Refs(a)
         /\ \A a : ResolveNow(a)' = ResolveNow(a)
  BY DEF storeVars, On, ProfileOn, TemplateOn, SourceOn, Refs, ResolveNow

\* The history as it is kept between two steps of a resolve.
LEMMA Watched ==
  ASSUME pc \in Reading, pc' # "idle", Observe
  PROVE  /\ ~disturbed' => ~disturbed /\ UNCHANGED storeVars
         /\ onceOn' = onceOn \cup On'
         /\ alwaysOn' = alwaysOn \cap On'
         /\ steady' => steady /\ Refs(asked)' = Refs(asked) /\ Refs(asked) # None
  BY DEF Observe, Reading

\* A write of the registry puts whole records and names known entities.
LEMMA StoreStep == StoreOK /\ Store!Next => StoreOK'
  <1> SUFFICES ASSUME StoreOK, Store!Next PROVE StoreOK'
    OBVIOUS
  <1>1. ASSUME NEW a \in Aliases, NEW p \in Profiles \cup {None}, Store!PutAlias(a, p)
        PROVE  StoreOK'
    BY <1>1 DEF StoreOK, Store!PutAlias
  <1>2. ASSUME NEW p \in Profiles, NEW x \in Payloads, NEW t \in Templates,
               NEW S \in SUBSET Sources, Store!PutProfile(p, x, t, S)
        PROVE  StoreOK'
    <2>1. [payload |-> x, templateId |-> t, sourceIds |-> S] \in Rows
      BY DEF Rows
    <2> QED
      BY <1>2, <2>1 DEF StoreOK, Store!PutProfile
  <1>3. ASSUME NEW t \in Templates, NEW x \in Payloads, Store!PutTemplate(t, x)
        PROVE  StoreOK'
    BY <1>3 DEF StoreOK, Store!PutTemplate
  <1>4. ASSUME NEW s \in Sources, NEW x \in Payloads, Store!PutSource(s, x)
        PROVE  StoreOK'
    BY <1>4 DEF StoreOK, Store!PutSource
  <1>5. ASSUME NEW p \in Profiles, Store!DeleteProfile(p) PROVE StoreOK'
    BY <1>5 DEF StoreOK, Store!DeleteProfile
  <1>6. ASSUME NEW t \in Templates, Store!DeleteTemplate(t) PROVE StoreOK'
    BY <1>6 DEF StoreOK, Store!DeleteTemplate
  <1>7. ASSUME NEW s \in Sources, Store!DeleteSource(s) PROVE StoreOK'
    BY <1>7 DEF StoreOK, Store!DeleteSource
  <1> QED
    BY <1>1, <1>2, <1>3, <1>4, <1>5, <1>6, <1>7 DEF Store!Next

\* What a profile that is there refers to.
LEMMA RowOf ==
  ASSUME StoreOK, NEW p \in Profiles, profile[p] # None
  PROVE  profile[p].templateId \in Templates /\ profile[p].sourceIds \subseteq Sources
  BY DEF StoreOK, Rows

-----------------------------------------------------------------------------
(* The invariant.                                                          *)

LEMMA ResolveInit == Init => ResolveInv
  BY DEF Init, Store!Init, ResolveInv, TypeOK, StoreOK, ResolverOK, SeenOn, Undisturbed,
     Standing, Reading, OnlyLiveEntities, QuietResolve, SteadyChainResolves

\* The types are kept.
LEMMA TypeStep == TypeOK /\ [Next]_vars => TypeOK'
  <1> SUFFICES ASSUME TypeOK, [Next]_vars PROVE TypeOK'
    OBVIOUS
  <1>1. CASE Write /\ Observe
    BY <1>1, StoreStep DEF Write, TypeOK, ResolverOK, resolver
  <1>2. ASSUME UNCHANGED storeVars, ResolverOK' PROVE TypeOK'
    BY <1>2 DEF TypeOK, StoreOK, storeVars
  <1>3. CASE UNCHANGED vars
    BY <1>3, <1>2 DEF vars, storeVars, TypeOK, ResolverOK
  <1>4. CASE Read /\ Observe
    <2>1. UNCHANGED storeVars
      BY <1>4 DEF Read
    <2> SUFFICES ResolverOK'
      BY <1>2, <2>1
    <2>2. ASSUME NEW a \in Aliases, Begin(a) PROVE ResolverOK'
      BY <2>2 DEF Begin, TypeOK, ResolverOK
    <2>3. CASE ReadAlias
      BY <2>3 DEF ReadAlias, Null, TypeOK, ResolverOK, StoreOK
    <2>4. CASE ReadProfile
      <3>1. CASE ~ProfileOn(prof.id)
        BY <2>4, <3>1 DEF ReadProfile, Null, TypeOK, ResolverOK
      <3>2. CASE ProfileOn(prof.id)
        BY <2>4, <3>2, RowOf DEF ReadProfile, ProfileOn, TypeOK, ResolverOK
      <3> QED
        BY <3>1, <3>2
    <2>5. CASE ReadTemplate
      <3>1. prof.id \in Profiles /\ prof.templateId \in Templates /\ prof.sourceIds \subseteq Sources
        BY <2>5 DEF ReadTemplate, TypeOK, ResolverOK
      <3>2. Resolved({}) \in Answers
        BY <3>1 DEF Resolved, Answers
      <3> QED
        BY <2>5, <3>1, <3>2 DEF ReadTemplate, Null, TypeOK, ResolverOK
    <2>6. CASE ReadSource
      <3>1. prof.id \in Profiles /\ prof.templateId \in Templates /\ prof.sourceIds \subseteq Sources
        BY <2>6 DEF ReadSource, TypeOK, ResolverOK
      <3>2. todo' \subseteq Sources /\ got' \subseteq Sources
        BY <2>6 DEF ReadSource, TypeOK, ResolverOK
      <3>3. Resolved(got') \in Answers
        BY <3>1, <3>2 DEF Resolved, Answers
      <3> QED
        BY <2>6, <3>1, <3>2, <3>3 DEF ReadSource, TypeOK, ResolverOK
    <2>7. CASE Reset
      BY <2>7 DEF Reset, TypeOK, ResolverOK
    <2> QED
      BY <1>4, <2>2, <2>3, <2>4, <2>5, <2>6, <2>7 DEF Read
  <1> QED
    BY <1>1, <1>3, <1>4 DEF Next

-----------------------------------------------------------------------------
(* What was read was on when it was read.                                  *)

\* What is taken from `profile`, `template` and `source` when it is on is in On.
LEMMA OnIds ==
  /\ \A p \in Profiles : ProfileOn(p) => p \in On
  /\ \A t \in Templates : TemplateOn(t) => t \in On
  /\ \A s \in Sources : SourceOn(s) => s \in On
  BY DEF On

LEMMA SeenStep == TypeOK /\ SeenOn /\ [Next]_vars => SeenOn'
  <1> SUFFICES ASSUME TypeOK, SeenOn, [Next]_vars PROVE SeenOn'
    OBVIOUS
  <1>1. CASE Write /\ Observe
    <2>1. UNCHANGED resolver /\ pc # "done"
      BY <1>1 DEF Write
    <2>2. CASE pc = "idle"
      BY <2>1, <2>2 DEF resolver, SeenOn, OnlyLiveEntities, Reading
    <2>3. CASE pc \in Reading
      <3>1. onceOn' = onceOn \cup On' /\ alwaysOn' = alwaysOn \cap On'
        BY <1>1, <2>1, <2>3, Watched DEF resolver, Reading
      <3> QED
        BY <2>1, <2>3, <3>1 DEF resolver, SeenOn, OnlyLiveEntities, Reading
    <2> QED
      BY <2>1, <2>2, <2>3 DEF TypeOK, ResolverOK, Reading
  <1>2. CASE UNCHANGED vars
    <2>1. UNCHANGED storeVars /\ UNCHANGED resolver /\ UNCHANGED history
      BY <1>2 DEF vars, storeVars, resolver, history
    <2>2. On' = On
      BY <2>1, SameStore
    <2> QED
      BY <2>1, <2>2 DEF resolver, history, SeenOn, OnlyLiveEntities
  <1>3. CASE Read /\ Observe
    <2>1. On' = On
      BY <1>3, SameStore DEF Read
    <2>2. ASSUME NEW a \in Aliases, Begin(a) PROVE SeenOn'
      BY <1>3, <2>1, <2>2 DEF Begin, Observe, SeenOn, OnlyLiveEntities, Reading
    <2>3. CASE pc \in Reading /\ pc' # "idle"
      <3>1. onceOn' = onceOn \cup On /\ alwaysOn' = alwaysOn \cap On
        BY <1>3, <2>1, <2>3, Watched
      <3>2. CASE ReadAlias
        BY <2>1, <3>1, <3>2 DEF ReadAlias, Null, SeenOn, OnlyLiveEntities, Reading
      <3>3. CASE ReadProfile
        <4>1. prof.id \in Profiles
          BY <3>3 DEF ReadProfile, TypeOK, ResolverOK
        <4>2. CASE ~ProfileOn(prof.id)
          BY <2>1, <3>1, <3>3, <4>2 DEF ReadProfile, Null, SeenOn, OnlyLiveEntities, Reading
        <4>3. CASE ProfileOn(prof.id)
          <5>1. pc' = "readTemplate" /\ prof'.id = prof.id
            BY <3>3, <4>3 DEF ReadProfile
          <5> QED
            BY <2>1, <3>1, <4>1, <4>3, <5>1, OnIds DEF SeenOn, OnlyLiveEntities, Reading
        <4> QED
          BY <4>2, <4>3
      <3>4. CASE ReadTemplate
        <4>1. prof.id \in onceOn /\ prof.templateId \in Templates
          BY <3>4 DEF ReadTemplate, TypeOK, ResolverOK, SeenOn
        <4>2. CASE ~TemplateOn(prof.templateId)
          BY <3>4, <4>2 DEF ReadTemplate, Null, SeenOn, OnlyLiveEntities, Reading
        <4>3. CASE TemplateOn(prof.templateId) /\ prof.sourceIds = {}
          <5>1. pc' = "done" /\ result' = Resolved({})
            BY <3>4, <4>3 DEF ReadTemplate
          <5> QED
            BY <3>1, <4>1, <4>3, <5>1, OnIds DEF Resolved, SeenOn, OnlyLiveEntities, Reading
        <4>4. CASE TemplateOn(prof.templateId) /\ prof.sourceIds # {}
          <5>1. pc' = "readSources" /\ prof' = prof /\ got' = {}
            BY <3>4, <4>4 DEF ReadTemplate, TypeOK, ResolverOK
          <5> QED
            BY <2>1, <3>1, <4>1, <4>4, <5>1, OnIds
            DEF SeenOn, OnlyLiveEntities, Reading
        <4> QED
          BY <4>2, <4>3, <4>4
      <3>5. CASE ReadSource
        <4>1. prof.id \in onceOn /\ prof.templateId \in onceOn
          BY <3>5 DEF ReadSource, SeenOn
        <4>2. got' \subseteq onceOn'
          BY <3>1, <3>5, OnIds DEF ReadSource, SeenOn, TypeOK, ResolverOK
        <4>3. CASE pc' = "done"
          <5>1. result' = Resolved(got')
            BY <3>5, <4>3 DEF ReadSource
          <5> QED
            BY <3>1, <4>1, <4>2, <4>3, <5>1 DEF Resolved, SeenOn, OnlyLiveEntities, Reading
        <4>4. CASE pc' = pc
          BY <2>1, <3>1, <3>5, <4>1, <4>2, <4>4
          DEF ReadSource, SeenOn, OnlyLiveEntities, Reading
        <4> QED
          BY <3>5, <4>3, <4>4 DEF ReadSource
      <3> QED
        BY <1>3, <2>3, <3>2, <3>3, <3>4, <3>5 DEF Read, Begin, Reset, Reading
    <2>4. CASE Reset
      BY <2>4 DEF Reset, SeenOn, OnlyLiveEntities, Reading
    <2> QED
      BY <1>3, <2>2, <2>3, <2>4
      DEF Read, ReadAlias, ReadProfile, ReadTemplate, ReadSource, Null, Reading
  <1> QED
    BY <1>1, <1>2, <1>3 DEF Next

-----------------------------------------------------------------------------
(* While nothing is written, what was read is what is there.               *)

LEMMA UndisturbedStep == TypeOK /\ Undisturbed /\ [Next]_vars => Undisturbed'
  <1> SUFFICES ASSUME TypeOK, Undisturbed, [Next]_vars PROVE Undisturbed'
    OBVIOUS
  <1>1. ASSUME UNCHANGED storeVars, UNCHANGED resolver, ~disturbed' => ~disturbed
        PROVE  Undisturbed'
    <2>1. /\ \A a : ResolveNow(a)' = ResolveNow(a)
          /\ \A p : ProfileOn(p)' = ProfileOn(p)
          /\ \A t : TemplateOn(t)' = TemplateOn(t)
          /\ \A s : SourceOn(s)' = SourceOn(s)
      BY <1>1, SameStore
    <2>2. /\ pc' = pc /\ asked' = asked /\ prof' = prof /\ todo' = todo /\ got' = got
          /\ result' = result /\ alias' = alias /\ profile' = profile
      BY <1>1 DEF resolver, storeVars
    <2>3. ResolveNow(asked)' = ResolveNow(asked)
      BY <1>1 DEF ResolveNow, ProfileOn, TemplateOn, SourceOn, storeVars, resolver
    <2>4. CASE disturbed'
      BY <2>4 DEF Undisturbed, QuietResolve
    <2>5. CASE ~disturbed'
      <3>1. ProfileOn(prof.id)' = ProfileOn(prof.id)
        BY <1>1 DEF ProfileOn, storeVars, resolver
      <3>2. TemplateOn(prof.templateId)' = TemplateOn(prof.templateId)
        BY <1>1 DEF TemplateOn, storeVars, resolver
      <3>3. {s \in prof.sourceIds \ todo : SourceOn(s)}' = {s \in prof.sourceIds \ todo : SourceOn(s)}
        BY <1>1 DEF SourceOn, storeVars, resolver
      <3> QED
        BY <1>1, <2>2, <2>3, <2>5, <3>1, <3>2, <3>3 DEF Undisturbed, QuietResolve
    <2> QED
      BY <2>4, <2>5
  <1>2. CASE UNCHANGED vars
    BY <1>1, <1>2 DEF vars, storeVars, resolver
  <1>3. CASE Write /\ Observe
    <2>1. UNCHANGED resolver /\ pc # "done"
      BY <1>3 DEF Write
    <2>2. CASE pc = "idle"
      BY <2>1, <2>2 DEF resolver, Undisturbed, QuietResolve, Reading
    <2>3. CASE pc \in Reading
      <3>1. ~disturbed' => ~disturbed /\ UNCHANGED storeVars
        BY <1>3, <2>1, <2>3, Watched DEF resolver, Reading
      <3>2. CASE disturbed'
        BY <2>1, <2>3, <3>2 DEF Undisturbed, QuietResolve, resolver, Reading
      <3> QED
        BY <1>1, <2>1, <3>1, <3>2
    <2> QED
      BY <2>1, <2>2, <2>3 DEF TypeOK, ResolverOK, Reading
  <1>4. CASE Read /\ Observe
    <2>1. UNCHANGED storeVars
      BY <1>4 DEF Read
    <2>2. ASSUME NEW a \in Aliases, Begin(a) PROVE Undisturbed'
      BY <2>2 DEF Begin, Undisturbed, QuietResolve, Reading
    <2>3. CASE pc \in Reading /\ pc' # "idle"
      <3>1. CASE disturbed'
        BY <3>1 DEF Undisturbed, QuietResolve
      <3>2. CASE ~disturbed'
        <4>1. ~disturbed
          BY <1>4, <2>3, <3>2, Watched
        <4>2. /\ alias' = alias /\ profile' = profile /\ template' = template
              /\ source' = source
          BY <2>1 DEF storeVars
        <4>3. \A a : ResolveNow(a)' = ResolveNow(a)
          BY <2>1, SameStore
        <4>4. CASE ReadAlias
          <5>1. CASE alias[asked] = None
            <6>1. ResolveNow(asked) = None /\ result' = None /\ asked' = asked /\ pc' = "done"
              BY <4>4, <5>1 DEF ReadAlias, Null, ResolveNow, ProfileOn
            <6>2. ResolveNow(asked)' = None
              BY <4>2, <6>1 DEF ResolveNow, ProfileOn, TemplateOn, SourceOn
            <6> QED
              BY <6>1, <6>2 DEF Undisturbed, QuietResolve, Reading
          <5>2. CASE alias[asked] # None
            BY <4>2, <4>4, <5>2 DEF ReadAlias, Undisturbed, QuietResolve, Reading
          <5> QED
            BY <5>1, <5>2
        <4>5. CASE ReadProfile
          <5>1. prof.id = alias[asked]
            BY <4>1, <4>5 DEF ReadProfile, Undisturbed, Reading
          <5>2. CASE ~ProfileOn(prof.id)
            <6>1. ResolveNow(asked) = None /\ result' = None /\ asked' = asked /\ pc' = "done"
              BY <4>5, <5>1, <5>2 DEF ReadProfile, Null, ResolveNow
            <6>2. ResolveNow(asked)' = None
              BY <4>2, <6>1 DEF ResolveNow, ProfileOn, TemplateOn, SourceOn
            <6> QED
              BY <6>1, <6>2 DEF Undisturbed, QuietResolve, Reading
          <5>3. CASE ProfileOn(prof.id)
            <6>1. /\ pc' = "readTemplate" /\ asked' = asked
                  /\ prof' = [id |-> prof.id, templateId |-> profile[prof.id].templateId,
                              sourceIds |-> profile[prof.id].sourceIds]
              BY <4>5, <5>3 DEF ReadProfile
            <6>2. ProfileOn(prof.id)'
              BY <4>2, <5>3, <6>1 DEF ProfileOn
            <6> QED
              BY <4>2, <5>1, <6>1, <6>2 DEF Undisturbed, QuietResolve, Reading
          <5> QED
            BY <5>2, <5>3
        <4>6. CASE ReadTemplate
          <5>1. /\ prof.id = alias[asked] /\ ProfileOn(prof.id)
                /\ prof.templateId = profile[prof.id].templateId
                /\ prof.sourceIds = profile[prof.id].sourceIds
            BY <4>1, <4>6 DEF ReadTemplate, Undisturbed, Reading
          <5>2. CASE ~TemplateOn(prof.templateId)
            <6>1. ResolveNow(asked) = None /\ result' = None /\ asked' = asked /\ pc' = "done"
              BY <4>6, <5>1, <5>2 DEF ReadTemplate, Null, ResolveNow
            <6>2. ResolveNow(asked)' = None
              BY <4>2, <6>1 DEF ResolveNow, ProfileOn, TemplateOn, SourceOn
            <6> QED
              BY <6>1, <6>2 DEF Undisturbed, QuietResolve, Reading
          <5>3. CASE TemplateOn(prof.templateId) /\ prof.sourceIds = {}
            <6>1. pc' = "done" /\ result' = Resolved({}) /\ asked' = asked
              BY <4>6, <5>3 DEF ReadTemplate
            <6>2. ResolveNow(asked) = Resolved({})
              BY <5>1, <5>3 DEF ResolveNow, Resolved
            <6>3. ResolveNow(asked)' = ResolveNow(asked)
              BY <4>2, <6>1 DEF ResolveNow, ProfileOn, TemplateOn, SourceOn
            <6> QED
              BY <6>1, <6>2, <6>3 DEF Undisturbed, QuietResolve, Reading
          <5>4. CASE TemplateOn(prof.templateId) /\ prof.sourceIds # {}
            <6>1. /\ pc' = "readSources" /\ prof' = prof /\ asked' = asked
                  /\ todo' = prof.sourceIds /\ got' = {}
              BY <4>6, <5>4 DEF ReadTemplate, TypeOK, ResolverOK
            <6>2. ProfileOn(prof.id)' /\ TemplateOn(prof.templateId)'
              BY <4>2, <5>1, <5>4, <6>1 DEF ProfileOn, TemplateOn
            <6>3. got' = {s \in prof.sourceIds \ todo : SourceOn(s)}'
              BY <6>1
            <6> QED
              BY <4>2, <5>1, <6>1, <6>2, <6>3 DEF Undisturbed, QuietResolve, Reading
          <5> QED
            BY <5>2, <5>3, <5>4
        <4>7. CASE ReadSource
          <5>1. /\ prof.id = alias[asked] /\ ProfileOn(prof.id) /\ TemplateOn(prof.templateId)
                /\ prof.templateId = profile[prof.id].templateId
                /\ prof.sourceIds = profile[prof.id].sourceIds
                /\ todo \subseteq prof.sourceIds
                /\ got = {s \in prof.sourceIds \ todo : SourceOn(s)}
            BY <4>1, <4>7 DEF ReadSource, Undisturbed, Reading
          <5>2. /\ asked' = asked /\ prof' = prof /\ todo' \subseteq prof.sourceIds
                /\ got' = {s \in prof.sourceIds \ todo' : SourceOn(s)}
            BY <4>7, <5>1 DEF ReadSource
          <5>3. CASE pc' = "done"
            <6>1. todo' = {} /\ result' = Resolved(got')
              BY <4>7, <5>3 DEF ReadSource
            <6>2. got' = {s \in profile[alias[asked]].sourceIds : SourceOn(s)}
              BY <5>1, <5>2, <6>1
            <6>3. ResolveNow(asked) = Resolved(got')
              BY <5>1, <6>2 DEF ResolveNow, Resolved
            <6>4. ResolveNow(asked)' = ResolveNow(asked)
              BY <4>2, <5>2 DEF ResolveNow, ProfileOn, TemplateOn, SourceOn
            <6> QED
              BY <5>3, <6>1, <6>3, <6>4 DEF Undisturbed, QuietResolve, Reading
          <5>4. CASE pc' = pc
            <6>1. ProfileOn(prof.id)' /\ TemplateOn(prof.templateId)'
              BY <4>2, <5>1, <5>2 DEF ProfileOn, TemplateOn
            <6>2. {s \in prof.sourceIds \ todo : SourceOn(s)}'
                    = {s \in prof.sourceIds \ todo' : SourceOn(s)}
              BY <4>2, <5>2 DEF SourceOn
            <6>3. pc' = "readSources"
              BY <4>7, <5>4 DEF ReadSource
            <6> QED
              BY <4>2, <5>1, <5>2, <6>1, <6>2, <6>3 DEF Undisturbed, QuietResolve, Reading
          <5> QED
            BY <4>7, <5>3, <5>4 DEF ReadSource
        <4> QED
          BY <1>4, <2>3, <4>4, <4>5, <4>6, <4>7 DEF Read, Begin, Reset, Reading
      <3> QED
        BY <3>1, <3>2
    <2>4. CASE Reset
      BY <2>4 DEF Reset, Undisturbed, QuietResolve, Reading
    <2> QED
      BY <1>4, <2>2, <2>3, <2>4
      DEF Read, ReadAlias, ReadProfile, ReadTemplate, ReadSource, Null, Reading
  <1> QED
    BY <1>2, <1>3, <1>4 DEF Next

-----------------------------------------------------------------------------
(* While the chain stands, what was read is the chain.                     *)

\* Ids of different kinds differ, so an id in On is on as what it is an id of.
LEMMA OnKinds ==
  /\ \A p \in Profiles : p \in On => ProfileOn(p)
  /\ \A t \in Templates : t \in On => TemplateOn(t)
  /\ \A s \in Sources : s \in On => SourceOn(s)
  BY ResolveAssumption DEF On

\* A chain that is there names the profile of the alias and what that refers to.
LEMMA ChainOf ==
  ASSUME NEW a, Refs(a) # None
  PROVE  /\ alias[a] # None /\ profile[alias[a]] # None
         /\ Refs(a) = [profile |-> alias[a], templateId |-> profile[alias[a]].templateId,
                       sourceIds |-> profile[alias[a]].sourceIds]
  BY DEF Refs

\* When the references are the same after a write, the profile is and names the same.
LEMMA ChainStays ==
  ASSUME NEW a, Refs(a) # None, Refs(a)' = Refs(a)
  PROVE  /\ alias'[a] = alias[a]
         /\ profile'[alias[a]].templateId = profile[alias[a]].templateId
         /\ profile'[alias[a]].sourceIds = profile[alias[a]].sourceIds
  <1>1. Refs(a) = [profile |-> alias[a], templateId |-> profile[alias[a]].templateId,
                   sourceIds |-> profile[alias[a]].sourceIds]
    BY ChainOf
  <1>2. Refs(a)' = IF alias'[a] = None \/ profile'[alias'[a]] = None THEN None
                   ELSE [profile |-> alias'[a], templateId |-> profile'[alias'[a]].templateId,
                         sourceIds |-> profile'[alias'[a]].sourceIds]
    BY DEF Refs
  <1>3. Refs(a)' = [profile |-> alias'[a], templateId |-> profile'[alias'[a]].templateId,
                    sourceIds |-> profile'[alias'[a]].sourceIds]
    BY <1>2
  <1>4. Refs(a)'.profile = alias'[a] /\ Refs(a)'.templateId = profile'[alias'[a]].templateId
        /\ Refs(a)'.sourceIds = profile'[alias'[a]].sourceIds
    BY <1>3
  <1>5. Refs(a).profile = alias[a] /\ Refs(a).templateId = profile[alias[a]].templateId
        /\ Refs(a).sourceIds = profile[alias[a]].sourceIds
    BY <1>1
  <1> QED
    BY <1>4, <1>5

LEMMA StandingStep == TypeOK /\ Standing /\ [Next]_vars => Standing'
  <1> SUFFICES ASSUME TypeOK, Standing, [Next]_vars PROVE Standing'
    OBVIOUS
  <1>1. CASE UNCHANGED vars
    <2>1. UNCHANGED storeVars /\ UNCHANGED resolver /\ UNCHANGED history
      BY <1>1 DEF vars, storeVars, resolver, history
    <2>2. Refs(asked)' = Refs(asked)
      BY <2>1 DEF Refs, storeVars, resolver
    <2> QED
      BY <2>1, <2>2 DEF storeVars, resolver, history, Standing, SteadyChainResolves
  <1>2. CASE Write /\ Observe
    <2>1. UNCHANGED resolver /\ pc # "done"
      BY <1>2 DEF Write
    <2>2. CASE pc = "idle"
      BY <2>1, <2>2 DEF resolver, Standing, SteadyChainResolves, Reading
    <2>3. CASE pc \in Reading
      <3>1. /\ alwaysOn' \subseteq alwaysOn
            /\ steady' => steady /\ Refs(asked)' = Refs(asked) /\ Refs(asked) # None
        BY <1>2, <2>1, <2>3, Watched DEF resolver, Reading
      <3>2. CASE ~steady'
        BY <2>1, <2>3, <3>1, <3>2 DEF resolver, Standing, SteadyChainResolves, Reading
      <3>3. CASE steady'
        <4>1. Refs(asked)' = Refs(asked) /\ Refs(asked) # None /\ steady
          BY <3>1, <3>3
        <4>2. /\ alias'[asked] = alias[asked]
              /\ profile'[alias[asked]].templateId = profile[alias[asked]].templateId
              /\ profile'[alias[asked]].sourceIds = profile[alias[asked]].sourceIds
          <5>1. \A a : a = asked => Refs(a)' = Refs(asked)'
            BY <2>1 DEF Refs, resolver
          <5> QED
            BY <4>1, <5>1, ChainStays
        <4> QED
          BY <2>1, <2>3, <3>1, <4>1, <4>2
          DEF resolver, Standing, SteadyChainResolves, Reading
      <3> QED
        BY <3>2, <3>3
    <2> QED
      BY <2>1, <2>2, <2>3 DEF TypeOK, ResolverOK, Reading
  <1>3. CASE Read /\ Observe
    <2>1. alias' = alias /\ profile' = profile /\ On' = On
      BY <1>3, SameStore DEF Read, storeVars
    <2>2. ASSUME NEW a \in Aliases, Begin(a) PROVE Standing'
      BY <2>2 DEF Begin, Standing, SteadyChainResolves, Reading
    <2>3. CASE Reset
      BY <2>3 DEF Reset, Standing, SteadyChainResolves, Reading
    <2>4. CASE pc \in Reading /\ pc' # "idle" /\ asked' = asked
      <3> DEFINE chain == Refs(asked)
      <3>1. /\ alwaysOn' \subseteq alwaysOn /\ alwaysOn' \subseteq On
            /\ steady' => steady /\ chain # None
        BY <1>3, <2>1, <2>4, Watched
      <3>2. chain # None =>
              chain = [profile |-> alias[asked], templateId |-> profile[alias[asked]].templateId,
                       sourceIds |-> profile[alias[asked]].sourceIds]
        BY ChainOf
      <3>3. chain' = chain
        BY <2>1, <2>4 DEF Refs
      <3> HIDE DEF chain
      <3>4. CASE ReadAlias
        <4>1. CASE alias[asked] = None
          <5>1. ~steady' /\ pc' = "done"
            BY <3>1, <3>4, <4>1 DEF ReadAlias, Null, chain, Refs
          <5> QED
            BY <5>1 DEF Standing, SteadyChainResolves, Reading
        <4>2. CASE alias[asked] # None
          <5>1. pc' = "readProfile" /\ prof'.id = alias[asked]
            BY <3>4, <4>2 DEF ReadAlias
          <5> QED
            BY <2>1, <2>4, <3>1, <3>3, <5>1 DEF Standing, SteadyChainResolves, Reading, chain
        <4> QED
          BY <4>1, <4>2
      <3>5. CASE ReadProfile
        <4>1. prof.id \in Profiles /\ (steady => prof.id = alias[asked])
          BY <3>5 DEF ReadProfile, TypeOK, ResolverOK, Standing, Reading
        <4>2. CASE ~ProfileOn(prof.id)
          <5>1. pc' = "done" /\ result' = None
            BY <3>5, <4>2 DEF ReadProfile, Null
          <5>2. prof.id \notin alwaysOn'
            BY <3>1, <4>1, <4>2, OnKinds
          <5>3. steady' => chain.profile \notin alwaysOn'
            BY <3>1, <3>2, <4>1, <5>2
          <5> QED
            BY <3>3, <5>1, <5>3 DEF Standing, SteadyChainResolves, Reading, chain
        <4>3. CASE ProfileOn(prof.id)
          <5>1. /\ pc' = "readTemplate" /\ prof'.id = prof.id
                /\ prof'.templateId = profile[prof.id].templateId
                /\ prof'.sourceIds = profile[prof.id].sourceIds
            BY <3>5, <4>3 DEF ReadProfile
          <5> QED
            BY <2>1, <2>4, <3>1, <3>3, <4>1, <5>1
            DEF Standing, SteadyChainResolves, Reading, chain
        <4> QED
          BY <4>2, <4>3
      <3>6. ASSUME pc \in {"readTemplate", "readSources"}, steady'
            PROVE  /\ prof.id = alias[asked] /\ chain.templateId = prof.templateId
                   /\ chain.sourceIds = prof.sourceIds /\ chain # None
        BY <3>1, <3>2, <3>6 DEF Standing, Reading
      <3>7. CASE ReadTemplate
        <4>1. /\ pc = "readTemplate" /\ prof.id \in Profiles /\ prof.templateId \in Templates
              /\ prof.sourceIds \subseteq Sources
          BY <3>7 DEF ReadTemplate, TypeOK, ResolverOK
        <4>2. CASE ~TemplateOn(prof.templateId)
          <5>1. pc' = "done" /\ result' = None
            BY <3>7, <4>2 DEF ReadTemplate, Null
          <5>2. prof.templateId \notin alwaysOn'
            BY <3>1, <4>1, <4>2, OnKinds
          <5>3. steady' => chain.templateId \notin alwaysOn'
            BY <3>6, <4>1, <5>2
          <5> QED
            BY <3>3, <5>1, <5>3 DEF Standing, SteadyChainResolves, Reading, chain
        <4>3. CASE TemplateOn(prof.templateId) /\ prof.sourceIds = {}
          <5>1. pc' = "done" /\ result' = Resolved({})
            BY <3>7, <4>3 DEF ReadTemplate
          <5>2. Resolved({}) \in [profile : Profiles, template : Templates, sources : SUBSET Sources]
            BY <4>1 DEF Resolved
          <5>3. result' # None
            BY <5>1, <5>2, ResolveAssumption
          <5>4. steady' => chain.sourceIds = {} /\ chain # None
            BY <3>6, <4>1, <4>3
          <5> QED
            BY <3>3, <5>1, <5>3, <5>4 DEF Standing, SteadyChainResolves, Reading, chain
        <4>4. CASE TemplateOn(prof.templateId) /\ prof.sourceIds # {}
          <5>1. pc' = "readSources" /\ todo' = prof.sourceIds /\ prof' = prof
            BY <3>7, <4>4 DEF ReadTemplate
          <5> QED
            BY <2>1, <2>4, <3>1, <3>3, <4>1, <5>1
            DEF Standing, SteadyChainResolves, Reading, chain
        <4> QED
          BY <4>2, <4>3, <4>4
      <3>8. CASE ReadSource
        <4>1. /\ pc = "readSources" /\ prof.id \in Profiles /\ prof.templateId \in Templates
              /\ prof.sourceIds \subseteq Sources /\ prof' = prof
              /\ got' \subseteq Sources
          BY <3>8 DEF ReadSource, TypeOK, ResolverOK
        <4>2. prof.sourceIds \cap alwaysOn' \subseteq got' \cup todo'
          <5>1. PICK s \in todo : /\ todo' = todo \ {s}
                                  /\ got' = got \cup {x \in {s} : SourceOn(x)}
            BY <3>8 DEF ReadSource
          <5>2. s \in Sources
            BY <5>1 DEF TypeOK, ResolverOK
          <5>3. s \in alwaysOn' => s \in got'
            BY <3>1, <5>1, <5>2, OnKinds
          <5> QED
            BY <3>1, <4>1, <5>1, <5>3 DEF Standing
        <4>3. CASE pc' = "done"
          <5>1. todo' = {} /\ result' = Resolved(got')
            BY <3>8, <4>3 DEF ReadSource
          <5>2. Resolved(got') \in [profile : Profiles, template : Templates, sources : SUBSET Sources]
            BY <4>1 DEF Resolved
          <5>3. result' # None /\ result'.sources = got'
            BY <5>1, <5>2, ResolveAssumption DEF Resolved
          <5>4. steady' => chain.sourceIds = prof.sourceIds /\ chain # None
            BY <3>6, <4>1
          <5> QED
            BY <3>3, <4>2, <4>3, <5>1, <5>3, <5>4
            DEF Standing, SteadyChainResolves, Reading, chain
        <4>4. CASE pc' = pc
          BY <2>1, <2>4, <3>1, <3>3, <4>1, <4>2, <4>4
          DEF Standing, SteadyChainResolves, Reading, chain
        <4> QED
          BY <3>8, <4>3, <4>4 DEF ReadSource
      <3> QED
        BY <1>3, <2>4, <3>4, <3>5, <3>7, <3>8 DEF Read, Begin, Reset, Reading
    <2> QED
      BY <1>3, <2>2, <2>3, <2>4
      DEF Read, ReadAlias, ReadProfile, ReadTemplate, ReadSource, Null, Reading
  <1> QED
    BY <1>1, <1>2, <1>3 DEF Next

-----------------------------------------------------------------------------
(* The theorems.                                                           *)

\* At every step of a resolve, what the reads so far have told still holds of the
\* store as far as it was left alone.
THEOREM ResolveInvariant == Spec => []ResolveInv
  <1>1. Init => ResolveInv
    BY ResolveInit
  <1>2. ResolveInv /\ [Next]_vars => ResolveInv'
    BY TypeStep, SeenStep, UndisturbedStep, StandingStep DEF ResolveInv
  <1> QED
    BY <1>1, <1>2, PTL DEF Spec

\* Four rounds of reads over a store that is left alone are one atomic look at it,
\* for any number of sources and of writes before and after.
THEOREM QuietResolvesAreAtomic == Spec => []QuietResolve
  <1>1. ResolveInv => QuietResolve
    BY DEF ResolveInv, Undisturbed
  <1> QED
    BY <1>1, ResolveInvariant, PTL

\* No interleaving of writes makes resolveAlias answer with an entity that was
\* missing or disabled all along.
THEOREM AnswersWereLive == Spec => []OnlyLiveEntities
  <1>1. ResolveInv => OnlyLiveEntities
    BY DEF ResolveInv, SeenOn
  <1> QED
    BY <1>1, ResolveInvariant, PTL

\* No interleaving of other writes turns a chain that stands into a 404, or costs
\* it a source that stays enabled.
THEOREM StandingChainsResolve == Spec => []SteadyChainResolves
  <1>1. ResolveInv => SteadyChainResolves
    BY DEF ResolveInv, Standing
  <1> QED
    BY <1>1, ResolveInvariant, PTL
=============================================================================
