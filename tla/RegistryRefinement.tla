-------------------------- MODULE RegistryRefinement --------------------------
(***************************************************************************)
(* Registry implements RefStore: what a handler writes names only entities *)
(* that were stored at some time.  The check of a reference and the put    *)
(* are several awaits apart, so the invariant follows what was checked     *)
(* through the handler; it says nothing of what is stored at the put, and  *)
(* the second part does, for handlers that do not overlap.                 *)
(***************************************************************************)
EXTENDS RegistryProofs

\* The history variables have seen what is stored.
StoredSeen ==
    /\ \A p \in Profiles : profile[p] # None =>
          p \in everProfile /\ profile[p].sourceIds \subseteq everSource
    /\ \A t \in Templates : template[t] # None => t \in everTemplate
    /\ \A s \in Sources : source[s] # None => s \in everSource

\* What handler x has checked so far was stored when it did.
Checked(x) ==
    /\ x.pc \in {"checkSources", "rereadProfile", "writeProfile"} => x.ref \in everTemplate
    /\ x.pc = "checkSources" => /\ x.req.sourceIds # None
                                /\ x.req.sourceIds \ (x.todo \cup x.found) \subseteq everSource
    /\ x.pc \in {"rereadProfile", "writeProfile"} =>
          x.req.sourceIds = None \/ x.req.sourceIds \subseteq everSource
    /\ x.pc = "writeProfile" => x.cur = None \/ x.cur.sourceIds \subseteq everSource
    /\ x.pc = "writeAlias" => x.ref \in everProfile

RefsChecked == \A c \in Clients : Checked(h[c])

RefInv == TypeInv /\ StoredSeen /\ RefsChecked

\* Observe sees every record of the next state, and forgets none it saw.
LEMMA EverGrows ==
  ASSUME Observe
  PROVE  /\ everProfile \subseteq everProfile' /\ everTemplate \subseteq everTemplate'
         /\ everSource \subseteq everSource'
         /\ \A p \in Profiles : profile'[p] # None => p \in everProfile'
         /\ \A t \in Templates : template'[t] # None => t \in everTemplate'
         /\ \A s \in Sources : source'[s] # None => s \in everSource'
  BY DEF Observe

\* What a handler has checked was stored, and stays stored at some time.
LEMMA CheckedStays ==
  ASSUME RefInv, Observe, NEW d \in Clients, h'[d] = h[d]
  PROVE  Checked(h[d])'
  BY EverGrows DEF RefInv, RefsChecked, Checked

\* A handler that begins has checked nothing yet.
LEMMA BeginChecked ==
  ASSUME TypeInv, NEW c \in Clients, NEW r, NEW step, NEW ref, NEW todo,
         Begin(c, r, step, ref, todo),
         step \notin {"checkSources", "rereadProfile", "writeProfile", "writeAlias"}
  PROVE  Checked(h[c])'
  <1>1. h'[c] = Begun(r, step, ref, todo)
    BY DEF Begin, Begun, TypeInv, TypeOK
  <1> QED
    BY <1>1, BegunFields DEF Checked

\* Nor has one that stopped.
LEMMA StopChecked ==
  ASSUME TypeInv, NEW c \in Clients, Stop(c)
  PROVE  Checked(h[c])'
  BY DEF Stop, Idle, Checked, TypeInv, TypeOK

\* The template check passes with a template that is stored.
LEMMA CheckTemplateChecked ==
  ASSUME RefInv, Observe, NEW c \in Clients, CheckTemplate(c)
  PROVE  Checked(h[c])'
  <1>0. h[c] \in Handlers /\ h \in [Clients -> Handlers] /\ TypeInv
    BY DEF RefInv, TypeInv, TypeOK
  <1>1. h[c].req \in ProfileReqs /\ h[c].ref \in Templates
    BY <1>0, HandlerFields DEF CheckTemplate, At, Shape
  <1>2. CASE Stop(c)
    BY <1>0, <1>2, StopChecked
  <1>3. CASE ~Stop(c)
    <2>1. h[c].ref \in everTemplate'
      BY <1>1, <1>3, EverGrows DEF CheckTemplate, RefInv, StoredSeen
    <2>2. CASE h[c].req.sourceIds \in {None, {}}
      <3>1. h' = [h EXCEPT ![c].pc = "rereadProfile"]
        BY <1>3, <2>2 DEF CheckTemplate
      <3>2. /\ h'[c].pc = "rereadProfile" /\ h'[c].req = h[c].req
            /\ h'[c].ref = h[c].ref
        BY <1>0, <3>1 DEF Handlers
      <3> QED
        BY <2>1, <2>2, <3>2 DEF Checked
    <2>3. CASE h[c].req.sourceIds \notin {None, {}}
      <3>1. h' = [h EXCEPT ![c].pc = "checkSources", ![c].todo = h[c].req.sourceIds]
        BY <1>3, <2>3 DEF CheckTemplate
      <3>2. /\ h'[c].pc = "checkSources" /\ h'[c].req = h[c].req
            /\ h'[c].ref = h[c].ref /\ h'[c].todo = h[c].req.sourceIds
        BY <1>0, <3>1 DEF Handlers
      <3> QED
        BY <2>1, <2>3, <3>2 DEF Checked
    <2> QED
      BY <2>2, <2>3
  <1> QED
    BY <1>2, <1>3

\* The loop passes when every source id it looked up was stored.
LEMMA CheckSourceChecked ==
  ASSUME RefInv, Observe, NEW c \in Clients, CheckSource(c)
  PROVE  Checked(h[c])'
  <1>0. h[c] \in Handlers /\ h \in [Clients -> Handlers] /\ TypeInv
    BY DEF RefInv, TypeInv, TypeOK
  <1>1. h[c].req \in ProfileReqs /\ h[c].ref \in Templates /\ h[c].todo \subseteq Sources
    BY <1>0, HandlerFields DEF CheckSource, At, Shape
  <1>2. /\ h[c].ref \in everTemplate' /\ h[c].req.sourceIds # None
        /\ h[c].req.sourceIds \ (h[c].todo \cup h[c].found) \subseteq everSource'
    BY EverGrows DEF CheckSource, At, RefInv, RefsChecked, Checked
  <1>3. PICK s \in h[c].todo :
          LET left    == h[c].todo \ {s}
              missing == h[c].found \cup {x \in {s} : source[x] = None}
          IN  IF left # {}
              THEN h' = [h EXCEPT ![c].todo = left, ![c].found = missing]
              ELSE IF missing # {} THEN Stop(c)
              ELSE h' = [h EXCEPT ![c].pc = "rereadProfile", ![c].todo = {}]
    BY DEF CheckSource
  <1> DEFINE left    == h[c].todo \ {s}
             missing == h[c].found \cup {x \in {s} : source[x] = None}
  <1>4. h[c].req.sourceIds \ (left \cup missing) \subseteq everSource'
    <2>1. s \in missing \/ s \in everSource'
      BY <1>1, EverGrows DEF RefInv, StoredSeen
    <2> QED
      BY <1>2, <2>1
  <1>5. CASE Stop(c)
    BY <1>0, <1>5, StopChecked
  <1>6. CASE left # {} /\ h' = [h EXCEPT ![c].todo = left, ![c].found = missing]
    <2>1. /\ h'[c].pc = "checkSources" /\ h'[c].req = h[c].req /\ h'[c].ref = h[c].ref
          /\ h'[c].todo = left /\ h'[c].found = missing
      BY <1>0, <1>6 DEF Handlers, CheckSource, At
    <2> HIDE DEF left, missing
    <2> QED
      BY <1>2, <1>4, <2>1 DEF Checked
  <1>7. CASE /\ left = {} /\ missing = {}
             /\ h' = [h EXCEPT ![c].pc = "rereadProfile", ![c].todo = {}]
    <2>1. /\ h'[c].pc = "rereadProfile" /\ h'[c].req = h[c].req /\ h'[c].ref = h[c].ref
      BY <1>0, <1>7 DEF Handlers
    <2>2. h[c].req.sourceIds \subseteq everSource'
      BY <1>4, <1>7
    <2> QED
      BY <1>2, <2>1, <2>2 DEF Checked
  <1> QED
    BY <1>3, <1>5, <1>6, <1>7

\* The second read adds references that were stored when they were checked.
LEMMA RereadProfileChecked ==
  ASSUME RefInv, Observe, NEW c \in Clients, RereadProfile(c)
  PROVE  Checked(h[c])'
  <1>0. h[c] \in Handlers /\ h \in [Clients -> Handlers] /\ TypeInv
    BY DEF RefInv, TypeInv, TypeOK
  <1>1. h[c].req.id \in Profiles
    BY <1>0, HandlerFields, RequestIds DEF RereadProfile, At, Shape
  <1>2. /\ h[c].ref \in everTemplate'
        /\ h[c].req.sourceIds = None \/ h[c].req.sourceIds \subseteq everSource'
    BY EverGrows DEF RereadProfile, At, RefInv, RefsChecked, Checked
  <1>3. CASE Stop(c)
    BY <1>0, <1>3, StopChecked
  <1>4. CASE ~Stop(c)
    <2>1. h' = [h EXCEPT ![c].pc = "writeProfile", ![c].cur = profile[h[c].req.id]]
      BY <1>4 DEF RereadProfile
    <2>2. /\ h'[c].pc = "writeProfile" /\ h'[c].req = h[c].req /\ h'[c].ref = h[c].ref
          /\ h'[c].cur = profile[h[c].req.id]
      BY <1>0, <2>1 DEF Handlers
    <2>3. profile[h[c].req.id] = None \/ profile[h[c].req.id].sourceIds \subseteq everSource'
      BY <1>1, EverGrows DEF RefInv, StoredSeen
    <2> QED
      BY <1>2, <2>2, <2>3 DEF Checked
  <1> QED
    BY <1>3, <1>4

\* The profile check passes with a profile that is stored.
LEMMA CheckProfileChecked ==
  ASSUME RefInv, Observe, NEW c \in Clients, CheckProfile(c)
  PROVE  Checked(h[c])'
  <1>0. h[c] \in Handlers /\ h \in [Clients -> Handlers] /\ TypeInv
    BY DEF RefInv, TypeInv, TypeOK
  <1>1. h[c].ref \in Profiles
    BY <1>0, HandlerFields DEF CheckProfile, At, Shape
  <1>2. CASE Stop(c)
    BY <1>0, <1>2, StopChecked
  <1>3. CASE ~Stop(c)
    <2>1. h'[c].pc = "writeAlias" /\ h'[c].ref = h[c].ref
      BY <1>0, <1>3 DEF CheckProfile, Handlers
    <2>2. h[c].ref \in everProfile'
      BY <1>1, <1>3, EverGrows DEF CheckProfile, RefInv, StoredSeen
    <2> QED
      BY <2>1, <2>2 DEF Checked
  <1> QED
    BY <1>2, <1>3

\* Every step keeps what is known of the references a handler has checked.
LEMMA StepChecked ==
  ASSUME RefInv, Observe, NEW c \in Clients, Step(c)
  PROVE  Checked(h[c])'
  <1>0. h[c] \in Handlers /\ h \in [Clients -> Handlers] /\ TypeInv
    BY DEF RefInv, TypeInv, TypeOK
  <1>1. CASE \/ BeginPutSource(c) \/ BeginPutTemplate(c) \/ BeginPutProfile(c)
             \/ BeginCreateAlias(c) \/ BeginUpdateAlias(c) \/ BeginDeleteAlias(c)
             \/ BeginDelete(c)
    BY <1>0, <1>1, BeginChecked DEF BeginPutSource, BeginPutTemplate, BeginPutProfile,
       BeginCreateAlias, BeginUpdateAlias, BeginDeleteAlias, BeginDelete
  <1>2. CASE CheckTemplate(c) \/ CheckSource(c) \/ RereadProfile(c) \/ CheckProfile(c)
    BY <1>2, CheckTemplateChecked, CheckSourceChecked, RereadProfileChecked,
       CheckProfileChecked
  <1>3. CASE \/ WriteSource(c) \/ WriteTemplate(c) \/ WriteProfile(c) \/ WriteAlias(c)
             \/ RemoveAlias(c) \/ Remove(c) \/ Abort(c)
    BY <1>0, <1>3, StopChecked DEF WriteSource, WriteTemplate, WriteProfile, WriteAlias,
       RemoveAlias, Remove, Abort
  <1>4. CASE \/ ReadSource(c) \/ ReadTemplate(c) \/ ReadProfile(c) \/ CheckFree(c)
             \/ ReadAlias(c) \/ ListPage(c) \/ FetchOne(c)
    <2>1. CASE Stop(c)
      BY <1>0, <2>1, StopChecked
    <2>2. CASE ~Stop(c)
      <3>1. ReadSource(c) \/ ReadTemplate(c) \/ ReadProfile(c) \/ CheckFree(c) \/ ReadAlias(c)
              => h'[c].pc \in {"writeSource", "writeTemplate", "checkTemplate", "checkProfile"}
        BY <1>0, <2>2 DEF ReadSource, ReadTemplate, ReadProfile, CheckFree, ReadAlias,
           Handlers
      <3>2. ListPage(c) => h'[c].pc \in {"list", "fetch", "remove"}
        <4> SUFFICES ASSUME ListPage(c) PROVE h'[c].pc \in {"list", "fetch", "remove"}
          OBVIOUS
        <4>1. PICK page \in SUBSET h[c].todo :
                LET left  == h[c].todo \ page
                    names == h[c].names \cup {k \in page : Stored(k, h[c].req)}
                IN  h' = [h EXCEPT ![c].todo = left, ![c].names = names,
                                   ![c].pc = IF left # {} THEN "list"
                                             ELSE IF names # {} THEN "fetch" ELSE "remove"]
          BY DEF ListPage
        <4> QED
          BY <1>0, <4>1 DEF Handlers
      <3>3. FetchOne(c) => h'[c].pc \in {"fetch", "remove"}
        BY <1>0, <2>2 DEF FetchOne, At, Handlers
      <3> QED
        BY <1>4, <3>1, <3>2, <3>3 DEF Checked
    <2> QED
      BY <2>1, <2>2
  <1> QED
    BY <1>1, <1>2, <1>3, <1>4 DEF Step

-----------------------------------------------------------------------------
(* What a step writes.                                                     *)

\* A record that does not change leaves its history variable alone.
LEMMA EverExact ==
  ASSUME RefInv, Observe
  PROVE  /\ profile' = profile => everProfile' = everProfile
         /\ template' = template => everTemplate' = everTemplate
         /\ source' = source => everSource' = everSource
  BY DEF Observe, RefInv, StoredSeen

\* The steps that write to KV, each a step of RefStore.
Writes(c) ==
    WriteSource(c) \/ WriteTemplate(c) \/ WriteProfile(c) \/ WriteAlias(c)
        \/ RemoveAlias(c) \/ Remove(c)

\* The steps that write are the puts and the removals.
LEMMA OnlyWritesChangeKv ==
  ASSUME NEW c \in Clients, Step(c), ~Writes(c)
  PROVE  UNCHANGED kvVars
  BY DEF Step, Writes, BeginPutSource, BeginPutTemplate, BeginPutProfile,
     BeginCreateAlias, BeginUpdateAlias, BeginDeleteAlias, BeginDelete, Begin, ReadSource,
     ReadTemplate, ReadProfile, CheckTemplate, CheckSource, RereadProfile, CheckFree,
     ReadAlias, CheckProfile, ListPage, FetchOne, Abort

\* A payload or a row is never None, so what is put is stored.
LEMMA PutPresent ==
  /\ \A x \in Opt(Payloads), y \in Opt(Payloads) : Or(x, Or(y, DefaultPayload)) \in Payloads
  /\ None \notin Payloads /\ None \notin ProfileRows
  BY RegistryAssumption DEF Or, Opt, ProfileRows

\* The put of a profile is a PutProfile of RefStore.
LEMMA WriteProfileStored ==
  ASSUME RefInv, Observe, NEW c \in Clients, WriteProfile(c)
  PROVE  /\ StoredSeen'
         /\ \E p \in Profiles, x \in Payloads, t \in Templates, S \in SUBSET Sources :
               Store!PutProfile(p, x, t, S)
  <1> DEFINE r == h[c].req
             row == MergedProfile(r, h[c].ref, h[c].cur)
  <1>1. r \in ProfileReqs /\ h[c].ref \in Templates /\ h[c].cur \in Opt(ProfileRows)
    BY HandlerFields DEF WriteProfile, At, Shape, RefInv
  <1>2. row \in ProfileRows /\ r.id \in Profiles /\ row # None
    BY <1>1, MergedWhole, RequestIds, PutPresent
  <1>3. /\ h[c].ref \in everTemplate
        /\ r.sourceIds = None \/ r.sourceIds \subseteq everSource
        /\ h[c].cur = None \/ h[c].cur.sourceIds \subseteq everSource
    BY DEF WriteProfile, At, RefInv, RefsChecked, Checked
  <1>4. row.templateId = h[c].ref /\ row.sourceIds \subseteq everSource
    BY <1>3 DEF MergedProfile, Or
  <1>5. /\ profile' = [profile EXCEPT ![r.id] = row]
        /\ alias' = alias /\ template' = template /\ source' = source
    BY DEF WriteProfile
  <1>6. everTemplate' = everTemplate /\ everSource' = everSource
    BY <1>5, EverExact
  <1>7. profile \in [Profiles -> Opt(ProfileRows)]
    BY DEF RefInv, TypeInv, TypeOK
  <1> HIDE DEF r, row
  <1>8. everProfile' = everProfile \cup {r.id}
    BY <1>2, <1>5, <1>7 DEF Observe, RefInv, StoredSeen
  <1>9. StoredSeen'
    BY <1>2, <1>4, <1>5, <1>6, <1>7, EverGrows DEF RefInv, StoredSeen
  <1>10. Store!PutProfile(r.id, row.payload, row.templateId, row.sourceIds)
    <2>1. row = [payload |-> row.payload, templateId |-> row.templateId,
                 sourceIds |-> row.sourceIds]
      BY <1>2 DEF ProfileRows
    <2> QED
      BY <1>3, <1>4, <1>5, <1>6, <1>8, <2>1 DEF Store!PutProfile
  <1>11. row.payload \in Payloads /\ row.templateId \in Templates
           /\ row.sourceIds \in SUBSET Sources
    BY <1>2 DEF ProfileRows
  <1> QED
    BY <1>2, <1>9, <1>10, <1>11

\* Every write is a write of RefStore.
LEMMA WriteStored ==
  ASSUME RefInv, Observe, NEW c \in Clients, Writes(c)
  PROVE  StoredSeen' /\ Store!Next
  <1>0. /\ alias \in [Aliases -> Opt(Profiles)] /\ profile \in [Profiles -> Opt(ProfileRows)]
        /\ template \in [Templates -> Opt(Payloads)] /\ source \in [Sources -> Opt(Payloads)]
    BY DEF RefInv, TypeInv, TypeOK
  <1>1. CASE WriteSource(c)
    <2> DEFINE s == h[c].req.id
               x == Or(h[c].req.payload, Or(h[c].cur, DefaultPayload))
    <2>1. s \in Sources /\ x \in Payloads /\ x # None
      BY <1>1, HandlerFields, RequestIds, PutPresent DEF WriteSource, At, Shape, RefInv
    <2>2. source' = [source EXCEPT ![s] = x] /\ UNCHANGED <<alias, profile, template>>
      BY <1>1 DEF WriteSource
    <2> HIDE DEF s, x
    <2>3. everSource' = everSource \cup {s}
      BY <1>0, <2>1, <2>2 DEF Observe, RefInv, StoredSeen
    <2>4. Store!PutSource(s, x)
      BY <2>2, <2>3, EverExact DEF Store!PutSource
    <2>5. StoredSeen'
      BY <2>2, EverGrows DEF RefInv, StoredSeen
    <2> QED
      BY <2>1, <2>4, <2>5 DEF Store!Next
  <1>2. CASE WriteTemplate(c)
    <2> DEFINE t == h[c].req.id
               x == Or(h[c].req.payload, Or(h[c].cur, DefaultPayload))
    <2>1. t \in Templates /\ x \in Payloads /\ x # None
      BY <1>2, HandlerFields, RequestIds, PutPresent DEF WriteTemplate, At, Shape, RefInv
    <2>2. template' = [template EXCEPT ![t] = x] /\ UNCHANGED <<alias, profile, source>>
      BY <1>2 DEF WriteTemplate
    <2> HIDE DEF t, x
    <2>3. everTemplate' = everTemplate \cup {t}
      BY <1>0, <2>1, <2>2 DEF Observe, RefInv, StoredSeen
    <2>4. Store!PutTemplate(t, x)
      BY <2>2, <2>3, EverExact DEF Store!PutTemplate
    <2>5. StoredSeen'
      BY <2>2, EverGrows DEF RefInv, StoredSeen
    <2> QED
      BY <2>1, <2>4, <2>5 DEF Store!Next
  <1>3. CASE WriteProfile(c)
    BY <1>3, WriteProfileStored DEF Store!Next
  <1>4. CASE WriteAlias(c) \/ RemoveAlias(c)
    <2>1. PICK p \in everProfile \cup {None} : alias' = [alias EXCEPT ![h[c].req.id] = p]
      BY <1>4 DEF WriteAlias, RemoveAlias, At, RefInv, RefsChecked, Checked
    <2>2. h[c].req.id \in Aliases
      BY <1>4, HandlerFields, RequestIds DEF WriteAlias, RemoveAlias, At, Shape, RefInv
    <2>3. UNCHANGED <<profile, template, source>>
      BY <1>4 DEF WriteAlias, RemoveAlias
    <2>4. Store!PutAlias(h[c].req.id, p)
      BY <2>1, <2>3, EverExact DEF Store!PutAlias
    <2>5. p \in Profiles \cup {None}
      BY DEF RefInv, TypeInv, TypeOK
    <2>6. StoredSeen'
      BY <2>3, EverGrows DEF RefInv, StoredSeen
    <2> QED
      BY <2>2, <2>4, <2>5, <2>6 DEF Store!Next
  <1>5. CASE Remove(c)
    <2>0. h[c].req \in DeleteReqs
      BY <1>5, HandlerFields DEF Remove, At, Shape, RefInv
    <2>1. CASE RemoveProfile(c)
      <3>1. h[c].req.id \in Profiles
        BY <2>0, <2>1, DeleteKinds DEF RemoveProfile
      <3>2. \A p \in Profiles : profile'[p] = None \/ profile'[p] = profile[p]
        BY <1>0, <2>1 DEF RemoveProfile
      <3>3. everProfile' = everProfile
        BY <3>2 DEF Observe, RefInv, StoredSeen
      <3>4. Store!DeleteProfile(h[c].req.id)
        BY <2>1, <3>3, EverExact DEF RemoveProfile, Store!DeleteProfile
      <3>5. StoredSeen'
        BY <2>1, <3>2, EverGrows DEF RemoveProfile, RefInv, StoredSeen
      <3> QED
        BY <3>1, <3>4, <3>5 DEF Store!Next
    <2>2. CASE RemoveTemplate(c)
      <3>1. h[c].req.id \in Templates
        BY <2>0, <2>2, DeleteKinds DEF RemoveTemplate
      <3>2. \A t \in Templates : template'[t] = None \/ template'[t] = template[t]
        BY <1>0, <2>2 DEF RemoveTemplate
      <3>3. everTemplate' = everTemplate
        BY <3>2 DEF Observe, RefInv, StoredSeen
      <3>4. Store!DeleteTemplate(h[c].req.id)
        BY <2>2, <3>3, EverExact DEF RemoveTemplate, Store!DeleteTemplate
      <3>5. StoredSeen'
        BY <2>2, <3>2, EverGrows DEF RemoveTemplate, RefInv, StoredSeen
      <3> QED
        BY <3>1, <3>4, <3>5 DEF Store!Next
    <2>3. CASE RemoveSource(c)
      <3>1. h[c].req.id \in Sources
        BY <2>0, <2>3, DeleteKinds DEF RemoveSource
      <3>2. \A s \in Sources : source'[s] = None \/ source'[s] = source[s]
        BY <1>0, <2>3 DEF RemoveSource
      <3>3. everSource' = everSource
        BY <3>2 DEF Observe, RefInv, StoredSeen
      <3>4. Store!DeleteSource(h[c].req.id)
        BY <2>3, <3>3, EverExact DEF RemoveSource, Store!DeleteSource
      <3>5. StoredSeen'
        BY <2>3, <3>2, EverGrows DEF RemoveSource, RefInv, StoredSeen
      <3> QED
        BY <3>1, <3>4, <3>5 DEF Store!Next
    <2> QED
      BY <1>5, <2>1, <2>2, <2>3 DEF Remove
  <1> QED
    BY <1>1, <1>2, <1>3, <1>4, <1>5 DEF Writes

\* A step is a step of RefStore or changes none of its variables.
LEMMA StepRefines ==
  ASSUME RefInv, Observe, NEW c \in Clients, Step(c)
  PROVE  StoredSeen' /\ (Store!Next \/ UNCHANGED Store!storeVars)
  <1>1. CASE Writes(c)
    BY <1>1, WriteStored
  <1>2. CASE ~Writes(c)
    <2>1. UNCHANGED kvVars
      BY <1>2, OnlyWritesChangeKv
    <2>2. UNCHANGED Store!storeVars
      BY <2>1, EverExact DEF kvVars, Store!storeVars
    <2>3. StoredSeen'
      BY <2>1, EverGrows DEF kvVars, RefInv, StoredSeen
    <2> QED
      BY <2>2, <2>3
  <1> QED
    BY <1>1, <1>2

\* The references of every record, and those a handler is about to write, were
\* stored at some time.
THEOREM RefInvariant == Spec => []RefInv
  <1>1. Init => StoredSeen /\ RefsChecked
    BY DEF Init, StoredSeen, RefsChecked, Checked, Idle
  <1>2. /\ TypeInv /\ StoredSeen /\ RefsChecked /\ [Next]_vars
        => StoredSeen' /\ RefsChecked'
    <2> SUFFICES ASSUME RefInv, [Next]_vars PROVE StoredSeen' /\ RefsChecked'
      BY DEF RefInv
    <2>1. CASE Next
      <3>1. PICK c \in Clients : Step(c)
        BY <2>1 DEF Next
      <3>2. \A d \in Clients \ {c} : Checked(h[d])'
        BY <2>1, <3>1, OneHandler, CheckedStays DEF Next, RefInv
      <3>3. Checked(h[c])' /\ StoredSeen'
        BY <2>1, <3>1, StepChecked, StepRefines DEF Next
      <3> QED
        BY <3>2, <3>3 DEF RefsChecked
    <2>2. CASE UNCHANGED vars
      BY <2>2 DEF vars, RefInv, StoredSeen, RefsChecked, Checked
    <2> QED
      BY <2>1, <2>2
  <1> QED
    BY <1>1, <1>2, TypeInvariant, PTL DEF Spec, RefInv

\* The admin handlers implement the registry's promise: one record per step, and
\* references only to entities that were stored at some time.
THEOREM RegistryImplementsRefStore == Spec => ImplementsRefStore
  <1>1. Init => Store!Init
    BY DEF Init, Store!Init
  <1>2. RefInv /\ [Next]_vars => [Store!Next]_(Store!storeVars)
    <2> SUFFICES ASSUME RefInv, [Next]_vars
                 PROVE  Store!Next \/ UNCHANGED Store!storeVars
      OBVIOUS
    <2>1. CASE Next
      BY <2>1, StepRefines DEF Next
    <2>2. CASE UNCHANGED vars
      BY <2>2 DEF vars, Store!storeVars
    <2> QED
      BY <2>1, <2>2
  <1> QED
    BY <1>1, <1>2, RefInvariant, PTL DEF Spec, ImplementsRefStore, Store!Spec

-----------------------------------------------------------------------------
(* As long as handlers do not overlap no reference of Registry dangles,    *)
(* for any number of clients and records and wherever a handler fails.     *)
(* The invariant is the one above with "stored" for "stored at some time": *)
(* what a handler has checked still holds when it writes, because no other *)
(* handler is there to change it, and what a delete has not seen let go is *)
(* every referrer there is.                                                *)


StoredTemplates == {t \in Templates : template[t] # None}
StoredSources == {s \in Sources : source[s] # None}
StoredProfiles == {p \in Profiles : profile[p] # None}

\* No two handlers are in flight.
Alone == \A c, d \in Clients : c # d => h[c].pc = "idle" \/ h[d].pc = "idle"

\* No reference dangles.
Intact ==
    /\ \A a \in Aliases : alias[a] # None => alias[a] \in StoredProfiles
    /\ \A p \in StoredProfiles : /\ profile[p].templateId \in StoredTemplates
                                 /\ profile[p].sourceIds \subseteq StoredSources

\* What the handler of client c has checked holds.
Holds(c) ==
    /\ h[c].pc \in {"checkSources", "rereadProfile", "writeProfile"} =>
          h[c].ref \in StoredTemplates
    /\ h[c].pc = "checkSources" =>
          /\ h[c].req.sourceIds # None
          /\ h[c].req.sourceIds \ (h[c].todo \cup h[c].found) \subseteq StoredSources
    /\ h[c].pc \in {"rereadProfile", "writeProfile"} =>
          h[c].req.sourceIds = None \/ h[c].req.sourceIds \subseteq StoredSources
    /\ h[c].pc = "writeProfile" => h[c].cur = None \/ h[c].cur.sourceIds \subseteq StoredSources
    /\ h[c].pc = "writeAlias" => h[c].ref \in StoredProfiles
    /\ h[c].pc \in {"list", "fetch", "remove"} =>
          linked[c] = Referrers(h[c].req, alias, profile)

Serial == overlapped \/ (Alone /\ Intact /\ \A c \in Clients : Holds(c))

SerialInv == LinkInv /\ Serial

\* What a step is taken in while handlers do not overlap.
Quiet == LinkInv /\ Alone /\ Intact /\ \A c \in Clients : Holds(c)

\* A handler that is idle has nothing to hold.
LEMMA IdleHolds ==
  ASSUME NEW c \in Clients, h'[c].pc = "idle"
  PROVE  Holds(c)'
  BY DEF Holds

\* One that stops is.
LEMMA StopHolds ==
  ASSUME TypeInv, NEW c \in Clients, Stop(c)
  PROVE  Holds(c)'
  BY IdleHolds DEF Stop, Idle, TypeInv, TypeOK

\* While nothing is written and a handler stands still, what it holds does too.
LEMMA StillHolds ==
  ASSUME Quiet, Observe, NEW d \in Clients, UNCHANGED kvVars, h'[d] = h[d]
  PROVE  Holds(d)'
  <1>1. h[d].pc \in {"list", "fetch", "remove"} => linked'[d] = linked[d]
    BY DEF Observe, Quiet, Holds, kvVars
  <1> QED
    BY <1>1 DEF Quiet, Holds, StoredTemplates, StoredSources, StoredProfiles, kvVars

\* A delete that goes on has the same referrers as before.
LEMMA ScanHolds ==
  ASSUME Quiet, Observe, NEW c \in Clients, UNCHANGED kvVars, h'[c].req = h[c].req,
         h[c].pc \in {"list", "fetch"}, h'[c].pc \in {"list", "fetch", "remove"}
  PROVE  Holds(c)'
  <1>1. linked'[c] = Referrers(h[c].req, alias, profile)
    BY DEF Observe, Quiet, Holds, kvVars
  <1> QED
    BY <1>1 DEF Holds, kvVars

\* A handler that begins has checked nothing; a delete has all its referrers ahead.
LEMMA BeginHolds ==
  ASSUME Quiet, Observe, NEW c \in Clients, NEW r, NEW step, NEW ref, NEW todo,
         Begin(c, r, step, ref, todo),
         step \notin {"checkSources", "rereadProfile", "writeProfile", "writeAlias",
                      "fetch", "remove"}
  PROVE  Holds(c)'
  <1>1. h'[c] = Begun(r, step, ref, todo)
    BY DEF Begin, Begun, Quiet, LinkInv, TypeInv, TypeOK
  <1>2. h'[c].pc = step
    BY <1>1, BegunFields
  <1>3. step = "list" => linked'[c] = Referrers(h'[c].req, alias', profile')
    BY <1>2 DEF Begin, Observe
  <1> QED
    BY <1>2, <1>3 DEF Holds

\* The template check passes with a template that is stored.
LEMMA CheckTemplateHolds ==
  ASSUME Quiet, Observe, NEW c \in Clients, CheckTemplate(c)
  PROVE  Holds(c)'
  <1>0. h[c] \in Handlers /\ h \in [Clients -> Handlers] /\ TypeInv
    BY DEF Quiet, LinkInv, TypeInv, TypeOK
  <1>1. h[c].ref \in Templates
    BY <1>0, HandlerFields DEF CheckTemplate, At, Shape
  <1>2. CASE Stop(c)
    BY <1>0, <1>2, StopHolds
  <1>3. CASE ~Stop(c)
    <2>1. h[c].ref \in StoredTemplates'
      BY <1>1, <1>3 DEF CheckTemplate, StoredTemplates, kvVars
    <2>2. CASE h[c].req.sourceIds \in {None, {}}
      <3>1. h' = [h EXCEPT ![c].pc = "rereadProfile"]
        BY <1>3, <2>2 DEF CheckTemplate
      <3>2. /\ h'[c].pc = "rereadProfile" /\ h'[c].req = h[c].req
            /\ h'[c].ref = h[c].ref
        BY <1>0, <3>1 DEF Handlers
      <3> QED
        BY <2>1, <2>2, <3>2 DEF Holds
    <2>3. CASE h[c].req.sourceIds \notin {None, {}}
      <3>1. h' = [h EXCEPT ![c].pc = "checkSources", ![c].todo = h[c].req.sourceIds]
        BY <1>3, <2>3 DEF CheckTemplate
      <3>2. /\ h'[c].pc = "checkSources" /\ h'[c].req = h[c].req
            /\ h'[c].ref = h[c].ref /\ h'[c].todo = h[c].req.sourceIds
        BY <1>0, <3>1 DEF Handlers
      <3> QED
        BY <2>1, <2>3, <3>2 DEF Holds
    <2> QED
      BY <2>2, <2>3
  <1> QED
    BY <1>2, <1>3

\* The loop passes when every source id it looked up is stored.
LEMMA CheckSourceHolds ==
  ASSUME Quiet, Observe, NEW c \in Clients, CheckSource(c)
  PROVE  Holds(c)'
  <1>0. h[c] \in Handlers /\ h \in [Clients -> Handlers] /\ TypeInv
    BY DEF Quiet, LinkInv, TypeInv, TypeOK
  <1>1. h[c].todo \subseteq Sources
    BY <1>0, HandlerFields DEF CheckSource, At, Shape
  <1>2. StoredTemplates' = StoredTemplates /\ StoredSources' = StoredSources
    BY DEF CheckSource, kvVars, StoredTemplates, StoredSources
  <1>3. /\ h[c].ref \in StoredTemplates /\ h[c].req.sourceIds # None
        /\ h[c].req.sourceIds \ (h[c].todo \cup h[c].found) \subseteq StoredSources
    BY DEF CheckSource, At, Quiet, Holds
  <1>4. PICK s \in h[c].todo :
          LET left    == h[c].todo \ {s}
              missing == h[c].found \cup {x \in {s} : source[x] = None}
          IN  IF left # {}
              THEN h' = [h EXCEPT ![c].todo = left, ![c].found = missing]
              ELSE IF missing # {} THEN Stop(c)
              ELSE h' = [h EXCEPT ![c].pc = "rereadProfile", ![c].todo = {}]
    BY DEF CheckSource
  <1> DEFINE left    == h[c].todo \ {s}
             missing == h[c].found \cup {x \in {s} : source[x] = None}
  <1>5. h[c].req.sourceIds \ (left \cup missing) \subseteq StoredSources
    <2>1. s \in missing \/ s \in StoredSources
      BY <1>1 DEF StoredSources
    <2> QED
      BY <1>3, <2>1
  <1>6. CASE Stop(c)
    BY <1>0, <1>6, StopHolds
  <1>7. CASE left # {} /\ h' = [h EXCEPT ![c].todo = left, ![c].found = missing]
    <2>1. /\ h'[c].pc = "checkSources" /\ h'[c].req = h[c].req /\ h'[c].ref = h[c].ref
          /\ h'[c].todo = left /\ h'[c].found = missing
      BY <1>0, <1>7 DEF Handlers, CheckSource, At
    <2> HIDE DEF left, missing
    <2> QED
      BY <1>2, <1>3, <1>5, <2>1 DEF Holds
  <1>8. CASE /\ left = {} /\ missing = {}
             /\ h' = [h EXCEPT ![c].pc = "rereadProfile", ![c].todo = {}]
    <2>1. /\ h'[c].pc = "rereadProfile" /\ h'[c].req = h[c].req /\ h'[c].ref = h[c].ref
      BY <1>0, <1>8 DEF Handlers
    <2>2. h[c].req.sourceIds \subseteq StoredSources
      BY <1>5, <1>8
    <2> QED
      BY <1>2, <1>3, <2>1, <2>2 DEF Holds
  <1> QED
    BY <1>4, <1>6, <1>7, <1>8

\* The second read adds references that do not dangle.
LEMMA RereadProfileHolds ==
  ASSUME Quiet, Observe, NEW c \in Clients, RereadProfile(c)
  PROVE  Holds(c)'
  <1>0. h[c] \in Handlers /\ h \in [Clients -> Handlers] /\ TypeInv
    BY DEF Quiet, LinkInv, TypeInv, TypeOK
  <1>1. h[c].req.id \in Profiles
    BY <1>0, HandlerFields, RequestIds DEF RereadProfile, At, Shape
  <1>2. StoredTemplates' = StoredTemplates /\ StoredSources' = StoredSources
    BY DEF RereadProfile, kvVars, StoredTemplates, StoredSources
  <1>3. /\ h[c].ref \in StoredTemplates
        /\ h[c].req.sourceIds = None \/ h[c].req.sourceIds \subseteq StoredSources
    BY DEF RereadProfile, At, Quiet, Holds
  <1>4. CASE Stop(c)
    BY <1>0, <1>4, StopHolds
  <1>5. CASE ~Stop(c)
    <2>1. h' = [h EXCEPT ![c].pc = "writeProfile", ![c].cur = profile[h[c].req.id]]
      BY <1>5 DEF RereadProfile
    <2>2. /\ h'[c].pc = "writeProfile" /\ h'[c].req = h[c].req /\ h'[c].ref = h[c].ref
          /\ h'[c].cur = profile[h[c].req.id]
      BY <1>0, <2>1 DEF Handlers
    <2>3. profile[h[c].req.id] = None \/ profile[h[c].req.id].sourceIds \subseteq StoredSources
      BY <1>1 DEF Quiet, Intact, StoredProfiles
    <2> QED
      BY <1>2, <1>3, <2>2, <2>3 DEF Holds
  <1> QED
    BY <1>4, <1>5

\* The profile check passes with a profile that is stored.
LEMMA CheckProfileHolds ==
  ASSUME Quiet, Observe, NEW c \in Clients, CheckProfile(c)
  PROVE  Holds(c)'
  <1>0. h[c] \in Handlers /\ h \in [Clients -> Handlers] /\ TypeInv
    BY DEF Quiet, LinkInv, TypeInv, TypeOK
  <1>1. h[c].ref \in Profiles
    BY <1>0, HandlerFields DEF CheckProfile, At, Shape
  <1>2. CASE Stop(c)
    BY <1>0, <1>2, StopHolds
  <1>3. CASE ~Stop(c)
    <2>1. h'[c].pc = "writeAlias" /\ h'[c].ref = h[c].ref
      BY <1>0, <1>3 DEF CheckProfile, Handlers
    <2>2. h[c].ref \in StoredProfiles'
      BY <1>1, <1>3 DEF CheckProfile, StoredProfiles, kvVars
    <2> QED
      BY <2>1, <2>2 DEF Holds
  <1> QED
    BY <1>2, <1>3

\* The page or get of a delete leaves its request as it is.
LEMMA ListPageHolds ==
  ASSUME Quiet, Observe, NEW c \in Clients, ListPage(c)
  PROVE  Holds(c)'
  <1>0. h[c] \in Handlers /\ h \in [Clients -> Handlers]
    BY DEF Quiet, LinkInv, TypeInv, TypeOK
  <1>1. PICK page \in SUBSET h[c].todo :
          LET left  == h[c].todo \ page
              names == h[c].names \cup {k \in page : Stored(k, h[c].req)}
          IN  h' = [h EXCEPT ![c].todo = left, ![c].names = names,
                             ![c].pc = IF left # {} THEN "list"
                                       ELSE IF names # {} THEN "fetch" ELSE "remove"]
    BY DEF ListPage
  <1>2. h'[c].req = h[c].req /\ h'[c].pc \in {"list", "fetch", "remove"}
    BY <1>0, <1>1 DEF Handlers
  <1> QED
    BY <1>2, ScanHolds DEF ListPage, At

LEMMA FetchOneHolds ==
  ASSUME Quiet, Observe, NEW c \in Clients, FetchOne(c)
  PROVE  Holds(c)'
  <1>0. h[c] \in Handlers /\ h \in [Clients -> Handlers] /\ TypeInv
    BY DEF Quiet, LinkInv, TypeInv, TypeOK
  <1>1. CASE Stop(c)
    BY <1>0, <1>1, StopHolds
  <1>2. CASE ~Stop(c)
    <2>1. h'[c].req = h[c].req /\ h'[c].pc \in {"fetch", "remove"}
      BY <1>0, <1>2 DEF FetchOne, At, Handlers
    <2> QED
      BY <2>1, ScanHolds DEF FetchOne, At
  <1> QED
    BY <1>1, <1>2

\* Every step keeps what is known of the handler that takes it.
LEMMA StepHolds ==
  ASSUME Quiet, Observe, NEW c \in Clients, Step(c)
  PROVE  Holds(c)'
  <1>0. h[c] \in Handlers /\ h \in [Clients -> Handlers] /\ TypeInv
    BY DEF Quiet, LinkInv, TypeInv, TypeOK
  <1>1. CASE \/ BeginPutSource(c) \/ BeginPutTemplate(c) \/ BeginPutProfile(c)
             \/ BeginCreateAlias(c) \/ BeginUpdateAlias(c) \/ BeginDeleteAlias(c)
             \/ BeginDelete(c)
    BY <1>1, BeginHolds DEF BeginPutSource, BeginPutTemplate, BeginPutProfile,
       BeginCreateAlias, BeginUpdateAlias, BeginDeleteAlias, BeginDelete
  <1>2. CASE \/ CheckTemplate(c) \/ CheckSource(c) \/ RereadProfile(c) \/ CheckProfile(c)
             \/ ListPage(c) \/ FetchOne(c)
    BY <1>2, CheckTemplateHolds, CheckSourceHolds, RereadProfileHolds, CheckProfileHolds,
       ListPageHolds, FetchOneHolds
  <1>3. CASE \/ WriteSource(c) \/ WriteTemplate(c) \/ WriteProfile(c) \/ WriteAlias(c)
             \/ RemoveAlias(c) \/ Remove(c) \/ Abort(c)
    BY <1>0, <1>3, StopHolds DEF WriteSource, WriteTemplate, WriteProfile, WriteAlias,
       RemoveAlias, Remove, Abort
  <1>4. CASE ReadSource(c) \/ ReadTemplate(c) \/ ReadProfile(c) \/ CheckFree(c) \/ ReadAlias(c)
    <2>1. CASE Stop(c)
      BY <1>0, <2>1, StopHolds
    <2>2. CASE ~Stop(c)
      <3>1. h'[c].pc \in {"writeSource", "writeTemplate", "checkTemplate", "checkProfile"}
        BY <1>0, <1>4, <2>2 DEF ReadSource, ReadTemplate, ReadProfile, CheckFree, ReadAlias,
           Handlers
      <3> QED
        BY <3>1 DEF Holds
    <2> QED
      BY <2>1, <2>2
  <1> QED
    BY <1>1, <1>2, <1>3, <1>4 DEF Step

-----------------------------------------------------------------------------
(* What is written keeps the references whole.                             *)

LEMMA WriteProfileIntact ==
  ASSUME Quiet, NEW c \in Clients, WriteProfile(c)
  PROVE  Intact'
  <1> DEFINE r == h[c].req
             row == MergedProfile(r, h[c].ref, h[c].cur)
  <1>1. r \in ProfileReqs /\ h[c].ref \in Templates /\ h[c].cur \in Opt(ProfileRows)
    BY HandlerFields DEF WriteProfile, At, Shape, Quiet, LinkInv
  <1>2. row \in ProfileRows /\ r.id \in Profiles /\ row # None
    BY <1>1, MergedWhole, RequestIds, PutPresent
  <1>3. /\ h[c].ref \in StoredTemplates
        /\ r.sourceIds = None \/ r.sourceIds \subseteq StoredSources
        /\ h[c].cur = None \/ h[c].cur.sourceIds \subseteq StoredSources
    BY DEF WriteProfile, At, Quiet, Holds
  <1>4. row.templateId = h[c].ref /\ row.sourceIds \subseteq StoredSources
    BY <1>3 DEF MergedProfile, Or
  <1>5. /\ profile' = [profile EXCEPT ![r.id] = row]
        /\ alias' = alias /\ template' = template /\ source' = source
    BY DEF WriteProfile
  <1>6. StoredTemplates' = StoredTemplates /\ StoredSources' = StoredSources
    BY <1>5 DEF StoredTemplates, StoredSources
  <1>7. profile \in [Profiles -> Opt(ProfileRows)] /\ alias \in [Aliases -> Opt(Profiles)]
    BY DEF Quiet, LinkInv, TypeInv, TypeOK
  <1> HIDE DEF r, row
  <1>8. StoredProfiles' = StoredProfiles \cup {r.id}
    BY <1>2, <1>5, <1>7 DEF StoredProfiles
  <1>9. \A p \in StoredProfiles' : \/ p = r.id /\ profile'[p] = row
                                   \/ p \in StoredProfiles /\ profile'[p] = profile[p]
    BY <1>2, <1>5, <1>7, <1>8 DEF StoredProfiles
  <1> QED
    BY <1>3, <1>4, <1>5, <1>6, <1>8, <1>9 DEF Quiet, Intact

\* At its removal nothing refers to what a delete removes.
LEMMA RemoveIntact ==
  ASSUME Quiet, NEW c \in Clients, Remove(c)
  PROVE  Intact'
  <1>0. /\ h[c].req \in DeleteReqs /\ h[c].pc = "remove"
        /\ profile \in [Profiles -> Opt(ProfileRows)] /\ alias \in [Aliases -> Opt(Profiles)]
        /\ template \in [Templates -> Opt(Payloads)] /\ source \in [Sources -> Opt(Payloads)]
    BY HandlerFields DEF Remove, At, Shape, Quiet, LinkInv, TypeInv, TypeOK
  <1>1. Referrers(h[c].req, alias, profile) = {}
    BY <1>0 DEF Quiet, Holds, LinkInv, LinksTracked, Tracked
  <1>2. CASE RemoveProfile(c)
    <2>1. \A a \in Aliases : alias[a] # h[c].req.id
      BY <1>0, <1>1, <1>2 DEF RemoveProfile, Referrers, ScanKeys, Refers
    <2>2. /\ \A p \in Profiles : profile'[p] = IF p = h[c].req.id THEN None ELSE profile[p]
          /\ UNCHANGED <<alias, template, source>>
      BY <1>0, <1>2 DEF RemoveProfile
    <2> QED
      BY <2>1, <2>2 DEF Quiet, Intact, StoredProfiles, StoredTemplates, StoredSources
  <1>3. CASE RemoveTemplate(c)
    <2>1. \A p \in StoredProfiles : profile[p].templateId # h[c].req.id
      BY <1>0, <1>1, <1>3 DEF RemoveTemplate, Referrers, ScanKeys, Refers, StoredProfiles
    <2>2. /\ \A t \in Templates : template'[t] = IF t = h[c].req.id THEN None ELSE template[t]
          /\ UNCHANGED <<alias, profile, source>>
      BY <1>0, <1>3 DEF RemoveTemplate
    <2>3. StoredProfiles' = StoredProfiles /\ StoredSources' = StoredSources
          /\ StoredTemplates \ {h[c].req.id} \subseteq StoredTemplates'
      BY <2>2 DEF StoredProfiles, StoredSources, StoredTemplates
    <2> QED
      BY <2>1, <2>2, <2>3 DEF Quiet, Intact
  <1>4. CASE RemoveSource(c)
    <2>1. \A p \in StoredProfiles : h[c].req.id \notin profile[p].sourceIds
      BY <1>0, <1>1, <1>4 DEF RemoveSource, Referrers, ScanKeys, Refers, StoredProfiles
    <2>2. /\ \A s \in Sources : source'[s] = IF s = h[c].req.id THEN None ELSE source[s]
          /\ UNCHANGED <<alias, profile, template>>
      BY <1>0, <1>4 DEF RemoveSource
    <2>3. StoredProfiles' = StoredProfiles /\ StoredTemplates' = StoredTemplates
          /\ StoredSources \ {h[c].req.id} \subseteq StoredSources'
      BY <2>2 DEF StoredProfiles, StoredSources, StoredTemplates
    <2> QED
      BY <2>1, <2>2, <2>3 DEF Quiet, Intact
  <1> QED
    BY <1>2, <1>3, <1>4 DEF Remove

\* Every write keeps the references whole.
LEMMA WriteIntact ==
  ASSUME Quiet, NEW c \in Clients, Writes(c)
  PROVE  Intact'
  <1>0. /\ alias \in [Aliases -> Opt(Profiles)] /\ template \in [Templates -> Opt(Payloads)]
        /\ source \in [Sources -> Opt(Payloads)]
    BY DEF Quiet, LinkInv, TypeInv, TypeOK
  <1>1. CASE WriteSource(c)
    <2>1. /\ Or(h[c].req.payload, Or(h[c].cur, DefaultPayload)) \in Payloads
          /\ h[c].req.id \in Sources
      BY <1>1, HandlerFields, RequestIds, PutPresent
      DEF WriteSource, At, Shape, Quiet, LinkInv
    <2>2. /\ StoredSources \subseteq StoredSources' /\ StoredTemplates' = StoredTemplates
          /\ StoredProfiles' = StoredProfiles /\ alias' = alias /\ profile' = profile
      BY <1>0, <1>1, <2>1, PutPresent
      DEF WriteSource, StoredSources, StoredTemplates, StoredProfiles
    <2> QED
      BY <2>2 DEF Quiet, Intact
  <1>2. CASE WriteTemplate(c)
    <2>1. /\ Or(h[c].req.payload, Or(h[c].cur, DefaultPayload)) \in Payloads
          /\ h[c].req.id \in Templates
      BY <1>2, HandlerFields, RequestIds, PutPresent
      DEF WriteTemplate, At, Shape, Quiet, LinkInv
    <2>2. /\ StoredTemplates \subseteq StoredTemplates' /\ StoredSources' = StoredSources
          /\ StoredProfiles' = StoredProfiles /\ alias' = alias /\ profile' = profile
      BY <1>0, <1>2, <2>1, PutPresent
      DEF WriteTemplate, StoredSources, StoredTemplates, StoredProfiles
    <2> QED
      BY <2>2 DEF Quiet, Intact
  <1>3. CASE WriteProfile(c)
    BY <1>3, WriteProfileIntact
  <1>4. CASE WriteAlias(c) \/ RemoveAlias(c)
    <2>1. PICK p \in StoredProfiles \cup {None} : alias' = [alias EXCEPT ![h[c].req.id] = p]
      BY <1>4 DEF WriteAlias, RemoveAlias, At, Quiet, Holds
    <2>2. /\ StoredProfiles' = StoredProfiles /\ StoredTemplates' = StoredTemplates
          /\ StoredSources' = StoredSources /\ profile' = profile
      BY <1>4 DEF WriteAlias, RemoveAlias, StoredSources, StoredTemplates, StoredProfiles
    <2> QED
      BY <1>0, <2>1, <2>2 DEF Quiet, Intact
  <1>5. CASE Remove(c)
    BY <1>5, RemoveIntact
  <1> QED
    BY <1>1, <1>2, <1>3, <1>4, <1>5 DEF Writes

-----------------------------------------------------------------------------
\* As long as handlers do not overlap, every reference is to a stored record and
\* every check made still holds.
THEOREM SerialInvariant == Spec => []SerialInv
  <1>1. Init => Serial
    BY DEF Init, Serial, Alone, Intact, Holds, Idle, StoredProfiles
  <1>2. LinkInv /\ Serial /\ [Next]_vars => Serial'
    <2> SUFFICES ASSUME LinkInv, Serial, [Next]_vars PROVE Serial'
      OBVIOUS
    <2>1. CASE Next
      <3>1. PICK c \in Clients : Step(c)
        BY <2>1 DEF Next
      <3>2. CASE overlapped'
        BY <3>2 DEF Serial
      <3>3. CASE ~overlapped'
        <4>1. ~overlapped /\ Alone'
          BY <2>1, <3>3 DEF Next, Observe, Alone
        <4>2. Quiet
          BY <4>1 DEF Serial, Quiet
        <4>3. CASE Writes(c)
          <5>1. h[c].pc # "idle"
            BY <4>3 DEF Writes, WriteSource, WriteTemplate, WriteProfile, WriteAlias,
               RemoveAlias, Remove, At
          <5>2. \A d \in Clients \ {c} : h'[d].pc = "idle"
            BY <3>1, <4>2, <5>1, OneHandler DEF Quiet, Alone, LinkInv
          <5>3. \A d \in Clients \ {c} : Holds(d)'
            BY <5>2, IdleHolds
          <5> QED
            BY <2>1, <3>1, <4>1, <4>2, <4>3, <5>3, StepHolds, WriteIntact DEF Next, Serial
        <4>4. CASE ~Writes(c)
          <5>1. UNCHANGED kvVars
            BY <3>1, <4>4, OnlyWritesChangeKv
          <5>2. \A d \in Clients \ {c} : Holds(d)'
            BY <2>1, <3>1, <4>2, <5>1, OneHandler, StillHolds DEF Next, Quiet, LinkInv
          <5>3. Intact'
            BY <4>2, <5>1
            DEF Quiet, Intact, kvVars, StoredProfiles, StoredTemplates, StoredSources
          <5> QED
            BY <2>1, <3>1, <4>1, <4>2, <5>2, <5>3, StepHolds DEF Next, Serial
        <4> QED
          BY <4>3, <4>4
      <3> QED
        BY <3>2, <3>3
    <2>2. CASE UNCHANGED vars
      BY <2>2 DEF vars, Serial, Alone, Intact, Holds, StoredProfiles, StoredTemplates,
         StoredSources
    <2> QED
      BY <2>1, <2>2
  <1> QED
    BY <1>1, <1>2, LinkInvariant, PTL DEF Spec, SerialInv

\* The checks of PUT and POST and the 409s of DELETE agree: when handlers do not
\* overlap no reference dangles, whichever of their calls fail.
THEOREM NothingDanglesSerially == Spec => []SerialIntegrity
  <1>1. SerialInv => SerialIntegrity
    <2> SUFFICES ASSUME SerialInv, ~overlapped PROVE SerialIntegrity
      BY DEF SerialIntegrity
    <2>1. Intact
      BY DEF SerialInv, Serial
    <2> QED
      BY <2>1 DEF Intact, SerialIntegrity, StoredProfiles, StoredTemplates, StoredSources,
         SerialInv, LinkInv, TypeInv, TypeOK
  <1> QED
    BY <1>1, SerialInvariant, PTL
=============================================================================
