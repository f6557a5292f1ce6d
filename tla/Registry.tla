------------------------------ MODULE Registry ------------------------------
(***************************************************************************)
(* The configuration registry of the control plane: aliases, profiles,     *)
(* templates and sources kept in the SUB_KV namespace, and the admin       *)
(* handlers that write them.  A handler runs between awaits and KV has no  *)
(* transactions, so one action is one KV call together with the            *)
(* synchronous code up to the next await; handlers of several clients      *)
(* interleave freely.                                                      *)
(*                                                                         *)
(* Data: a payload stands for the fields that are no reference (name,      *)
(* enabled, target, converter options, notes, url, tags, ref); None is an  *)
(* absent record or an absent field of a request body; the source ids of a *)
(* profile are a set.                                                      *)
(***************************************************************************)
EXTENDS FiniteSets

CONSTANTS Clients, Aliases, Profiles, Templates, Sources,
          Payloads, DefaultPayload, None

ASSUME RegistryAssumption ==
    /\ DefaultPayload \in Payloads
    /\ None \notin Aliases \cup Profiles \cup Templates \cup Sources \cup Payloads
    /\ \A S \in SUBSET Sources : S # None
    /\ \A row \in [payload : Payloads, templateId : Templates, sourceIds : SUBSET Sources] :
          row # None

VARIABLES
    alias, profile, template, source,         \* the records of SUB_KV
    h,                                        \* the handler each client is in
    everProfile, everTemplate, everSource,    \* history: ids stored at some time
    linked,        \* history: referrers that never let go since the delete began
    overlapped     \* history: two handlers were in flight at once

kvVars == <<alias, profile, template, source>>
history == <<everProfile, everTemplate, everSource, linked, overlapped>>
vars == <<alias, profile, template, source, h,
          everProfile, everTemplate, everSource, linked, overlapped>>

-----------------------------------------------------------------------------
(* Records and requests.                                                   *)

Opt(S) == {None} \cup S

ProfileRows == [payload : Payloads, templateId : Templates, sourceIds : SUBSET Sources]

\* `??` of the source: the first value that is present.
Or(x, y) == IF x # None THEN x ELSE y

\* "complete" says that the body carries the fields a first write needs: the
\* target of a profile, the ref of a template.
SourceReqs   == [op : {"putSource"}, id : Sources, payload : Opt(Payloads)]
TemplateReqs == [op : {"putTemplate"}, id : Templates, payload : Opt(Payloads),
                 complete : BOOLEAN]
ProfileReqs  == [op : {"putProfile"}, id : Profiles, payload : Opt(Payloads),
                 complete : BOOLEAN, templateId : Opt(Templates),
                 sourceIds : Opt(SUBSET Sources)]
CreateReqs   == [op : {"createAlias"}, id : Aliases, profileId : Profiles]
UpdateReqs   == [op : {"updateAlias"}, id : Aliases, profileId : Opt(Profiles)]
UnlinkReqs   == [op : {"deleteAlias"}, id : Aliases]
DeleteReqs   == [op : {"deleteProfile"}, id : Profiles]
                    \cup [op : {"deleteTemplate"}, id : Templates]
                    \cup [op : {"deleteSource"}, id : Sources]

Requests == SourceReqs \cup TemplateReqs \cup ProfileReqs \cup CreateReqs
                \cup UpdateReqs \cup UnlinkReqs \cup DeleteReqs

Steps == {"idle", "readSource", "writeSource", "readTemplate", "writeTemplate",
          "readProfile", "checkTemplate", "checkSources", "rereadProfile",
          "writeProfile", "checkFree", "readAlias", "checkProfile", "writeAlias",
          "removeAlias", "list", "fetch", "remove"}

Keys == Aliases \cup Profiles \cup Sources

\* A handler between two awaits: the step it is at, its request, the reference
\* it has resolved, the record it read, the keys it has still to list or read,
\* the keys listed but not read, and what it found missing or linked.
Handlers == [pc : Steps, req : Opt(Requests), ref : Opt(Profiles \cup Templates),
             cur : Opt(Payloads \cup ProfileRows),
             todo : SUBSET Keys, names : SUBSET Keys, found : SUBSET Keys]

Idle == [pc |-> "idle", req |-> None, ref |-> None, cur |-> None,
         todo |-> {}, names |-> {}, found |-> {}]

-----------------------------------------------------------------------------
(* Who refers to the entity a delete is about, and what it scans for them. *)

ScanKeys(r) == IF r.op = "deleteProfile" THEN Aliases ELSE Profiles

Refers(k, r, al, pr) ==
    \/ r.op = "deleteProfile" /\ al[k] = r.id
    \/ r.op = "deleteTemplate" /\ pr[k] # None /\ pr[k].templateId = r.id
    \/ r.op = "deleteSource" /\ pr[k] # None /\ r.id \in pr[k].sourceIds

Stored(k, r) == IF r.op = "deleteProfile" THEN alias[k] # None ELSE profile[k] # None

Referrers(r, al, pr) ==
    IF r \in DeleteReqs THEN {k \in ScanKeys(r) : Refers(k, r, al, pr)} ELSE {}

-----------------------------------------------------------------------------
Init ==
    /\ alias    = [a \in Aliases |-> None]
    /\ profile  = [p \in Profiles |-> None]
    /\ template = [t \in Templates |-> None]
    /\ source   = [s \in Sources |-> None]
    /\ h = [c \in Clients |-> Idle]
    /\ everProfile = {} /\ everTemplate = {} /\ everSource = {}
    /\ linked = [c \in Clients |-> {}]
    /\ overlapped = FALSE

Begin(c, r, step, ref, todo) ==
    /\ h[c].pc = "idle"
    /\ h' = [h EXCEPT ![c] = [Idle EXCEPT !.pc = step, !.req = r,
                                          !.ref = ref, !.todo = todo]]
    /\ UNCHANGED kvVars

At(c, step) == h[c].pc = step

Stop(c) == h' = [h EXCEPT ![c] = Idle]

\* Any KV call may throw: the route answers 400 and nothing more is written.
\* A worker that is torn down between two awaits leaves the same state.
Abort(c) == h[c].pc # "idle" /\ Stop(c) /\ UNCHANGED kvVars

-----------------------------------------------------------------------------
(* upsertSource and upsertTemplate: read, merge, put.                      *)

BeginPutSource(c) == \E r \in SourceReqs : Begin(c, r, "readSource", None, {})

ReadSource(c) ==
    /\ At(c, "readSource")
    /\ h' = [h EXCEPT ![c].pc = "writeSource", ![c].cur = source[h[c].req.id]]
    /\ UNCHANGED kvVars

WriteSource(c) ==
    /\ At(c, "writeSource")
    /\ source' = [source EXCEPT ![h[c].req.id] =
                     Or(h[c].req.payload, Or(h[c].cur, DefaultPayload))]
    /\ Stop(c)
    /\ UNCHANGED <<alias, profile, template>>

BeginPutTemplate(c) == \E r \in TemplateReqs : Begin(c, r, "readTemplate", None, {})

\* assertTemplateRef rejects a template that has no ref, its own or the stored one.
ReadTemplate(c) ==
    LET cur == template[h[c].req.id] IN
    /\ At(c, "readTemplate")
    /\ IF h[c].req.complete \/ cur # None
       THEN h' = [h EXCEPT ![c].pc = "writeTemplate", ![c].cur = cur]
       ELSE Stop(c)
    /\ UNCHANGED kvVars

WriteTemplate(c) ==
    /\ At(c, "writeTemplate")
    /\ template' = [template EXCEPT ![h[c].req.id] =
                       Or(h[c].req.payload, Or(h[c].cur, DefaultPayload))]
    /\ Stop(c)
    /\ UNCHANGED <<alias, profile, source>>

-----------------------------------------------------------------------------
(* validateAndUpsertProfile: resolve the template id against the stored    *)
(* profile, check the template, check every source one after another, then *)
(* the repository reads the profile a second time, merges and puts.        *)

BeginPutProfile(c) == \E r \in ProfileReqs : Begin(c, r, "readProfile", None, {})

ReadProfile(c) ==
    LET r   == h[c].req
        cur == profile[r.id]
        tid == IF r.templateId # None \/ cur = None THEN r.templateId ELSE cur.templateId
    IN
    /\ At(c, "readProfile")
    /\ IF (r.complete \/ cur # None) /\ tid # None
       THEN h' = [h EXCEPT ![c].pc = "checkTemplate", ![c].ref = tid]
       ELSE Stop(c)
    /\ UNCHANGED kvVars

CheckTemplate(c) ==
    LET r == h[c].req IN
    /\ At(c, "checkTemplate")
    /\ IF template[h[c].ref] = None THEN Stop(c)
       ELSE IF r.sourceIds \in {None, {}}
       THEN h' = [h EXCEPT ![c].pc = "rereadProfile"]
       ELSE h' = [h EXCEPT ![c].pc = "checkSources", ![c].todo = r.sourceIds]
    /\ UNCHANGED kvVars

\* Mutant: only the last source looked up decides.
CheckSource_LastOnly(c) ==
    /\ At(c, "checkSources")
    /\ \E s \in h[c].todo :
         LET left == h[c].todo \ {s} IN
         IF left # {} THEN h' = [h EXCEPT ![c].todo = left]
         ELSE IF source[s] = None THEN Stop(c)
         ELSE h' = [h EXCEPT ![c].pc = "rereadProfile", ![c].todo = {}]
    /\ UNCHANGED kvVars

\* One getSource of the loop.  Missing ids are collected and rejected only when
\* every id has been looked up.
CheckSource(c) ==
    /\ At(c, "checkSources")
    /\ \E s \in h[c].todo :
         LET left    == h[c].todo \ {s}
             missing == h[c].found \cup {x \in {s} : source[x] = None}
         IN  IF left # {}
             THEN h' = [h EXCEPT ![c].todo = left, ![c].found = missing]
             ELSE IF missing # {} THEN Stop(c)
             ELSE h' = [h EXCEPT ![c].pc = "rereadProfile", ![c].todo = {}]
    /\ UNCHANGED kvVars

RereadProfile(c) ==
    LET cur == profile[h[c].req.id] IN
    /\ At(c, "rereadProfile")
    /\ IF h[c].req.complete \/ cur # None
       THEN h' = [h EXCEPT ![c].pc = "writeProfile", ![c].cur = cur]
       ELSE Stop(c)
    /\ UNCHANGED kvVars

\* Mutant: an absent field is not defaulted, not even on the first write.
MergedProfile_NoDefault(r, ref, cur) ==
    [payload    |-> Or(r.payload, IF cur = None THEN None ELSE cur.payload),
     templateId |-> ref,
     sourceIds  |-> Or(r.sourceIds, IF cur = None THEN {} ELSE cur.sourceIds)]

MergedProfile(r, ref, cur) ==
    IF cur = None
    THEN [payload    |-> Or(r.payload, DefaultPayload),
          templateId |-> ref,
          sourceIds  |-> Or(r.sourceIds, {})]
    ELSE [payload    |-> Or(r.payload, cur.payload),
          templateId |-> ref,
          sourceIds  |-> Or(r.sourceIds, cur.sourceIds)]

WriteProfile(c) ==
    /\ At(c, "writeProfile")
    /\ profile' = [profile EXCEPT ![h[c].req.id] =
                      MergedProfile(h[c].req, h[c].ref, h[c].cur)]
    /\ Stop(c)
    /\ UNCHANGED <<alias, template, source>>

-----------------------------------------------------------------------------
(* Aliases: create (the alias must be free), update (it must exist), both  *)
(* then check the profile and put; delete is unconditional.                *)

BeginCreateAlias(c) ==
    \E r \in CreateReqs : Begin(c, r, "checkFree", r.profileId, {})

CheckFree(c) ==
    /\ At(c, "checkFree")
    /\ IF alias[h[c].req.id] = None THEN h' = [h EXCEPT ![c].pc = "checkProfile"]
       ELSE Stop(c)
    /\ UNCHANGED kvVars

BeginUpdateAlias(c) ==
    \E r \in UpdateReqs : Begin(c, r, "readAlias", None, {})

ReadAlias(c) ==
    LET cur == alias[h[c].req.id] IN
    /\ At(c, "readAlias")
    /\ IF cur = None THEN Stop(c)
       ELSE h' = [h EXCEPT ![c].pc = "checkProfile",
                           ![c].ref = Or(h[c].req.profileId, cur)]
    /\ UNCHANGED kvVars

\* Mutant: the profile is not looked up before the put.
CheckProfile_Unchecked(c) ==
    /\ At(c, "checkProfile")
    /\ h' = [h EXCEPT ![c].pc = "writeAlias"]
    /\ UNCHANGED kvVars

CheckProfile(c) ==
    /\ At(c, "checkProfile")
    /\ IF profile[h[c].ref] = None THEN Stop(c)
       ELSE h' = [h EXCEPT ![c].pc = "writeAlias"]
    /\ UNCHANGED kvVars

WriteAlias(c) ==
    /\ At(c, "writeAlias")
    /\ alias' = [alias EXCEPT ![h[c].req.id] = h[c].ref]
    /\ Stop(c)
    /\ UNCHANGED <<profile, template, source>>

BeginDeleteAlias(c) == \E r \in UnlinkReqs : Begin(c, r, "removeAlias", None, {})

RemoveAlias(c) ==
    /\ At(c, "removeAlias")
    /\ alias' = [alias EXCEPT ![h[c].req.id] = None]
    /\ Stop(c)
    /\ UNCHANGED <<profile, template, source>>

-----------------------------------------------------------------------------
(* DELETE of a profile, a template or a source: scan the records that may  *)
(* refer to it (list the keys page by page, then get them all in           *)
(* parallel), answer 409 when one does, delete otherwise.                  *)

\* Mutant: DELETE of a source skips the 409 check.
BeginDelete_SourceUnchecked(c) ==
    \E r \in DeleteReqs :
        IF r.op = "deleteSource" THEN Begin(c, r, "remove", None, {})
        ELSE Begin(c, r, "list", None, ScanKeys(r))

BeginDelete(c) == \E r \in DeleteReqs : Begin(c, r, "list", None, ScanKeys(r))

\* Mutant: the cursor of kvScan is dropped after the first page.
ListPage_FirstOnly(c) ==
    /\ At(c, "list")
    /\ \E page \in SUBSET h[c].todo :
         LET names == {k \in page : Stored(k, h[c].req)} IN
         /\ page = {} => h[c].todo = {}
         /\ h' = [h EXCEPT ![c].todo = {}, ![c].names = names,
                           ![c].pc = IF names # {} THEN "fetch" ELSE "remove"]
    /\ UNCHANGED kvVars

\* One page of kvScan: the cursor passes the keys of the page, and names the
\* ones that exist at this moment.
ListPage(c) ==
    /\ At(c, "list")
    /\ \E page \in SUBSET h[c].todo :
         LET left  == h[c].todo \ page
             names == h[c].names \cup {k \in page : Stored(k, h[c].req)}
         IN  /\ page = {} => h[c].todo = {}
             /\ h' = [h EXCEPT ![c].todo = left, ![c].names = names,
                               ![c].pc = IF left # {} THEN "list"
                                         ELSE IF names # {} THEN "fetch"
                                         ELSE "remove"]
    /\ UNCHANGED kvVars

\* One of the parallel gets.  A record deleted since the listing reads as null
\* and is dropped.  When the last one is in, the handler decides.
FetchOne(c) ==
    /\ At(c, "fetch")
    /\ \E k \in h[c].names :
         LET left  == h[c].names \ {k}
             found == h[c].found \cup {x \in {k} : Refers(x, h[c].req, alias, profile)}
         IN  IF left # {}
             THEN h' = [h EXCEPT ![c].names = left, ![c].found = found]
             ELSE IF found # {} THEN Stop(c)
             ELSE h' = [h EXCEPT ![c].pc = "remove", ![c].names = {}]
    /\ UNCHANGED kvVars

RemoveProfile(c) ==
    /\ h[c].req.op = "deleteProfile"
    /\ profile' = [profile EXCEPT ![h[c].req.id] = None]
    /\ UNCHANGED <<alias, template, source>>

RemoveTemplate(c) ==
    /\ h[c].req.op = "deleteTemplate"
    /\ template' = [template EXCEPT ![h[c].req.id] = None]
    /\ UNCHANGED <<alias, profile, source>>

RemoveSource(c) ==
    /\ h[c].req.op = "deleteSource"
    /\ source' = [source EXCEPT ![h[c].req.id] = None]
    /\ UNCHANGED <<alias, profile, template>>

Remove(c) ==
    /\ At(c, "remove")
    /\ RemoveProfile(c) \/ RemoveTemplate(c) \/ RemoveSource(c)
    /\ Stop(c)

-----------------------------------------------------------------------------
Step(c) ==
    \/ BeginPutSource(c) \/ ReadSource(c) \/ WriteSource(c)
    \/ BeginPutTemplate(c) \/ ReadTemplate(c) \/ WriteTemplate(c)
    \/ BeginPutProfile(c) \/ ReadProfile(c) \/ CheckTemplate(c) \/ CheckSource(c)
    \/ RereadProfile(c) \/ WriteProfile(c)
    \/ BeginCreateAlias(c) \/ CheckFree(c)
    \/ BeginUpdateAlias(c) \/ ReadAlias(c) \/ CheckProfile(c) \/ WriteAlias(c)
    \/ BeginDeleteAlias(c) \/ RemoveAlias(c)
    \/ BeginDelete(c) \/ ListPage(c) \/ FetchOne(c) \/ Remove(c)
    \/ Abort(c)

\* The history variables only observe the step.
Observe ==
    /\ everProfile'  = everProfile  \cup {p \in Profiles  : profile'[p] # None}
    /\ everTemplate' = everTemplate \cup {t \in Templates : template'[t] # None}
    /\ everSource'   = everSource   \cup {s \in Sources   : source'[s] # None}
    /\ linked' = [c \in Clients |->
                    IF h'[c].pc = "idle" THEN {}
                    ELSE IF h[c].pc = "idle" THEN Referrers(h'[c].req, alias', profile')
                    ELSE linked[c] \cap Referrers(h'[c].req, alias', profile')]
    /\ overlapped' = (overlapped \/ \E c, d \in Clients :
                        c # d /\ h'[c].pc # "idle" /\ h'[d].pc # "idle")

Next == (\E c \in Clients : Step(c)) /\ Observe

Spec == Init /\ [][Next]_vars

-----------------------------------------------------------------------------
(* Properties.                                                             *)

\* Type invariant: every stored record is whole (no absent field is ever
\* persisted by the `input ?? current ?? default` merges) and every handler is
\* at a step of its own with values of the right kind.
TypeOK ==
    /\ alias    \in [Aliases -> Opt(Profiles)]
    /\ profile  \in [Profiles -> Opt(ProfileRows)]
    /\ template \in [Templates -> Opt(Payloads)]
    /\ source   \in [Sources -> Opt(Payloads)]
    /\ h \in [Clients -> Handlers]
    /\ everProfile \subseteq Profiles
    /\ everTemplate \subseteq Templates
    /\ everSource \subseteq Sources
    /\ linked \in [Clients -> SUBSET Keys]
    /\ overlapped \in BOOLEAN

\* A delete never removes an entity that some record has referred to ever since
\* the delete began: such a referrer is listed by kvScan whatever the pages and
\* whatever else is written meanwhile, its get shows the reference, and the
\* route answers 409.  Only a reference made while the delete is in flight can
\* be broken by it.
StableLinkBlocksDelete == \A c \in Clients : At(c, "remove") => linked[c] = {}

\* As long as no two handlers were ever in flight together, no reference
\* dangles: the checks of PUT and POST and the 409s of DELETE agree with each
\* other, whichever calls fail in the middle.
SerialIntegrity ==
    overlapped \/
    /\ \A a \in Aliases : alias[a] # None => profile[alias[a]] # None
    /\ \A p \in Profiles : profile[p] # None =>
          /\ template[profile[p].templateId] # None
          /\ \A s \in profile[p].sourceIds : source[s] # None

\* The handlers implement RefStore: at most one record changes per step, and what
\* is written names only entities that were stored at some time, although the
\* check of the reference and the put are several awaits apart.
Store == INSTANCE RefStore
ImplementsRefStore == Store!Spec
=============================================================================
