---------------------------- MODULE AliasResolve ----------------------------
(***************************************************************************)
(* resolveAlias, the reader of the registry: four rounds of KV reads, each *)
(* over an await, while admin handlers go on writing.  The writers are     *)
(* RefStore, which Registry implements; the module composes the two.       *)
(***************************************************************************)
EXTENDS FiniteSets

CONSTANTS Aliases, Profiles, Templates, Sources, Payloads, None,
          EnabledPayloads     \* the payloads whose `enabled` is true

ASSUME ResolveAssumption ==
    /\ EnabledPayloads \subseteq Payloads
    /\ None \notin Aliases \cup Profiles \cup Templates \cup Sources \cup Payloads
    \* An id stands for its key in KV, whose prefix says the kind.
    /\ Profiles \cap Templates = {} /\ Profiles \cap Sources = {} /\ Templates \cap Sources = {}
    /\ \A row \in [payload : Payloads, templateId : Templates, sourceIds : SUBSET Sources] :
          row # None
    /\ \A answer \in [profile : Profiles, template : Templates, sources : SUBSET Sources] :
          answer # None

VARIABLES
    alias, profile, template, source, everProfile, everTemplate, everSource,
    pc,         \* the step of resolveAlias
    asked,      \* the alias it is about
    prof,       \* the profile id and record it read
    todo, got,  \* source ids still to be read, and those read and enabled
    result,     \* what it returns: None (the 404) or the resolved entities
    disturbed,  \* history: a record changed since the resolve began
    onceOn,     \* history: the entities enabled at some moment since it began
    alwaysOn,   \* history: the entities enabled at every moment since it began
    steady      \* history: alias and profile kept their references since it began

Store == INSTANCE RefStore

storeVars == <<alias, profile, template, source, everProfile, everTemplate, everSource>>
resolver == <<pc, asked, prof, todo, got, result>>
history == <<disturbed, onceOn, alwaysOn, steady>>
vars == <<alias, profile, template, source, everProfile, everTemplate, everSource,
          pc, asked, prof, todo, got, result, disturbed, onceOn, alwaysOn, steady>>

-----------------------------------------------------------------------------
\* What resolveAlias would return if KV could be read at one moment.
ProfileOn(p)  == p # None /\ profile[p] # None /\ profile[p].payload \in EnabledPayloads
TemplateOn(t) == template[t] \in EnabledPayloads
SourceOn(s)   == source[s] \in EnabledPayloads

ResolveNow(a) ==
    LET p == alias[a] IN
    IF ~ProfileOn(p) THEN None
    ELSE IF ~TemplateOn(profile[p].templateId) THEN None
    ELSE [profile |-> p, template |-> profile[p].templateId,
          sources |-> {s \in profile[p].sourceIds : SourceOn(s)}]

Init ==
    /\ Store!Init
    /\ pc = "idle" /\ asked = None /\ prof = None /\ todo = {} /\ got = {} /\ result = None
    /\ disturbed = FALSE /\ onceOn = {} /\ alwaysOn = {} /\ steady = FALSE

Begin(a) ==
    /\ pc = "idle"
    /\ pc' = "readAlias" /\ asked' = a
    /\ UNCHANGED <<prof, todo, got, result>>

Null == pc' = "done" /\ result' = None /\ UNCHANGED <<asked, prof, todo, got>>

ReadAlias ==
    /\ pc = "readAlias"
    /\ IF alias[asked] = None THEN Null
       ELSE /\ pc' = "readProfile" /\ prof' = [id |-> alias[asked]]
            /\ UNCHANGED <<asked, todo, got, result>>

\* Mutant: `enabled` of the profile is not looked at.
ReadProfile_AnyProfile ==
    /\ pc = "readProfile"
    /\ IF profile[prof.id] = None THEN Null
       ELSE /\ pc' = "readTemplate"
            /\ prof' = [id |-> prof.id, templateId |-> profile[prof.id].templateId,
                        sourceIds |-> profile[prof.id].sourceIds]
            /\ UNCHANGED <<asked, todo, got, result>>

ReadProfile ==
    /\ pc = "readProfile"
    /\ IF ~ProfileOn(prof.id) THEN Null
       ELSE /\ pc' = "readTemplate"
            /\ prof' = [id |-> prof.id, templateId |-> profile[prof.id].templateId,
                        sourceIds |-> profile[prof.id].sourceIds]
            /\ UNCHANGED <<asked, todo, got, result>>

Resolved(ids) == [profile |-> prof.id, template |-> prof.templateId, sources |-> ids]

\* Mutant: `enabled` of the template is not looked at.
ReadTemplate_AnyTemplate ==
    /\ pc = "readTemplate"
    /\ IF template[prof.templateId] = None THEN Null
       ELSE IF prof.sourceIds = {}
       THEN pc' = "done" /\ result' = Resolved({}) /\ UNCHANGED <<asked, prof, todo, got>>
       ELSE /\ pc' = "readSources" /\ todo' = prof.sourceIds
            /\ UNCHANGED <<asked, prof, got, result>>

ReadTemplate ==
    /\ pc = "readTemplate"
    /\ IF ~TemplateOn(prof.templateId) THEN Null
       ELSE IF prof.sourceIds = {}
       THEN pc' = "done" /\ result' = Resolved({}) /\ UNCHANGED <<asked, prof, todo, got>>
       ELSE /\ pc' = "readSources" /\ todo' = prof.sourceIds
            /\ UNCHANGED <<asked, prof, got, result>>

\* Mutant: one source that is gone or disabled fails the whole resolve.
ReadSource_AllOrNothing ==
    /\ pc = "readSources"
    /\ \E s \in todo :
         IF ~SourceOn(s) THEN Null
         ELSE /\ todo' = todo \ {s} /\ got' = got \cup {s}
              /\ IF todo' # {} THEN UNCHANGED <<pc, result>>
                 ELSE pc' = "done" /\ result' = Resolved(got')
              /\ UNCHANGED <<asked, prof>>

\* One of the parallel getSource calls answers.  When all have, the sources that
\* are missing or disabled are filtered out.
ReadSource ==
    /\ pc = "readSources"
    /\ \E s \in todo :
         /\ todo' = todo \ {s}
         /\ got' = got \cup {x \in {s} : SourceOn(x)}
         /\ IF todo' # {} THEN UNCHANGED <<pc, result>>
            ELSE pc' = "done" /\ result' = Resolved(got')
         /\ UNCHANGED <<asked, prof>>

\* The answer has been used and the next request comes.
Reset ==
    /\ pc = "done"
    /\ pc' = "idle" /\ asked' = None /\ prof' = None /\ todo' = {} /\ got' = {}
    /\ result' = None

-----------------------------------------------------------------------------
On == {p \in Profiles : ProfileOn(p)} \cup {t \in Templates : TemplateOn(t)}
         \cup {s \in Sources : SourceOn(s)}

Refs(a) == IF alias[a] = None \/ profile[alias[a]] = None THEN None
           ELSE [profile |-> alias[a], templateId |-> profile[alias[a]].templateId,
                 sourceIds |-> profile[alias[a]].sourceIds]

\* The history variables start over when a resolve begins and watch until it ends.
Observe ==
    IF pc = "idle"
    THEN IF pc' = "idle" THEN UNCHANGED history
         ELSE /\ disturbed' = FALSE /\ onceOn' = On' /\ alwaysOn' = On' /\ steady' = TRUE
    ELSE IF pc' = "idle"
    THEN disturbed' = FALSE /\ onceOn' = {} /\ alwaysOn' = {} /\ steady' = FALSE
    ELSE IF pc = "done" THEN UNCHANGED history
    ELSE /\ disturbed' = (disturbed \/ storeVars' # storeVars)
         /\ onceOn' = onceOn \cup On'
         /\ alwaysOn' = alwaysOn \cap On'
         /\ steady' = (steady /\ Refs(asked)' = Refs(asked) /\ Refs(asked) # None)

\* While the answer stands nothing more is asked of the store.
Write == pc # "done" /\ Store!Next /\ UNCHANGED resolver

Read ==
    /\ (\E a \in Aliases : Begin(a)) \/ ReadAlias \/ ReadProfile \/ ReadTemplate
          \/ ReadSource \/ Reset
    /\ UNCHANGED storeVars

Next == (Write \/ Read) /\ Observe

Spec == Init /\ [][Next]_vars

-----------------------------------------------------------------------------
(* Properties.                                                             *)

\* When no record changed during the resolve, its four rounds of reads return what
\* one atomic look at the registry would.
QuietResolve == (pc = "done" /\ ~disturbed) => result = ResolveNow(asked)

\* Whatever is written meanwhile, an entity that was missing or disabled all through
\* the resolve is not in the answer: to disable a profile, template or source takes
\* effect for every pull that begins after the write.
OnlyLiveEntities ==
    (pc = "done" /\ result # None) =>
        {result.profile, result.template} \cup result.sources \subseteq onceOn

\* Writes that leave the alias, its profile's references and their enabled flags
\* alone never turn the answer into a 404, nor lose a source that stayed enabled,
\* however many other sources are disabled or deleted meanwhile.
SteadyChainResolves ==
    (pc = "done" /\ steady) =>
        LET chain == Refs(asked) IN
        chain # None /\ {chain.profile, chain.templateId} \subseteq alwaysOn =>
            /\ result # None
            /\ chain.sourceIds \cap alwaysOn \subseteq result.sources
=============================================================================
