------------------------------ MODULE RefStore ------------------------------
(***************************************************************************)
(* What the registry promises a reader of SUB_KV, whatever its handlers    *)
(* interleave: one step writes or deletes at most one record, and a record *)
(* only ever names entities that were stored at some time.  Nothing more   *)
(* is promised: a reference may dangle once its target is deleted, which   *)
(* is why resolveAlias treats a missing entity as an answer.               *)
(***************************************************************************)
CONSTANTS Aliases, Profiles, Templates, Sources, Payloads, None

VARIABLES alias, profile, template, source, everProfile, everTemplate, everSource

storeVars == <<alias, profile, template, source, everProfile, everTemplate, everSource>>

Init ==
    /\ alias    = [a \in Aliases |-> None]
    /\ profile  = [p \in Profiles |-> None]
    /\ template = [t \in Templates |-> None]
    /\ source   = [s \in Sources |-> None]
    /\ everProfile = {} /\ everTemplate = {} /\ everSource = {}

PutAlias(a, p) ==
    /\ p \in everProfile \cup {None}
    /\ alias' = [alias EXCEPT ![a] = p]
    /\ UNCHANGED <<profile, template, source, everProfile, everTemplate, everSource>>

PutProfile(p, x, t, S) ==
    /\ t \in everTemplate /\ S \subseteq everSource
    /\ profile' = [profile EXCEPT ![p] = [payload |-> x, templateId |-> t, sourceIds |-> S]]
    /\ everProfile' = everProfile \cup {p}
    /\ UNCHANGED <<alias, template, source, everTemplate, everSource>>

PutTemplate(t, x) ==
    /\ template' = [template EXCEPT ![t] = x]
    /\ everTemplate' = everTemplate \cup {t}
    /\ UNCHANGED <<alias, profile, source, everProfile, everSource>>

PutSource(s, x) ==
    /\ source' = [source EXCEPT ![s] = x]
    /\ everSource' = everSource \cup {s}
    /\ UNCHANGED <<alias, profile, template, everProfile, everTemplate>>

DeleteProfile(p) ==
    /\ profile' = [profile EXCEPT ![p] = None]
    /\ UNCHANGED <<alias, template, source, everProfile, everTemplate, everSource>>

DeleteTemplate(t) ==
    /\ template' = [template EXCEPT ![t] = None]
    /\ UNCHANGED <<alias, profile, source, everProfile, everTemplate, everSource>>

DeleteSource(s) ==
    /\ source' = [source EXCEPT ![s] = None]
    /\ UNCHANGED <<alias, profile, template, everProfile, everTemplate, everSource>>

Next ==
    \/ \E a \in Aliases, p \in Profiles \cup {None} : PutAlias(a, p)
    \/ \E p \in Profiles, x \in Payloads, t \in Templates, S \in SUBSET Sources :
          PutProfile(p, x, t, S)
    \/ \E t \in Templates, x \in Payloads : PutTemplate(t, x)
    \/ \E s \in Sources, x \in Payloads : PutSource(s, x)
    \/ \E p \in Profiles : DeleteProfile(p)
    \/ \E t \in Templates : DeleteTemplate(t)
    \/ \E s \in Sources : DeleteSource(s)

Spec == Init /\ [][Next]_storeVars
=============================================================================
