---------------------------- MODULE PullService -----------------------------
(***************************************************************************)
(* What a client of GET /{alias} is promised, caching aside: a pull is     *)
(* answered from the configuration it resolved the alias to, with a        *)
(* conversion of exactly the converter request that configuration stands   *)
(* for.  A conversion may be shared between pulls, but never a failed or   *)
(* an empty one.                                                           *)
(***************************************************************************)
CONSTANTS Pulls, Urls, Times, NotFound, NoSource, Timeout, Failure, None

VARIABLES seen,     \* what each pull resolved the alias to: None before it did
          made,     \* every answer the converter has given
          reply     \* the answer of each pull: None, an error or a conversion

pullVars == <<seen, made, reply>>

Kinds == {"ok", "empty", "bad"}
Unresolved == {NotFound, NoSource}
Failures == {Timeout, Failure}

Init ==
    /\ seen = [r \in Pulls |-> None]
    /\ \A m \in made : m.kind # "bad"
    /\ reply = [r \in Pulls |-> None]

Resolve(r) ==
    /\ seen[r] = None /\ reply[r] = None
    /\ \E u \in Urls \cup Unresolved : seen' = [seen EXCEPT ![r] = u]
    /\ UNCHANGED <<made, reply>>

\* The converter answers the request of pull `r`.
Convert(r) ==
    /\ seen[r] \in Urls
    /\ \E k \in Kinds, t \in Times :
          made' = made \cup {[url |-> seen[r], kind |-> k, by |-> r, at |-> t]}
    /\ UNCHANGED <<seen, reply>>

AnswerError(r) ==
    /\ reply[r] = None
    /\ \E e \in Unresolved \cup Failures :
          /\ e \in Unresolved => seen[r] = e
          /\ reply' = [reply EXCEPT ![r] = e]
    /\ UNCHANGED <<seen, made>>

AnswerConversion(r) ==
    /\ reply[r] = None
    /\ \E m \in made : /\ m.url = seen[r]
                       /\ m.by = r \/ m.kind = "ok"
                       /\ reply' = [reply EXCEPT ![r] = m]
    /\ UNCHANGED <<seen, made>>

Next == \E r \in Pulls :
            Resolve(r) \/ Convert(r) \/ AnswerError(r) \/ AnswerConversion(r)

Spec == Init /\ [][Next]_pullVars
=============================================================================
