--------------------------- MODULE RulesetService ---------------------------
(***************************************************************************)
(* What refresh_rulesets promises its caller: one entry for every ruleset  *)
(* that is inline or could be loaded, in the order of the build, each with *)
(* a body of its own url; the positions of the others are reported as      *)
(* failed, in the order of the list.                                       *)
(***************************************************************************)
EXTENDS ListOrder, Sequences

CONSTANTS Requests, Urls, Times, Lists, Inline, None

VARIABLES native,   \* which build runs
          asked,    \* the ruleset list of each request, None before it asks
          loaded,   \* history: every body a url was loaded with
          answer    \* None or what the request got

serviceVars == <<native, asked, loaded, answer>>

Bodies == [url : Urls, at : Times]

Entries(S, body) ==
    [k \in 1 .. Cardinality(S) |-> [pos |-> Sorted(S)[k], body |-> body[Sorted(S)[k]]]]

\* `body` gives every position its body, or None when it could not be loaded.  The
\* native build deals with the inline rules before it fetches anything.
Outcome(list, body) ==
    LET inline == {i \in DOMAIN body : list[i] = Inline}
        ok     == {i \in DOMAIN body : body[i] # None}
    IN  [content |-> IF native THEN Entries(inline, body) \o Entries(ok \ inline, body)
                     ELSE Entries(ok, body),
         failed  |-> Sorted(DOMAIN body \ ok)]

Init ==
    /\ native \in BOOLEAN
    /\ asked = [r \in Requests |-> None]
    /\ loaded = {}
    /\ answer = [r \in Requests |-> None]

Ask(r) ==
    /\ asked[r] = None
    /\ \E list \in Lists : asked' = [asked EXCEPT ![r] = list]
    /\ UNCHANGED <<native, loaded, answer>>

Load ==
    /\ \E b \in Bodies : loaded' = loaded \cup {b}
    /\ UNCHANGED <<native, asked, answer>>

Answer(r) ==
    /\ asked[r] # None /\ answer[r] = None
    /\ \E body \in [1 .. Len(asked[r]) -> loaded \cup {Inline, None}] :
          /\ \A i \in DOMAIN body :
                IF asked[r][i] = Inline THEN body[i] = Inline
                ELSE body[i] # None => body[i] # Inline /\ body[i].url = asked[r][i]
          /\ answer' = [answer EXCEPT ![r] = Outcome(asked[r], body)]
    /\ UNCHANGED <<native, asked, loaded>>

Next == Load \/ \E r \in Requests : Ask(r) \/ Answer(r)

Spec == Init /\ [][Next]_serviceVars
=============================================================================
