---------------------------- MODULE RegistryProofs ----------------------------
(***************************************************************************)
(* Theorems about Registry, for any number of clients, aliases, profiles,  *)
(* templates, sources and payloads.                                        *)
(*                                                                         *)
(* ShapeOK ties what a handler holds to the step it is at; LinksTracked    *)
(* says where a delete keeps track of the referrers that never let go.     *)
(***************************************************************************)
EXTENDS Registry, TLAPS

\* What a handler holds at each step.
Shape(x) ==
    /\ x.pc \in {"readSource", "writeSource"} => x.req \in SourceReqs
    /\ x.pc \in {"readTemplate", "writeTemplate"} => x.req \in TemplateReqs
    /\ x.pc \in {"writeSource", "writeTemplate"} => x.cur \in Opt(Payloads)
    /\ x.pc \in {"readProfile", "checkTemplate", "checkSources", "rereadProfile",
                 "writeProfile"} => x.req \in ProfileReqs
    /\ x.pc \in {"checkTemplate", "checkSources", "rereadProfile", "writeProfile"} =>
          x.ref \in Templates
    /\ x.pc = "checkSources" => x.todo \subseteq Sources
    /\ x.pc = "writeProfile" => x.cur \in Opt(ProfileRows)
    /\ x.pc = "checkFree" => x.req \in CreateReqs
    /\ x.pc = "readAlias" => x.req \in UpdateReqs
    /\ x.pc \in {"checkProfile", "writeAlias"} => x.req \in CreateReqs \cup UpdateReqs
    /\ x.pc \in {"checkFree", "checkProfile", "writeAlias"} => x.ref \in Profiles
    /\ x.pc = "removeAlias" => x.req \in UnlinkReqs
    /\ x.pc \in {"list", "fetch", "remove"} => x.req \in DeleteReqs

ShapeOK == \A c \in Clients : Shape(h[c])

TypeInv == TypeOK /\ ShapeOK

-----------------------------------------------------------------------------
(* Requests.                                                               *)

\* Every kind of request is a request.
LEMMA RequestKinds ==
  /\ SourceReqs \subseteq Requests /\ TemplateReqs \subseteq Requests
  /\ ProfileReqs \subseteq Requests /\ CreateReqs \subseteq Requests
  /\ UpdateReqs \subseteq Requests /\ UnlinkReqs \subseteq Requests
  /\ DeleteReqs \subseteq Requests
  BY DEF Requests

\* A request is about an entity of its own kind.
LEMMA RequestIds ==
  /\ \A r \in SourceReqs : r.id \in Sources /\ r.payload \in Opt(Payloads)
  /\ \A r \in TemplateReqs : r.id \in Templates /\ r.payload \in Opt(Payloads)
  /\ \A r \in ProfileReqs : /\ r.id \in Profiles /\ r.payload \in Opt(Payloads)
                            /\ r.templateId \in Opt(Templates)
                            /\ r.sourceIds \in Opt(SUBSET Sources)
  /\ \A r \in CreateReqs : r.id \in Aliases /\ r.profileId \in Profiles
  /\ \A r \in UpdateReqs : r.id \in Aliases /\ r.profileId \in Opt(Profiles)
  /\ \A r \in UnlinkReqs : r.id \in Aliases
  BY DEF SourceReqs, TemplateReqs, ProfileReqs, CreateReqs, UpdateReqs, UnlinkReqs

\* A delete is about a profile, a template or a source.
LEMMA DeleteKinds ==
  ASSUME NEW r \in DeleteReqs
  PROVE  \/ r.op = "deleteProfile" /\ r.id \in Profiles
         \/ r.op = "deleteTemplate" /\ r.id \in Templates
         \/ r.op = "deleteSource" /\ r.id \in Sources
  BY DEF DeleteReqs

\* Whoever refers to the entity of a delete is among the keys it scans.
LEMMA ReferrersScanned ==
  ASSUME NEW r, NEW al, NEW pr
  PROVE  Referrers(r, al, pr) \subseteq ScanKeys(r) /\ Referrers(r, al, pr) \subseteq Keys
  BY DEF Referrers, ScanKeys, Keys

\* A client with no handler in flight is in a legal state.
LEMMA IdleHandler == Idle \in Handlers /\ Shape(Idle)
  BY DEF Idle, Handlers, Shape, Steps, Opt

\* A step replaces the handler of one client.
LEMMA Frame ==
  ASSUME TypeInv, NEW c \in Clients, NEW y \in Handlers, Shape(y),
         h' = [h EXCEPT ![c] = y]
  PROVE  h' \in [Clients -> Handlers] /\ ShapeOK'
  BY DEF TypeInv, TypeOK, ShapeOK

\* A handler that stops leaves every other one as it is.
LEMMA StopFrame ==
  ASSUME TypeInv, NEW c \in Clients, Stop(c)
  PROVE  h' \in [Clients -> Handlers] /\ ShapeOK'
  BY IdleHandler, Frame DEF Stop

-----------------------------------------------------------------------------
(* Each step keeps the records typed and the handlers in shape.            *)

KvTypeOK ==
    /\ alias    \in [Aliases -> Opt(Profiles)]
    /\ profile  \in [Profiles -> Opt(ProfileRows)]
    /\ template \in [Templates -> Opt(Payloads)]
    /\ source   \in [Sources -> Opt(Payloads)]

StepTyped == KvTypeOK' /\ h' \in [Clients -> Handlers] /\ ShapeOK'

\* A step that writes no record keeps the records whole.
LEMMA KvUnchanged ==
  ASSUME TypeInv, UNCHANGED kvVars
  PROVE  KvTypeOK'
  BY DEF TypeInv, TypeOK, kvVars, KvTypeOK

\* The fields of a handler have their types.
LEMMA HandlerFields ==
  ASSUME TypeInv, NEW c \in Clients
  PROVE  h[c] \in Handlers /\ Shape(h[c])
  BY DEF TypeInv, TypeOK, ShapeOK

\* The handler a request begins with.
Begun(r, step, ref, todo) ==
    [Idle EXCEPT !.pc = step, !.req = r, !.ref = ref, !.todo = todo]

\* What a handler holds when its request has just come in.
LEMMA BegunFields ==
  ASSUME NEW r, NEW step, NEW ref, NEW todo
  PROVE  /\ Begun(r, step, ref, todo).pc = step /\ Begun(r, step, ref, todo).req = r
         /\ Begun(r, step, ref, todo).ref = ref /\ Begun(r, step, ref, todo).todo = todo
         /\ Begun(r, step, ref, todo).cur = None
         /\ Begun(r, step, ref, todo).names = {} /\ Begun(r, step, ref, todo).found = {}
  BY DEF Begun, Idle

\* A handler that begins is legal when its first step fits its request.
LEMMA BeginFrame ==
  ASSUME TypeInv, NEW c \in Clients, NEW r \in Requests, NEW step \in Steps,
         NEW ref \in Opt(Profiles \cup Templates), NEW todo \in SUBSET Keys,
         Begin(c, r, step, ref, todo),
         Shape(Begun(r, step, ref, todo))
  PROVE  StepTyped
  <1>1. Begun(r, step, ref, todo) \in Handlers
    BY DEF Begun, Idle, Handlers, Opt
  <1>2. h' = [h EXCEPT ![c] = Begun(r, step, ref, todo)]
    BY DEF Begin, Begun
  <1>3. h' \in [Clients -> Handlers] /\ ShapeOK'
    BY <1>1, <1>2, Frame
  <1> QED
    BY <1>3, KvUnchanged DEF StepTyped, Begin

\* Every route begins with a legal handler.
LEMMA BeginTyped ==
  ASSUME TypeInv, NEW c \in Clients,
         \/ BeginPutSource(c) \/ BeginPutTemplate(c) \/ BeginPutProfile(c)
         \/ BeginCreateAlias(c) \/ BeginUpdateAlias(c) \/ BeginDeleteAlias(c)
         \/ BeginDelete(c)
  PROVE  StepTyped
  <1> USE BegunFields, RequestKinds, RequestIds
  <1>0. None \in Opt(Profiles \cup Templates) /\ {} \in SUBSET Keys
    BY DEF Opt
  <1>1. CASE BeginPutSource(c)
    <2>1. PICK r \in SourceReqs : Begin(c, r, "readSource", None, {})
      BY <1>1 DEF BeginPutSource
    <2>2. r \in Requests /\ "readSource" \in Steps /\ Shape(Begun(r, "readSource", None, {}))
      BY DEF Shape, Steps
    <2> QED
      BY <1>0, <2>1, <2>2, BeginFrame
  <1>2. CASE BeginPutTemplate(c)
    <2>1. PICK r \in TemplateReqs : Begin(c, r, "readTemplate", None, {})
      BY <1>2 DEF BeginPutTemplate
    <2>2. r \in Requests /\ "readTemplate" \in Steps /\ Shape(Begun(r, "readTemplate", None, {}))
      BY DEF Shape, Steps
    <2> QED
      BY <1>0, <2>1, <2>2, BeginFrame
  <1>3. CASE BeginPutProfile(c)
    <2>1. PICK r \in ProfileReqs : Begin(c, r, "readProfile", None, {})
      BY <1>3 DEF BeginPutProfile
    <2>2. r \in Requests /\ "readProfile" \in Steps /\ Shape(Begun(r, "readProfile", None, {}))
      BY DEF Shape, Steps
    <2> QED
      BY <1>0, <2>1, <2>2, BeginFrame
  <1>4. CASE BeginCreateAlias(c)
    <2>1. PICK r \in CreateReqs : Begin(c, r, "checkFree", r.profileId, {})
      BY <1>4 DEF BeginCreateAlias
    <2>2. /\ r \in Requests /\ "checkFree" \in Steps
          /\ Shape(Begun(r, "checkFree", r.profileId, {}))
      BY DEF Shape, Steps
    <2>3. r.profileId \in Opt(Profiles \cup Templates)
      BY DEF Opt
    <2> QED
      BY <1>0, <2>1, <2>2, <2>3, BeginFrame
  <1>5. CASE BeginUpdateAlias(c)
    <2>1. PICK r \in UpdateReqs : Begin(c, r, "readAlias", None, {})
      BY <1>5 DEF BeginUpdateAlias
    <2>2. r \in Requests /\ "readAlias" \in Steps /\ Shape(Begun(r, "readAlias", None, {}))
      BY DEF Shape, Steps
    <2> QED
      BY <1>0, <2>1, <2>2, BeginFrame
  <1>6. CASE BeginDeleteAlias(c)
    <2>1. PICK r \in UnlinkReqs : Begin(c, r, "removeAlias", None, {})
      BY <1>6 DEF BeginDeleteAlias
    <2>2. r \in Requests /\ "removeAlias" \in Steps /\ Shape(Begun(r, "removeAlias", None, {}))
      BY DEF Shape, Steps
    <2> QED
      BY <1>0, <2>1, <2>2, BeginFrame
  <1>7. CASE BeginDelete(c)
    <2>1. PICK r \in DeleteReqs : Begin(c, r, "list", None, ScanKeys(r))
      BY <1>7 DEF BeginDelete
    <2>2. r \in Requests /\ "list" \in Steps /\ Shape(Begun(r, "list", None, ScanKeys(r)))
      BY DEF Shape, Steps
    <2>3. ScanKeys(r) \in SUBSET Keys
      BY DEF ScanKeys, Keys
    <2> QED
      BY <1>0, <2>1, <2>2, <2>3, BeginFrame
  <1> QED
    BY <1>1, <1>2, <1>3, <1>4, <1>5, <1>6, <1>7

\* upsertSource keeps the types: the put has the body or the record or the default.
LEMMA SourceTyped ==
  ASSUME TypeInv, NEW c \in Clients, ReadSource(c) \/ WriteSource(c)
  PROVE  StepTyped
  <1>1. CASE ReadSource(c)
    <2> DEFINE y == [h[c] EXCEPT !.pc = "writeSource", !.cur = source[h[c].req.id]]
    <2>1. h' = [h EXCEPT ![c] = y]
      BY <1>1, HandlerFields DEF ReadSource, Handlers, TypeInv, TypeOK
    <2>2. source[h[c].req.id] \in Opt(Payloads)
      BY <1>1, HandlerFields, RequestIds DEF ReadSource, At, Shape, TypeInv, TypeOK
    <2>3. y \in Handlers
      BY <2>2, HandlerFields DEF Handlers, Steps, Opt
    <2>4. Shape(y)
      BY <1>1, <2>2, HandlerFields DEF ReadSource, At, Shape, Handlers
    <2> QED
      BY <1>1, <2>1, <2>3, <2>4, Frame, KvUnchanged DEF StepTyped, ReadSource
  <1>2. CASE WriteSource(c)
    <2>1. h[c].req \in SourceReqs /\ h[c].cur \in Opt(Payloads)
      BY <1>2, HandlerFields DEF WriteSource, At, Shape
    <2>2. Or(h[c].req.payload, Or(h[c].cur, DefaultPayload)) \in Opt(Payloads)
      BY <2>1, RequestIds, RegistryAssumption DEF Or, Opt
    <2>3. KvTypeOK'
      BY <1>2, <2>1, <2>2 DEF WriteSource, KvTypeOK, TypeInv, TypeOK
    <2> QED
      BY <1>2, <2>3, StopFrame DEF StepTyped, WriteSource
  <1> QED
    BY <1>1, <1>2

\* upsertTemplate keeps the types, likewise.
LEMMA TemplateTyped ==
  ASSUME TypeInv, NEW c \in Clients, ReadTemplate(c) \/ WriteTemplate(c)
  PROVE  StepTyped
  <1>1. CASE ReadTemplate(c)
    <2> DEFINE y == [h[c] EXCEPT !.pc = "writeTemplate", !.cur = template[h[c].req.id]]
    <2>1. CASE Stop(c)
      BY <1>1, <2>1, StopFrame, KvUnchanged DEF StepTyped, ReadTemplate
    <2>2. CASE ~Stop(c)
      <3>1. h' = [h EXCEPT ![c] = y]
        BY <1>1, <2>2, HandlerFields DEF ReadTemplate, Handlers, TypeInv, TypeOK
      <3>2. template[h[c].req.id] \in Opt(Payloads)
        BY <1>1, HandlerFields, RequestIds DEF ReadTemplate, At, Shape, TypeInv, TypeOK
      <3>3. y \in Handlers
        BY <3>2, HandlerFields DEF Handlers, Steps, Opt
      <3>4. Shape(y)
        BY <1>1, <3>2, HandlerFields DEF ReadTemplate, At, Shape, Handlers
      <3> QED
        BY <1>1, <3>1, <3>3, <3>4, Frame, KvUnchanged DEF StepTyped, ReadTemplate
    <2> QED
      BY <2>1, <2>2
  <1>2. CASE WriteTemplate(c)
    <2>1. h[c].req \in TemplateReqs /\ h[c].cur \in Opt(Payloads)
      BY <1>2, HandlerFields DEF WriteTemplate, At, Shape
    <2>2. Or(h[c].req.payload, Or(h[c].cur, DefaultPayload)) \in Opt(Payloads)
      BY <2>1, RequestIds, RegistryAssumption DEF Or, Opt
    <2>3. KvTypeOK'
      BY <1>2, <2>1, <2>2 DEF WriteTemplate, KvTypeOK, TypeInv, TypeOK
    <2> QED
      BY <1>2, <2>3, StopFrame DEF StepTyped, WriteTemplate
  <1> QED
    BY <1>1, <1>2

\* What the merge writes is a whole profile.
LEMMA MergedWhole ==
  ASSUME NEW r \in ProfileReqs, NEW ref \in Templates, NEW cur \in Opt(ProfileRows)
  PROVE  MergedProfile(r, ref, cur) \in ProfileRows
  <1>1. CASE cur = None
    BY <1>1, RequestIds, RegistryAssumption DEF MergedProfile, Or, Opt, ProfileRows
  <1>2. CASE cur # None
    BY <1>2, RequestIds DEF MergedProfile, Or, Opt, ProfileRows
  <1> QED
    BY <1>1, <1>2

\* The template id a profile is put with is never absent once it is resolved.
LEMMA ReadProfileTyped ==
  ASSUME TypeInv, NEW c \in Clients, ReadProfile(c)
  PROVE  StepTyped
  <1> DEFINE r   == h[c].req
             cur == profile[r.id]
             tid == IF r.templateId # None \/ cur = None THEN r.templateId
                    ELSE cur.templateId
             y   == [h[c] EXCEPT !.pc = "checkTemplate", !.ref = tid]
  <1>1. CASE Stop(c)
    BY <1>1, StopFrame, KvUnchanged DEF StepTyped, ReadProfile
  <1>2. CASE ~Stop(c)
    <2>1. h' = [h EXCEPT ![c] = y] /\ tid # None
      BY <1>2, HandlerFields DEF ReadProfile, Handlers, TypeInv, TypeOK
    <2>2. r \in ProfileReqs
      BY HandlerFields DEF ReadProfile, At, Shape
    <2>3. cur \in Opt(ProfileRows)
      BY <2>2, RequestIds DEF TypeInv, TypeOK
    <2>4. tid \in Templates
      BY <2>1, <2>2, <2>3, RequestIds DEF Opt, ProfileRows
    <2>5. y \in Handlers
      BY <2>4, HandlerFields DEF Handlers, Steps, Opt
    <2>6. Shape(y)
      BY <2>2, <2>4, HandlerFields DEF Shape, Handlers
    <2> QED
      BY <2>1, <2>5, <2>6, Frame, KvUnchanged DEF StepTyped, ReadProfile
  <1> QED
    BY <1>1, <1>2

\* The template check hands the source ids of the body on to the loop.
LEMMA CheckTemplateTyped ==
  ASSUME TypeInv, NEW c \in Clients, CheckTemplate(c)
  PROVE  StepTyped
  <1> DEFINE y == [h[c] EXCEPT !.pc = "rereadProfile"]
             z == [h[c] EXCEPT !.pc = "checkSources", !.todo = h[c].req.sourceIds]
  <1>0. h[c].req \in ProfileReqs /\ h[c].ref \in Templates
    BY HandlerFields DEF CheckTemplate, At, Shape
  <1>1. CASE Stop(c)
    BY <1>1, StopFrame, KvUnchanged DEF StepTyped, CheckTemplate
  <1>2. CASE h' = [h EXCEPT ![c].pc = "rereadProfile"]
    <2>1. h' = [h EXCEPT ![c] = y]
      BY <1>2, HandlerFields DEF TypeInv, TypeOK
    <2>2. y \in Handlers /\ Shape(y)
      BY <1>0, HandlerFields DEF Handlers, Steps, Shape
    <2> QED
      BY <2>1, <2>2, Frame, KvUnchanged DEF StepTyped, CheckTemplate
  <1>3. CASE /\ h' = [h EXCEPT ![c].pc = "checkSources", ![c].todo = h[c].req.sourceIds]
             /\ h[c].req.sourceIds # None
    <2>1. h' = [h EXCEPT ![c] = z]
      BY <1>3, HandlerFields DEF TypeInv, TypeOK, Handlers
    <2>2. h[c].req.sourceIds \subseteq Sources
      BY <1>0, <1>3, RequestIds DEF Opt
    <2>3. z \in Handlers /\ Shape(z)
      BY <1>0, <2>2, HandlerFields DEF Handlers, Steps, Shape, Keys
    <2> QED
      BY <2>1, <2>3, Frame, KvUnchanged DEF StepTyped, CheckTemplate
  <1> QED
    BY <1>1, <1>2, <1>3 DEF CheckTemplate

\* The loop over the source ids stays within them.
LEMMA CheckSourceTyped ==
  ASSUME TypeInv, NEW c \in Clients, CheckSource(c)
  PROVE  StepTyped
  <1>0. /\ h[c].req \in ProfileReqs /\ h[c].ref \in Templates
        /\ h[c].todo \subseteq Sources /\ h[c].found \subseteq Keys
    BY HandlerFields DEF CheckSource, At, Shape, Handlers
  <1>1. PICK s \in h[c].todo :
          LET left    == h[c].todo \ {s}
              missing == h[c].found \cup {x \in {s} : source[x] = None}
          IN  IF left # {}
              THEN h' = [h EXCEPT ![c].todo = left, ![c].found = missing]
              ELSE IF missing # {} THEN Stop(c)
              ELSE h' = [h EXCEPT ![c].pc = "rereadProfile", ![c].todo = {}]
    BY DEF CheckSource
  <1> DEFINE left    == h[c].todo \ {s}
             missing == h[c].found \cup {x \in {s} : source[x] = None}
             y == [h[c] EXCEPT !.todo = left, !.found = missing]
             z == [h[c] EXCEPT !.pc = "rereadProfile", !.todo = {}]
  <1>2. left \subseteq Sources /\ left \subseteq Keys /\ missing \subseteq Keys
    BY <1>0 DEF Keys
  <1>3. y \in Handlers /\ Shape(y)
    BY <1>0, <1>2, HandlerFields DEF CheckSource, At, Handlers, Shape
  <1>4. z \in Handlers /\ Shape(z)
    BY <1>0, HandlerFields DEF Handlers, Shape, Steps
  <1>5. \/ h' = [h EXCEPT ![c] = y] \/ h' = [h EXCEPT ![c] = z] \/ Stop(c)
    BY <1>1, HandlerFields DEF TypeInv, TypeOK, Handlers
  <1>6. h' \in [Clients -> Handlers] /\ ShapeOK'
    BY <1>3, <1>4, <1>5, Frame, StopFrame
  <1> QED
    BY <1>6, KvUnchanged DEF StepTyped, CheckSource

\* The second read and the put of a profile keep the records whole.
LEMMA PutProfileTyped ==
  ASSUME TypeInv, NEW c \in Clients, RereadProfile(c) \/ WriteProfile(c)
  PROVE  StepTyped
  <1>1. CASE RereadProfile(c)
    <2> DEFINE y == [h[c] EXCEPT !.pc = "writeProfile", !.cur = profile[h[c].req.id]]
    <2>0. h[c].req \in ProfileReqs /\ h[c].ref \in Templates
      BY <1>1, HandlerFields DEF RereadProfile, At, Shape
    <2>1. CASE Stop(c)
      BY <1>1, <2>1, StopFrame, KvUnchanged DEF StepTyped, RereadProfile
    <2>2. CASE ~Stop(c)
      <3>1. h' = [h EXCEPT ![c] = y]
        BY <1>1, <2>2, HandlerFields DEF RereadProfile, Handlers, TypeInv, TypeOK
      <3>2. profile[h[c].req.id] \in Opt(ProfileRows)
        BY <2>0, RequestIds DEF TypeInv, TypeOK
      <3>3. profile[h[c].req.id] \in Opt(Payloads \cup ProfileRows)
        BY <3>2 DEF Opt
      <3>4. y \in Handlers
        BY <3>3, HandlerFields DEF Handlers, Steps
      <3>5. Shape(y)
        BY <2>0, <3>2, HandlerFields DEF Shape, Handlers
      <3> QED
        BY <1>1, <3>1, <3>4, <3>5, Frame, KvUnchanged DEF StepTyped, RereadProfile
    <2> QED
      BY <2>1, <2>2
  <1>2. CASE WriteProfile(c)
    <2>1. h[c].req \in ProfileReqs /\ h[c].ref \in Templates /\ h[c].cur \in Opt(ProfileRows)
      BY <1>2, HandlerFields DEF WriteProfile, At, Shape
    <2>2. MergedProfile(h[c].req, h[c].ref, h[c].cur) \in Opt(ProfileRows)
      BY <2>1, MergedWhole DEF Opt
    <2>3. KvTypeOK'
      BY <1>2, <2>1, <2>2 DEF WriteProfile, KvTypeOK, TypeInv, TypeOK
    <2> QED
      BY <1>2, <2>3, StopFrame DEF StepTyped, WriteProfile
  <1> QED
    BY <1>1, <1>2

\* The checks before an alias is put keep the types.
LEMMA CheckAliasTyped ==
  ASSUME TypeInv, NEW c \in Clients, CheckFree(c) \/ ReadAlias(c) \/ CheckProfile(c)
  PROVE  StepTyped
  <1>0. UNCHANGED kvVars
    BY DEF CheckFree, ReadAlias, CheckProfile
  <1>1. CASE Stop(c)
    BY <1>0, <1>1, StopFrame, KvUnchanged DEF StepTyped
  <1>2. CASE CheckFree(c) /\ ~Stop(c)
    <2> DEFINE y == [h[c] EXCEPT !.pc = "checkProfile"]
    <2>1. h' = [h EXCEPT ![c] = y]
      BY <1>2, HandlerFields DEF CheckFree, TypeInv, TypeOK
    <2>2. y \in Handlers /\ Shape(y)
      BY <1>2, HandlerFields DEF CheckFree, At, Handlers, Steps, Shape
    <2> QED
      BY <1>0, <2>1, <2>2, Frame, KvUnchanged DEF StepTyped
  <1>3. CASE ReadAlias(c) /\ ~Stop(c)
    <2> DEFINE ref == Or(h[c].req.profileId, alias[h[c].req.id])
               y == [h[c] EXCEPT !.pc = "checkProfile", !.ref = ref]
    <2>1. h' = [h EXCEPT ![c] = y] /\ alias[h[c].req.id] # None
      BY <1>3, HandlerFields DEF ReadAlias, TypeInv, TypeOK, Handlers
    <2>2. h[c].req \in UpdateReqs
      BY <1>3, HandlerFields DEF ReadAlias, At, Shape
    <2>3. ref \in Profiles
      BY <2>1, <2>2, RequestIds DEF TypeInv, TypeOK, Opt, Or
    <2>4. y \in Handlers /\ Shape(y)
      BY <2>2, <2>3, HandlerFields DEF Handlers, Steps, Shape, Opt
    <2> QED
      BY <1>0, <2>1, <2>4, Frame, KvUnchanged DEF StepTyped
  <1>4. CASE CheckProfile(c) /\ ~Stop(c)
    <2> DEFINE y == [h[c] EXCEPT !.pc = "writeAlias"]
    <2>1. h' = [h EXCEPT ![c] = y]
      BY <1>4, HandlerFields DEF CheckProfile, TypeInv, TypeOK
    <2>2. y \in Handlers /\ Shape(y)
      BY <1>4, HandlerFields DEF CheckProfile, At, Handlers, Steps, Shape
    <2> QED
      BY <1>0, <2>1, <2>2, Frame, KvUnchanged DEF StepTyped
  <1> QED
    BY <1>1, <1>2, <1>3, <1>4

\* The put and the removal of an alias keep the types.
LEMMA WriteAliasTyped ==
  ASSUME TypeInv, NEW c \in Clients, WriteAlias(c) \/ RemoveAlias(c)
  PROVE  StepTyped
  <1>1. CASE WriteAlias(c)
    <2>1. h[c].ref \in Opt(Profiles)
      BY <1>1, HandlerFields DEF WriteAlias, At, Shape, Opt
    <2>2. KvTypeOK'
      BY <1>1, <2>1 DEF WriteAlias, KvTypeOK, TypeInv, TypeOK
    <2> QED
      BY <1>1, <2>2, StopFrame DEF StepTyped, WriteAlias
  <1>2. CASE RemoveAlias(c)
    <2>1. KvTypeOK'
      BY <1>2 DEF RemoveAlias, KvTypeOK, TypeInv, TypeOK, Opt
    <2> QED
      BY <1>2, <2>1, StopFrame DEF StepTyped, RemoveAlias
  <1> QED
    BY <1>1, <1>2

\* A page of kvScan lists keys of the scan.
LEMMA ListPageTyped ==
  ASSUME TypeInv, NEW c \in Clients, ListPage(c)
  PROVE  StepTyped
  <1>0. /\ h[c].req \in DeleteReqs
        /\ h[c].todo \subseteq Keys /\ h[c].names \subseteq Keys
    BY HandlerFields DEF ListPage, At, Shape, Handlers
  <1>1. PICK page \in SUBSET h[c].todo :
          h' = [h EXCEPT ![c].todo = h[c].todo \ page,
                         ![c].names = h[c].names \cup {k \in page : Stored(k, h[c].req)},
                         ![c].pc = IF h[c].todo \ page # {} THEN "list"
                                   ELSE IF h[c].names \cup {k \in page : Stored(k, h[c].req)} # {}
                                   THEN "fetch" ELSE "remove"]
    BY DEF ListPage
  <1> DEFINE left  == h[c].todo \ page
             names == h[c].names \cup {k \in page : Stored(k, h[c].req)}
             step  == IF left # {} THEN "list" ELSE IF names # {} THEN "fetch" ELSE "remove"
             y == [h[c] EXCEPT !.todo = left, !.names = names, !.pc = step]
  <1>2. left \subseteq Keys /\ names \subseteq Keys /\ step \in {"list", "fetch", "remove"}
    BY <1>0
  <1>3. h' = [h EXCEPT ![c] = y]
    BY <1>1, HandlerFields DEF TypeInv, TypeOK, Handlers
  <1> HIDE DEF left, names, step
  <1>4. y \in Handlers /\ Shape(y)
    BY <1>0, <1>2, HandlerFields DEF Handlers, Shape, Steps
  <1> QED
    BY <1>3, <1>4, Frame, KvUnchanged DEF StepTyped, ListPage

\* A get of the scan finds keys that were listed.
LEMMA FetchOneTyped ==
  ASSUME TypeInv, NEW c \in Clients, FetchOne(c)
  PROVE  StepTyped
  <1>0. /\ h[c].req \in DeleteReqs
        /\ h[c].names \subseteq Keys /\ h[c].found \subseteq Keys
    BY HandlerFields DEF FetchOne, At, Shape, Handlers
  <1>1. PICK k \in h[c].names :
          LET left  == h[c].names \ {k}
              found == h[c].found \cup {x \in {k} : Refers(x, h[c].req, alias, profile)}
          IN  IF left # {}
              THEN h' = [h EXCEPT ![c].names = left, ![c].found = found]
              ELSE IF found # {} THEN Stop(c)
              ELSE h' = [h EXCEPT ![c].pc = "remove", ![c].names = {}]
    BY DEF FetchOne
  <1> DEFINE left  == h[c].names \ {k}
             found == h[c].found \cup {x \in {k} : Refers(x, h[c].req, alias, profile)}
             y == [h[c] EXCEPT !.names = left, !.found = found]
             z == [h[c] EXCEPT !.pc = "remove", !.names = {}]
  <1>2. left \subseteq Keys /\ found \subseteq Keys
    BY <1>0
  <1>3. h' = [h EXCEPT ![c] = y] \/ h' = [h EXCEPT ![c] = z] \/ Stop(c)
    BY <1>1, HandlerFields DEF TypeInv, TypeOK, Handlers
  <1> HIDE DEF left, found
  <1>4. y \in Handlers /\ Shape(y)
    BY <1>0, <1>2, HandlerFields DEF FetchOne, At, Handlers, Shape
  <1>5. z \in Handlers /\ Shape(z)
    BY <1>0, HandlerFields DEF Handlers, Shape, Steps
  <1>6. h' \in [Clients -> Handlers] /\ ShapeOK'
    BY <1>3, <1>4, <1>5, Frame, StopFrame
  <1> QED
    BY <1>6, KvUnchanged DEF StepTyped, FetchOne

\* A removal keeps the records whole.
LEMMA RemoveTyped ==
  ASSUME TypeInv, NEW c \in Clients, Remove(c) \/ Abort(c)
  PROVE  StepTyped
  <1>1. CASE Remove(c)
    <2>1. KvTypeOK'
      BY <1>1 DEF Remove, RemoveProfile, RemoveTemplate, RemoveSource, KvTypeOK,
         TypeInv, TypeOK, Opt
    <2> QED
      BY <1>1, <2>1, StopFrame DEF StepTyped, Remove
  <1>2. CASE Abort(c)
    BY <1>2, StopFrame, KvUnchanged DEF StepTyped, Abort
  <1> QED
    BY <1>1, <1>2

\* Every step of a handler keeps the types.
LEMMA StepKeepsTypes ==
  ASSUME TypeInv, NEW c \in Clients, Step(c)
  PROVE  StepTyped
  BY BeginTyped, SourceTyped, TemplateTyped, ReadProfileTyped, CheckTemplateTyped,
     CheckSourceTyped, PutProfileTyped, CheckAliasTyped, WriteAliasTyped, ListPageTyped,
     FetchOneTyped, RemoveTyped
  DEF Step

\* The history variables keep their types.
LEMMA ObserveTyped ==
  ASSUME TypeInv, Observe
  PROVE  /\ everProfile' \subseteq Profiles /\ everTemplate' \subseteq Templates
         /\ everSource' \subseteq Sources /\ linked' \in [Clients -> SUBSET Keys]
         /\ overlapped' \in BOOLEAN
  <1>1. everProfile' \subseteq Profiles /\ everTemplate' \subseteq Templates
          /\ everSource' \subseteq Sources
    BY DEF Observe, TypeInv, TypeOK
  <1>2. ASSUME NEW c \in Clients
        PROVE  (IF h'[c].pc = "idle" THEN {}
                ELSE IF h[c].pc = "idle" THEN Referrers(h'[c].req, alias', profile')
                ELSE linked[c] \cap Referrers(h'[c].req, alias', profile')) \in SUBSET Keys
    BY ReferrersScanned
  <1>3. linked' \in [Clients -> SUBSET Keys]
    BY <1>2 DEF Observe
  <1>4. overlapped' \in BOOLEAN
    BY DEF Observe
  <1> QED
    BY <1>1, <1>3, <1>4

\* The inductive form of TypeOK: the step a handler is at agrees with its request
\* and with what it has resolved and read so far.
THEOREM TypeInvariant == Spec => []TypeInv
  <1>1. Init => TypeInv
    BY IdleHandler DEF Init, TypeInv, TypeOK, ShapeOK, Opt
  <1>2. TypeInv /\ [Next]_vars => TypeInv'
    <2> SUFFICES ASSUME TypeInv, [Next]_vars PROVE TypeInv'
      OBVIOUS
    <2>1. CASE Next
      <3>1. PICK c \in Clients : Step(c)
        BY <2>1 DEF Next
      <3>2. StepTyped
        BY <3>1, StepKeepsTypes
      <3> QED
        BY <2>1, <3>2, ObserveTyped DEF Next, StepTyped, KvTypeOK, TypeInv, TypeOK
    <2>2. CASE UNCHANGED vars
      BY <2>2 DEF vars, TypeInv, TypeOK, ShapeOK, Shape
    <2> QED
      BY <2>1, <2>2
  <1> QED
    BY <1>1, <1>2, PTL DEF Spec

\* Every stored record is whole, whatever a body leaves out and whatever the
\* handlers interleave.
THEOREM RegistryTypeCorrect == Spec => []TypeOK
  <1>1. TypeInv => TypeOK
    BY DEF TypeInv
  <1> QED
    BY <1>1, TypeInvariant, PTL

-----------------------------------------------------------------------------
(* Deletes and the records that refer to what they delete.                 *)

\* Where a delete keeps a referrer that never lets go: among the keys still to be
\* listed, then among those still to be read, and then it has been found.
Tracked(c) ==
    /\ linked[c] \subseteq Referrers(h[c].req, alias, profile)
    /\ h[c].pc = "idle" => linked[c] = {}
    /\ h[c].pc = "list" => linked[c] \subseteq h[c].todo \cup h[c].names
    /\ h[c].pc = "fetch" => linked[c] \subseteq h[c].names \/ h[c].found # {}
    /\ h[c].pc = "remove" => linked[c] = {}

LinksTracked == \A c \in Clients : Tracked(c)

LinkInv == TypeInv /\ LinksTracked

\* A key that refers to something is stored, so kvScan lists it.
LEMMA ReferrersStored ==
  ASSUME TypeInv, NEW r \in DeleteReqs, NEW k \in Referrers(r, alias, profile)
  PROVE  Stored(k, r) /\ Refers(k, r, alias, profile)
  BY DeleteKinds, RegistryAssumption
  DEF Referrers, Refers, Stored, ScanKeys, TypeInv, TypeOK

\* Observe never adds a referrer to a delete that has begun.
LEMMA LinkedShrinks ==
  ASSUME LinkInv, Observe, NEW c \in Clients
  PROVE  /\ h'[c].pc = "idle" => linked'[c] = {}
         /\ linked'[c] \subseteq Referrers(h'[c].req, alias', profile')
         /\ h[c].pc # "idle" => linked'[c] \subseteq linked[c]
  BY DEF Observe

\* What is tracked for the delete of a client that does not move stays tracked.
LEMMA OthersTracked ==
  ASSUME LinkInv, Observe, NEW d \in Clients, h'[d] = h[d]
  PROVE  Tracked(d)'
  BY LinkedShrinks DEF LinkInv, LinksTracked, Tracked

\* A delete begins with all its referrers still to be listed.
LEMMA BeginTracked ==
  ASSUME LinkInv, Observe, NEW c \in Clients, NEW r, NEW step, NEW ref, NEW todo,
         Begin(c, r, step, ref, todo), step \notin {"fetch", "remove"},
         step = "list" => todo = ScanKeys(r)
  PROVE  Tracked(c)'
  <1>1. h'[c] = Begun(r, step, ref, todo)
    BY DEF Begin, Begun, LinkInv, TypeInv, TypeOK
  <1>2. /\ h'[c].pc = step /\ h'[c].req = r /\ h'[c].todo = todo
    BY <1>1, BegunFields
  <1>3. step = "list" => linked'[c] \subseteq todo
    BY <1>2, LinkedShrinks, ReferrersScanned
  <1> QED
    BY <1>2, <1>3, LinkedShrinks DEF Tracked

\* A page moves lasting referrers from "to be listed" to "listed".
LEMMA ListPageTracked ==
  ASSUME LinkInv, Observe, NEW c \in Clients, ListPage(c)
  PROVE  Tracked(c)'
  <1>0. h[c].req \in DeleteReqs /\ h[c].pc = "list" /\ TypeInv
    BY HandlerFields DEF ListPage, At, Shape, LinkInv
  <1>1. PICK page \in SUBSET h[c].todo :
          h' = [h EXCEPT ![c].todo = h[c].todo \ page,
                         ![c].names = h[c].names \cup {k \in page : Stored(k, h[c].req)},
                         ![c].pc = IF h[c].todo \ page # {} THEN "list"
                                   ELSE IF h[c].names \cup {k \in page : Stored(k, h[c].req)} # {}
                                   THEN "fetch" ELSE "remove"]
    BY DEF ListPage
  <1> DEFINE left  == h[c].todo \ page
             names == h[c].names \cup {k \in page : Stored(k, h[c].req)}
  <1>2. /\ h'[c].todo = left /\ h'[c].names = names
        /\ h'[c].pc = IF left # {} THEN "list" ELSE IF names # {} THEN "fetch" ELSE "remove"
    BY <1>0, <1>1, HandlerFields DEF TypeInv, TypeOK, Handlers
  <1>3. linked[c] \subseteq left \cup names
    <2> SUFFICES ASSUME NEW k \in linked[c], k \notin left PROVE k \in names
      OBVIOUS
    <2>1. k \in h[c].todo \cup h[c].names
      BY <1>0 DEF LinkInv, LinksTracked, Tracked
    <2>2. Stored(k, h[c].req)
      BY <1>0, ReferrersStored DEF LinkInv, LinksTracked, Tracked
    <2> QED
      BY <2>1, <2>2
  <1>4. linked'[c] \subseteq left \cup names
    BY <1>0, <1>3, LinkedShrinks
  <1> HIDE DEF left, names
  <1> QED
    BY <1>2, <1>4, LinkedShrinks DEF Tracked

\* A get moves a lasting referrer from "listed" to "found".
LEMMA FetchOneTracked ==
  ASSUME LinkInv, Observe, NEW c \in Clients, FetchOne(c)
  PROVE  Tracked(c)'
  <1>0. h[c].req \in DeleteReqs /\ h[c].pc = "fetch" /\ TypeInv
    BY HandlerFields DEF FetchOne, At, Shape, LinkInv
  <1>1. PICK k \in h[c].names :
          LET left  == h[c].names \ {k}
              found == h[c].found \cup {x \in {k} : Refers(x, h[c].req, alias, profile)}
          IN  IF left # {}
              THEN h' = [h EXCEPT ![c].names = left, ![c].found = found]
              ELSE IF found # {} THEN Stop(c)
              ELSE h' = [h EXCEPT ![c].pc = "remove", ![c].names = {}]
    BY DEF FetchOne
  <1> DEFINE left  == h[c].names \ {k}
             found == h[c].found \cup {x \in {k} : Refers(x, h[c].req, alias, profile)}
  <1>2. linked[c] \subseteq left \/ found # {}
    <2> SUFFICES ASSUME found = {} PROVE linked[c] \subseteq left
      OBVIOUS
    <2>1. linked[c] \subseteq h[c].names
      BY <1>0 DEF LinkInv, LinksTracked, Tracked
    <2>2. k \notin linked[c]
      BY <1>0, ReferrersStored DEF LinkInv, LinksTracked, Tracked
    <2> QED
      BY <2>1, <2>2
  <1>3. CASE Stop(c)
    <2>1. h'[c].pc = "idle"
      BY <1>0, <1>3 DEF Stop, Idle, TypeInv, TypeOK
    <2> QED
      BY <2>1, LinkedShrinks DEF Tracked
  <1>4. CASE left # {} /\ h' = [h EXCEPT ![c].names = left, ![c].found = found]
    <2>1. h'[c].pc = "fetch" /\ h'[c].names = left /\ h'[c].found = found
      BY <1>0, <1>4, HandlerFields DEF TypeInv, TypeOK, Handlers
    <2> QED
      BY <1>0, <1>2, <2>1, LinkedShrinks DEF Tracked
  <1>5. CASE left = {} /\ found = {} /\ h' = [h EXCEPT ![c].pc = "remove", ![c].names = {}]
    <2>1. h'[c].pc = "remove"
      BY <1>0, <1>5, HandlerFields DEF TypeInv, TypeOK, Handlers
    <2>2. linked'[c] = {}
      BY <1>0, <1>2, <1>5, LinkedShrinks
    <2> QED
      BY <2>1, <2>2, LinkedShrinks DEF Tracked
  <1> QED
    BY <1>1, <1>3, <1>4, <1>5

\* The other handlers never come near the steps of a delete.
LEMMA OtherTracked ==
  ASSUME LinkInv, Observe, NEW c \in Clients,
         \/ ReadSource(c) \/ WriteSource(c) \/ ReadTemplate(c) \/ WriteTemplate(c)
         \/ ReadProfile(c) \/ CheckTemplate(c) \/ CheckSource(c) \/ RereadProfile(c)
         \/ WriteProfile(c) \/ CheckFree(c) \/ ReadAlias(c) \/ CheckProfile(c)
         \/ WriteAlias(c) \/ RemoveAlias(c) \/ Remove(c) \/ Abort(c)
  PROVE  Tracked(c)'
  <1>0. h \in [Clients -> Handlers] /\ h[c] \in Handlers
    BY DEF LinkInv, TypeInv, TypeOK
  <1>1. h'[c].pc \notin {"list", "fetch", "remove"}
    <2>1. CASE Stop(c)
      BY <1>0, <2>1 DEF Stop, Idle
    <2>2. CASE CheckSource(c) /\ ~Stop(c)
      BY <1>0, <2>2 DEF CheckSource, At, Handlers
    <2>3. CASE ~CheckSource(c) /\ ~Stop(c)
      BY <1>0, <2>3 DEF ReadSource, WriteSource, ReadTemplate, WriteTemplate,
         ReadProfile, CheckTemplate, RereadProfile, WriteProfile, CheckFree, ReadAlias,
         CheckProfile, WriteAlias, RemoveAlias, Remove, Abort, Handlers
    <2> QED
      BY <2>1, <2>2, <2>3
  <1> QED
    BY <1>1, LinkedShrinks DEF Tracked

\* Every step keeps each lasting referrer to be listed, listed or found.
LEMMA StepTracked ==
  ASSUME LinkInv, Observe, NEW c \in Clients, Step(c)
  PROVE  Tracked(c)'
  <1>1. CASE BeginPutSource(c) \/ BeginPutTemplate(c) \/ BeginPutProfile(c)
    BY <1>1, BeginTracked DEF BeginPutSource, BeginPutTemplate, BeginPutProfile
  <1>2. CASE BeginCreateAlias(c) \/ BeginUpdateAlias(c) \/ BeginDeleteAlias(c)
    BY <1>2, BeginTracked DEF BeginCreateAlias, BeginUpdateAlias, BeginDeleteAlias
  <1>3. CASE BeginDelete(c)
    BY <1>3, BeginTracked DEF BeginDelete
  <1>4. CASE ListPage(c) \/ FetchOne(c)
    BY <1>4, ListPageTracked, FetchOneTracked
  <1> QED
    BY <1>1, <1>2, <1>3, <1>4, OtherTracked DEF Step

\* A step is a step of one client: the handlers of the others stay as they are.
LEMMA OneHandler ==
  ASSUME TypeInv, NEW c \in Clients, Step(c)
  PROVE  \A d \in Clients \ {c} : h'[d] = h[d]
  <1>1. h \in [Clients -> Handlers]
    BY DEF TypeInv, TypeOK
  <1>2. CASE \/ BeginPutSource(c) \/ BeginPutTemplate(c) \/ BeginPutProfile(c)
             \/ BeginCreateAlias(c) \/ BeginUpdateAlias(c) \/ BeginDeleteAlias(c)
             \/ BeginDelete(c)
    <2>1. PICK y : h' = [h EXCEPT ![c] = y]
      BY <1>2 DEF BeginPutSource, BeginPutTemplate, BeginPutProfile, BeginCreateAlias,
         BeginUpdateAlias, BeginDeleteAlias, BeginDelete, Begin
    <2> QED
      BY <1>1, <2>1
  <1>3. CASE \/ ReadSource(c) \/ WriteSource(c) \/ ReadTemplate(c) \/ WriteTemplate(c)
             \/ ReadProfile(c) \/ CheckTemplate(c) \/ RereadProfile(c)
             \/ WriteProfile(c) \/ CheckFree(c) \/ ReadAlias(c) \/ CheckProfile(c)
             \/ WriteAlias(c) \/ RemoveAlias(c) \/ Remove(c) \/ Abort(c)
    BY <1>1, <1>3 DEF ReadSource, WriteSource, ReadTemplate, WriteTemplate, ReadProfile,
       CheckTemplate, RereadProfile, WriteProfile, CheckFree, ReadAlias, CheckProfile,
       WriteAlias, RemoveAlias, Remove, Abort, Stop
  <1>4. CASE CheckSource(c) \/ ListPage(c) \/ FetchOne(c)
    BY <1>1, <1>4 DEF CheckSource, ListPage, FetchOne, Stop
  <1> QED
    BY <1>2, <1>3, <1>4 DEF Step

\* Where a lasting referrer of a delete is at every moment of its scan.
LEMMA LinkInvariant == Spec => []LinkInv
  <1>1. Init => LinksTracked
    BY DEF Init, LinksTracked, Tracked, Idle
  <1>2. TypeInv /\ TypeInv' /\ LinksTracked /\ [Next]_vars => LinksTracked'
    <2> SUFFICES ASSUME LinkInv, [Next]_vars PROVE LinksTracked'
      BY DEF LinkInv
    <2>1. CASE Next
      <3>1. PICK c \in Clients : Step(c)
        BY <2>1 DEF Next
      <3>2. \A d \in Clients \ {c} : Tracked(d)'
        BY <2>1, <3>1, OneHandler, OthersTracked DEF Next, LinkInv
      <3> QED
        BY <2>1, <3>1, <3>2, StepTracked DEF Next, LinksTracked
    <2>2. CASE UNCHANGED vars
      BY <2>2 DEF vars, LinkInv, LinksTracked, Tracked
    <2> QED
      BY <2>1, <2>2
  <1> QED
    BY <1>1, <1>2, TypeInvariant, PTL DEF Spec, LinkInv

\* A delete never removes an entity that some record has referred to ever since
\* the delete began, whatever the pages of kvScan and the writes of others.
THEOREM StableLinksBlockDeletes == Spec => []StableLinkBlocksDelete
  <1>1. LinkInv => StableLinkBlocksDelete
    BY DEF LinkInv, LinksTracked, Tracked, StableLinkBlocksDelete, At
  <1> QED
    BY <1>1, LinkInvariant, PTL
=============================================================================
