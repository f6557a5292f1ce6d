-------------------------- MODULE SettingsLockProofs --------------------------
(***************************************************************************)
(* Theorems about SettingsLock, for any number of requests and threads and *)
(* either policy of the lock.  The invariant behind them counts guards: at *)
(* every step a request holds a known number of them, at least one from    *)
(* its first look at the settings on, and *GLOBAL.write() waits for zero.  *)
(* In the worker nothing waits: there the flag is what keeps the settings  *)
(* as they are, as long as loading them is not interrupted.                *)
(***************************************************************************)
EXTENDS SettingsLock, TLAPS

\* How many guards a request holds at each step.
Depth(step) ==
    IF step \in {"new", "ensure", "import", "read", "done", "exit"} THEN 0
    ELSE IF step \in {"fetch", "rulesetRead"} THEN 2
    ELSE IF step = "rules" THEN 3 ELSE 1

GuardsCounted ==
    /\ \A r \in Requests : guards[r] = Depth(pc[r])
    /\ guards[Main] = 0 /\ pc[Main] \in {"load", "write", "done", "exit"}

\* What is to be written has been loaded: the defaults never come back.
WritesLoaded == \A r \in Tasks : pc[r] = "write" => loaded[r] \in Contents

\* Each build has its own way to the settings: main() and the reloads of the native
\* server, the first requests of the worker.
Starting == {"new", "ensure", "import", "done"}
NativeSteps == {"new", "read", "refreshRead", "load", "write", "reread", "nestedRead",
                "fetch", "rulesetRead", "rules", "done", "exit"}
WorkerSteps == {"new", "ensure", "import", "read", "nestedRead", "fetch", "rulesetRead",
                "rules", "done"}

BuildInv ==
    /\ native => /\ \A r \in Requests : pc[r] \in NativeSteps
                 /\ pc[Main] = "done" => settings # None
                 /\ pc[Main] # "done" => \A r \in Requests : pc[r] = "new"
    /\ ~native => /\ pc[Main] = "exit"
                  /\ \A r \in Requests : pc[r] \in WorkerSteps
                  /\ ready => settings # None
                  /\ ~ready => \A r \in Requests : pc[r] \in Starting
                  /\ file \notin Importing => \A r \in Requests : pc[r] # "import"

LockInv ==
    TypeOK /\ GuardsCounted /\ WritesLoaded /\ BuildInv /\ NoTornRequest /\ NeverDefaults

\* The invariant holds before main() has loaded the file.
LEMMA LockInvInit == Init => LockInv
  <1> SUFFICES ASSUME Init PROVE LockInv
    OBVIOUS
  <1> USE LockAssumption DEF Tasks
  <1>1. \A r \in Requests : r # Main /\ pc[r] = "new" /\ guards[r] = 0
    BY DEF Init
  <1>2. pc[Main] = (IF native THEN "load" ELSE "exit") /\ guards[Main] = 0
    BY DEF Init
  <1>3. TypeOK
    <2>1. pc \in [Tasks -> Steps]
      BY DEF Init, Steps
    <2>2. guards \in [Tasks -> 0 .. 3]
      BY DEF Init
    <2>3. loaded \in [Tasks -> {None} \cup Contents] /\ first \in [Tasks -> {None} \cup Contents]
      BY DEF Init
    <2>4. \A r \in Tasks : guards[r] = 0
      BY DEF Init
    <2> QED
      BY <2>1, <2>2, <2>3, <2>4 DEF Init, TypeOK
  <1>4. GuardsCounted /\ NoTornRequest /\ NeverDefaults
    BY <1>1, <1>2 DEF GuardsCounted, NoTornRequest, NeverDefaults, Depth
  <1>5. WritesLoaded
    BY <1>1, <1>2 DEF WritesLoaded
  <1>6. BuildInv
    BY <1>1, <1>2 DEF Init, BuildInv, NativeSteps, WorkerSteps, Starting
  <1> QED
    BY <1>3, <1>4, <1>5, <1>6 DEF LockInv

Idle == {"new", "ensure", "import", "read", "done", "exit"}

\* A writer gets the lock only when no request is past its first look.
LEMMA WriterWaits ==
  ASSUME LockInv, NoReader
  PROVE  \A r \in Requests : pc[r] \in Idle
  <1> SUFFICES ASSUME NEW r \in Requests PROVE pc[r] \in Idle
    OBVIOUS
  <1>1. guards[r] = 0 /\ guards[r] = Depth(pc[r]) /\ pc[r] \in Steps
    BY DEF NoReader, Tasks, LockInv, GuardsCounted, TypeOK
  <1> QED BY <1>1 DEF Depth, Steps, Running, Idle

\* Only requests of the worker load its preferences.
LEMMA WorkerLoads ==
  ASSUME LockInv, NEW r \in Tasks, pc[r] \in {"ensure", "import"}
  PROVE  r \in Requests /\ ~native /\ (pc[r] = "import" => file \in Importing)
  BY LockAssumption DEF Tasks, LockInv, GuardsCounted, BuildInv, NativeSteps

\* A load that ends: all that are past it are those that need not care.
LEMMA PrefsPut ==
  ASSUME LockInv, NEW r \in Requests, ~native, pc[r] \in {"ensure", "import"}, PutPrefs(r),
         ~ready \/ file \in Importing
  PROVE  LockInv'
  <1> USE LockAssumption DEF Tasks
  <1>1. settings \in {None} \cup Contents /\ file \in Contents /\ pc \in [Tasks -> Steps]
    BY DEF LockInv, TypeOK
  <1>2. UNCHANGED <<native, file, guards, loaded, first>>
    BY DEF PutPrefs
  <1>3. /\ \/ settings' = file /\ ready' = TRUE /\ pc' = [pc EXCEPT ![r] = "read"]
           \/ settings' = settings /\ ready' = ready /\ pc' = [pc EXCEPT ![r] = "done"]
    BY DEF PutPrefs, Go
  <1>4. TypeOK'
    BY <1>1, <1>2, <1>3 DEF LockInv, TypeOK, Steps, Running
  <1>5. GuardsCounted' /\ WritesLoaded'
    BY <1>1, <1>2, <1>3 DEF LockInv, GuardsCounted, WritesLoaded, Depth
  <1>6. BuildInv'
    BY <1>1, <1>2, <1>3 DEF LockInv, BuildInv, WorkerSteps, Starting
  <1>7. NeverDefaults'
    BY <1>1, <1>2, <1>3 DEF LockInv, NeverDefaults
  <1>8. NoTornRequest'
    <2>1. CASE file \in Importing
      BY <1>2, <2>1 DEF NoTornRequest
    <2>2. CASE ~ready
      <3>1. \A q \in Requests : pc'[q] \in Starting \cup {"read"}
        BY <1>1, <1>3, <2>2 DEF LockInv, BuildInv, Starting
      <3> QED
        BY <3>1 DEF NoTornRequest, Starting
    <2> QED
      BY <2>1, <2>2
  <1> QED
    BY <1>4, <1>5, <1>6, <1>7, <1>8 DEF LockInv

\* Every step keeps it.
LEMMA LockInvStep == LockInv /\ [Next]_vars => LockInv'
  <1> SUFFICES ASSUME LockInv, [Next]_vars PROVE LockInv'
    OBVIOUS
  <1> USE LockAssumption DEF Tasks
  <1>1. CASE EditFile
    BY <1>1 DEF EditFile, LockInv, TypeOK, GuardsCounted, WritesLoaded, BuildInv,
       NoTornRequest, NeverDefaults, NativeSteps, WorkerSteps, Starting, Depth, Steps, Running
  <1>2. ASSUME NEW r \in Requests, Arrive(r) PROVE LockInv'
    BY <1>2 DEF Arrive, Go, LockInv, TypeOK, GuardsCounted, WritesLoaded, BuildInv,
       NoTornRequest, NeverDefaults, NativeSteps, WorkerSteps, Starting, Depth, Steps, Running
  <1>3. ASSUME NEW r \in Tasks, Ensure(r) PROVE LockInv'
    <2>1. r \in Requests /\ ~native
      BY <1>3, WorkerLoads DEF Ensure
    <2>2. CASE ready \/ file \in Importing
      BY <1>3, <2>1, <2>2 DEF Ensure, Go, LockInv, TypeOK, GuardsCounted, WritesLoaded, BuildInv,
            NoTornRequest, NeverDefaults, NativeSteps, WorkerSteps, Starting, Depth, Steps, Running
    <2>3. CASE ~(ready \/ file \in Importing)
      BY <1>3, <2>1, <2>3, PrefsPut DEF Ensure
    <2> QED
      BY <2>2, <2>3
  <1>4. ASSUME NEW r \in Tasks, Imported(r) PROVE LockInv'
    BY <1>4, WorkerLoads, PrefsPut DEF Imported
  <1>5. ASSUME NEW r \in Tasks, Read(r) PROVE LockInv'
    BY <1>5 DEF Read, Reloads, Go, TakeGuard, LockInv, TypeOK, GuardsCounted, WritesLoaded, BuildInv,
       NoTornRequest, NeverDefaults, NativeSteps, WorkerSteps, Starting, Depth, Steps, Running
  <1>6. ASSUME NEW r \in Tasks, RefreshRead(r) PROVE LockInv'
    BY <1>6 DEF RefreshRead, Go, LockInv, TypeOK, GuardsCounted, WritesLoaded, BuildInv,
       NoTornRequest, NeverDefaults, NativeSteps, WorkerSteps, Starting, Depth, Steps, Running
  <1>7. ASSUME NEW r \in Tasks, Load(r) PROVE LockInv'
    BY <1>7 DEF Load, Go, LockInv, TypeOK, GuardsCounted, WritesLoaded, BuildInv,
       NoTornRequest, NeverDefaults, NativeSteps, WorkerSteps, Starting, Depth, Steps, Running
  <1>8. ASSUME NEW r \in Tasks, Write(r) PROVE LockInv'
    <2>1. \A q \in Requests : pc[q] \in Idle
      BY <1>8, WriterWaits DEF Write
    <2>2. r = Main
      BY <1>8, <2>1 DEF Write, Idle
    <2> QED
      BY <1>8, <2>1, <2>2 DEF Write, Go, Idle, LockInv, TypeOK, GuardsCounted, WritesLoaded, BuildInv,
         NoTornRequest, NeverDefaults, NativeSteps, WorkerSteps, Starting, Depth, Steps, Running
  <1>9. ASSUME NEW r \in Tasks, Reread(r) PROVE LockInv'
    BY <1>9 DEF Reread, Go, LockInv, TypeOK, GuardsCounted, WritesLoaded, BuildInv,
       NoTornRequest, NeverDefaults, NativeSteps, WorkerSteps, Starting, Depth, Steps, Running
  <1>10. ASSUME NEW r \in Tasks, NestedRead(r) PROVE LockInv'
    BY <1>10 DEF NestedRead, Go, TakeGuard, LockInv, TypeOK, GuardsCounted, WritesLoaded, BuildInv,
       NoTornRequest, NeverDefaults, NativeSteps, WorkerSteps, Starting, Depth, Steps, Running
  <1>11. ASSUME NEW r \in Tasks, Fetched(r) PROVE LockInv'
    BY <1>11 DEF Fetched, Go, LockInv, TypeOK, GuardsCounted, WritesLoaded, BuildInv,
       NoTornRequest, NeverDefaults, NativeSteps, WorkerSteps, Starting, Depth, Steps, Running
  <1>12. ASSUME NEW r \in Tasks, RulesetRead(r) PROVE LockInv'
    BY <1>12 DEF RulesetRead, Go, TakeGuard, LockInv, TypeOK, GuardsCounted, WritesLoaded, BuildInv,
       NoTornRequest, NeverDefaults, NativeSteps, WorkerSteps, Starting, Depth, Steps, Running
  <1>13. ASSUME NEW r \in Tasks, Finish(r) PROVE LockInv'
    BY <1>13 DEF Finish, Go, LockInv, TypeOK, GuardsCounted, WritesLoaded, BuildInv,
       NoTornRequest, NeverDefaults, NativeSteps, WorkerSteps, Starting, Depth, Steps, Running
  <1>14. CASE UNCHANGED vars
    BY <1>14 DEF vars, LockInv, TypeOK, GuardsCounted, WritesLoaded, BuildInv,
       NoTornRequest, NeverDefaults
  <1> QED
    BY <1>1, <1>2, <1>3, <1>4, <1>5, <1>6, <1>7, <1>8, <1>9, <1>10, <1>11,
        <1>12, <1>13, <1>14
    DEF Next, Work

\* A task holds as many guards as the step it is at says, so a writer is kept out by
\* every request that is past its first look.
THEOREM LockInvariant == Spec => []LockInv
  <1>1. Init => LockInv
    BY LockInvInit
  <1>2. LockInv /\ [Next]_vars => LockInv'
    BY LockInvStep
  <1> QED
    BY <1>1, <1>2, PTL DEF Spec

\* Guards are counted as the code takes and drops them: never more than three,
\* none once a request is answered.
THEOREM LockTypeCorrect == Spec => []TypeOK
  <1>1. LockInv => TypeOK
    BY DEF LockInv
  <1> QED
    BY <1>1, LockInvariant, PTL

\* Every request works with one version of the settings throughout.
THEOREM OneVersionPerRequest == Spec => []NoTornRequest
  <1>1. LockInv => NoTornRequest
    BY DEF LockInv
  <1> QED
    BY <1>1, LockInvariant, PTL

\* The defaults never reach a request, whichever build runs and however many requests
\* of a worker are the first.
THEOREM NoRequestBeforePreferences == Spec => []NeverDefaults
  <1>1. LockInv => NeverDefaults
    BY DEF LockInv
  <1> QED
    BY <1>1, LockInvariant, PTL

\* The settings of the native server change at most once, when main() loads them: a request can ask for
\* a reload but its own guard keeps the write from ever being done.
THEOREM OnlyMainWrites ==
  Spec => [][native /\ settings' # settings => pc[Main] = "write" /\ pc'[Main] = "done"]_vars
  <1>1. LockInv /\ [Next]_vars =>
          [native /\ settings' # settings => pc[Main] = "write" /\ pc'[Main] = "done"]_vars
    <2> SUFFICES ASSUME LockInv, Next, native, settings' # settings
                 PROVE  pc[Main] = "write" /\ pc'[Main] = "done"
      OBVIOUS
    <2>1. PICK r \in Tasks : Write(r)
      <3>1. \A r \in Tasks : ~Ensure(r) /\ ~Imported(r)
        BY WorkerLoads DEF Ensure, Imported
      <3> QED
        BY <3>1 DEF Next, Work, EditFile, Arrive, Read, RefreshRead, Load, Reread, NestedRead,
           Fetched, RulesetRead, Finish, Tasks
    <2>2. \A q \in Requests : pc[q] \in Idle
      BY <2>1, WriterWaits DEF Write
    <2>3. r = Main
      BY <2>1, <2>2 DEF Write, Tasks, Idle
    <2> QED
      BY <2>1, <2>3, LockAssumption DEF Write, Go, LockInv, TypeOK, Tasks
  <1> QED
    BY <1>1, LockInvariant, PTL DEF Spec
=============================================================================
