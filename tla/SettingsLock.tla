---------------------------- MODULE SettingsLock ----------------------------
(***************************************************************************)
(* The global settings: an RwLock read by every request of GET /sub and    *)
(* replaced by refresh_configuration.  In the native server requests are   *)
(* async tasks of the actix worker threads: a task runs alone on its       *)
(* thread from one await to the next, and a lock that is not free blocks   *)
(* the thread, not the task, so the other requests of that thread wait     *)
(* too.                                                                    *)
(*                                                                         *)
(* The converter worker is the same library built for wasm: one thread, a  *)
(* lock that keeps nobody out, and no main(): the first requests put the   *)
(* preferences of the deployment into place.                               *)
(*                                                                         *)
(* sub_process keeps its read guard from its first line to its last;       *)
(* subconverter and refresh_rulesets take further ones on top.             *)
(***************************************************************************)
EXTENDS Naturals, FiniteSets

CONSTANTS
    Requests, Threads, ThreadOf,
    Main,              \* the task of main(), which loads the file before it serves
    Contents,          \* contents of the preference file
    Reloading,         \* those with reload_conf_on_request, neither api_mode
                       \* nor generator_mode
    Importing,         \* those whose rules are imported from elsewhere
    WriterPreferred,   \* a waiting writer holds new readers back
    None

Tasks == Requests \cup {Main}

ASSUME LockAssumption ==
    /\ ThreadOf \in [Tasks -> Threads]
    /\ Main \notin Requests
    /\ Reloading \subseteq Contents /\ Importing \subseteq Contents
    /\ WriterPreferred \in BOOLEAN
    /\ None \notin Contents

VARIABLES
    native,     \* which build runs
    ready,      \* PREF_READY of the worker
    settings,   \* *GLOBAL: None stands for the defaults it starts with
    file,       \* the preference file, which its owner may edit; of the worker the
                \* preferences with what they import at this time
    pc,         \* the step of each task
    guards,     \* how many read guards each task holds
    loaded,     \* the settings a refresh has read from the file
    first       \* the settings behind the guard sub_process works with

vars == <<native, ready, settings, file, pc, guards, loaded, first>>

\* The steps at which a task holds its thread: all of them take the lock.
Running == {"ensure", "read", "refreshRead", "write", "reread", "nestedRead", "rulesetRead"}
Steps == Running \cup {"new", "import", "load", "fetch", "rules", "done", "exit"}

\* r's thread is r's to run on.
HasThread(r) ==
    \A q \in Tasks \ {r} :
        ThreadOf[q] = ThreadOf[r] \/ ~native => pc[q] \notin Running

NoReader == \A q \in Tasks : guards[q] = 0
CanRead == WriterPreferred => \A q \in Tasks : pc[q] # "write"

Init ==
    /\ native \in BOOLEAN /\ ready = FALSE
    /\ settings = None
    /\ file \in Contents
    /\ pc = [r \in Tasks |-> IF r # Main THEN "new" ELSE IF native THEN "load" ELSE "exit"]
    /\ guards = [r \in Tasks |-> 0]
    /\ loaded = [r \in Tasks |-> None]
    /\ first = [r \in Tasks |-> None]

Go(r, step) == pc' = [pc EXCEPT ![r] = step]
TakeGuard(r) == guards' = [guards EXCEPT ![r] = @ + 1]

\* The preferences of the worker are a variable of its deployment: only what they
\* import may change.
EditFile ==
    /\ \E c \in Contents :
          /\ native \/ (file \in Importing /\ c \in Importing)
          /\ file' = c
    /\ UNCHANGED <<native, ready, settings, pc, guards, loaded, first>>

\* The server listens once main() has its settings.
Arrive(r) ==
    /\ native => pc[Main] = "done"
    /\ pc[r] = "new" /\ HasThread(r)
    /\ Go(r, IF native THEN "read" ELSE "ensure")
    /\ UNCHANGED <<native, ready, settings, file, guards, loaded, first>>

-----------------------------------------------------------------------------
(* ensure_pref_loaded of the worker.                                       *)

\* update_settings_from_content, current_mut and PREF_READY follow each other with
\* no await between; a load that fails is answered with 500 and tried again by the
\* next request.
PutPrefs(r) ==
    /\ \/ settings' = file /\ ready' = TRUE /\ Go(r, "read")
       \/ UNCHANGED <<settings, ready>> /\ Go(r, "done")
    /\ UNCHANGED <<native, file, guards, loaded, first>>

\* Mutant: the flag is set before the preferences have been loaded.
Ensure_FlagFirst(r) ==
    /\ pc[r] = "ensure"
    /\ IF ready
       THEN Go(r, "read") /\ UNCHANGED <<native, ready, settings, file, guards, loaded, first>>
       ELSE Go(r, "import") /\ ready' = TRUE
            /\ UNCHANGED <<native, settings, file, guards, loaded, first>>

\* Only an import makes the load wait.
Ensure(r) ==
    /\ pc[r] = "ensure"
    /\ IF ready \/ file \in Importing
       THEN /\ Go(r, IF ready THEN "read" ELSE "import")
            /\ UNCHANGED <<native, ready, settings, file, guards, loaded, first>>
       ELSE PutPrefs(r)

Imported(r) == pc[r] = "import" /\ HasThread(r) /\ PutPrefs(r)

-----------------------------------------------------------------------------
(* sub_process.                                                            *)

\* The worker clears reload_conf_on_request.
Reloads == native /\ settings \in Reloading

\* Mutant: the guard is dropped once the flags have been read.
Read_NotKept(r) ==
    /\ pc[r] = "read" /\ CanRead
    /\ first' = [first EXCEPT ![r] = settings]
    /\ Go(r, IF Reloads THEN "refreshRead" ELSE "nestedRead")
    /\ UNCHANGED <<native, ready, settings, file, guards, loaded>>

\* Mutant: reload_conf_on_request is obeyed by every request.
Read_AlwaysReload(r) ==
    /\ pc[r] = "read" /\ CanRead
    /\ TakeGuard(r)
    /\ first' = [first EXCEPT ![r] = settings]
    /\ Go(r, "refreshRead")
    /\ UNCHANGED <<native, ready, settings, file, loaded>>

\* sub_process: the first guard, and the decision to reload.
Read(r) ==
    /\ pc[r] = "read" /\ CanRead
    /\ TakeGuard(r)
    /\ first' = [first EXCEPT ![r] = settings]
    /\ Go(r, IF Reloads THEN "refreshRead" ELSE "nestedRead")
    /\ UNCHANGED <<native, ready, settings, file, loaded>>

\* refresh_configuration: its own guard is dropped again after the path is copied.
RefreshRead(r) ==
    /\ pc[r] = "refreshRead" /\ CanRead
    /\ Go(r, "load")
    /\ UNCHANGED <<native, ready, settings, file, guards, loaded, first>>

\* The file has been loaded.  When that fails a refresh keeps the settings there
\* are, and main() exits.
Load(r) ==
    /\ pc[r] = "load" /\ HasThread(r)
    /\ \/ loaded' = [loaded EXCEPT ![r] = file] /\ Go(r, "write")
       \/ UNCHANGED loaded /\ Go(r, IF r = Main THEN "exit" ELSE "reread")
    /\ UNCHANGED <<native, ready, settings, file, guards, first>>

\* *GLOBAL.write() = new: waits until no guard is held, by anyone.
Write(r) ==
    /\ pc[r] = "write" /\ NoReader
    /\ settings' = loaded[r]
    /\ loaded' = [loaded EXCEPT ![r] = None]
    /\ Go(r, IF r = Main THEN "done" ELSE "reread")
    /\ UNCHANGED <<native, ready, file, guards, first>>

\* global = Settings::current(): the new guard is taken, then the old one dropped.
Reread(r) ==
    /\ pc[r] = "reread" /\ CanRead
    /\ first' = [first EXCEPT ![r] = settings]
    /\ Go(r, "nestedRead")
    /\ UNCHANGED <<native, ready, settings, file, guards, loaded>>

\* subconverter takes its guard and fetches the subscriptions.
NestedRead(r) ==
    /\ pc[r] = "nestedRead" /\ CanRead
    /\ TakeGuard(r)
    /\ Go(r, "fetch")
    /\ UNCHANGED <<native, ready, settings, file, loaded, first>>

Fetched(r) ==
    /\ pc[r] = "fetch" /\ HasThread(r)
    /\ Go(r, "rulesetRead")
    /\ UNCHANGED <<native, ready, settings, file, guards, loaded, first>>

\* refresh_rulesets takes a third one and keeps it while it fetches the rulesets.
RulesetRead(r) ==
    /\ pc[r] = "rulesetRead" /\ CanRead
    /\ TakeGuard(r)
    /\ Go(r, "rules")
    /\ UNCHANGED <<native, ready, settings, file, loaded, first>>

\* Mutant: the guard of refresh_rulesets outlives the request.
Finish_Leaks(r) ==
    /\ pc[r] = "rules" /\ HasThread(r)
    /\ guards' = [guards EXCEPT ![r] = @ - 2]
    /\ Go(r, "done")
    /\ UNCHANGED <<native, ready, settings, file, loaded, first>>

\* The answer is built and every guard dropped.
Finish(r) ==
    /\ pc[r] = "rules" /\ HasThread(r)
    /\ guards' = [guards EXCEPT ![r] = 0]
    /\ Go(r, "done")
    /\ UNCHANGED <<native, ready, settings, file, loaded, first>>

Work(r) ==
    Ensure(r) \/ Imported(r) \/ Read(r) \/ RefreshRead(r) \/ Load(r) \/ Write(r) \/ Reread(r) \/ NestedRead(r)
        \/ Fetched(r) \/ RulesetRead(r) \/ Finish(r)

Next == EditFile \/ (\E r \in Requests : Arrive(r)) \/ (\E r \in Tasks : Work(r))

Spec == Init /\ [][Next]_vars

\* Every thread runs its tasks, and fetches of the native server end: its HTTP client
\* has a timeout.  The worker's has none.
FairSpec == Spec /\ \A r \in Tasks : WF_vars(native /\ Work(r))

-----------------------------------------------------------------------------
(* Properties.                                                             *)

\* Type invariant: guards are dropped as they were taken, all of them by the end.
TypeOK ==
    /\ native \in BOOLEAN /\ ready \in BOOLEAN
    /\ settings \in {None} \cup Contents
    /\ file \in Contents
    /\ pc \in [Tasks -> Steps]
    /\ guards \in [Tasks -> 0 .. 3]
    /\ loaded \in [Tasks -> {None} \cup Contents]
    /\ first \in [Tasks -> {None} \cup Contents]
    /\ \A r \in Tasks : pc[r] \in {"new", "ensure", "import", "read", "done"} => guards[r] = 0

\* A request works with one version of the settings from its first look to its
\* last, however often it asks for the current ones and whoever reloads the file
\* meanwhile: its guard keeps every writer out, and in the worker nobody writes again,
\* unless its preferences import something.
NoTornRequest ==
    native \/ file \notin Importing =>
        \A r \in Requests :
            pc[r] \in {"nestedRead", "fetch", "rulesetRead", "rules"} => settings = first[r]

\* No request works with the defaults the program starts with, in either build,
\* however many requests are the first and whichever of their loads fails.
NeverDefaults ==
    \A r \in Requests :
        pc[r] \in {"read", "nestedRead", "fetch", "rulesetRead", "rules"} => settings # None

\* Without reload_conf_on_request every request of the native server is answered, on
\* any number of threads and with any number of nested guards.
AnsweredWithoutReload ==
    [](native /\ settings \notin Reloading) => \A r \in Requests : pc[r] = "read" ~> pc[r] = "done"

\* "Release the lock before potential long operation": what refresh_configuration
\* says of the step that loads the file.
ReleasedBeforeLoad == \A r \in Requests : pc[r] = "load" => guards[r] = 0
=============================================================================
