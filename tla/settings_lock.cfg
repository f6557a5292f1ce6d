SPECIFICATION FairSpec
CONSTANTS
    None = None
    r1 = r1
    r2 = r2
    r3 = r3
    main = main
    Main = main
    t1 = t1
    t2 = t2
    Requests = {r1, r2, r3}
    Threads = {t1, t2}
    ThreadOf <- MCThreadOf
    Contents = {plain, reload, imports, edited}
    Reloading = {reload}
    Importing = {imports, edited}
    WriterPreferred = TRUE
\* The server does stop: a reload blocks its own thread, and every request ends.
CHECK_DEADLOCK FALSE
INVARIANTS
    TypeOK
    NoTornRequest
    NeverDefaults
PROPERTY
    AnsweredWithoutReload
