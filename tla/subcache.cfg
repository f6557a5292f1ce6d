SPECIFICATION Spec
CONSTANTS
    None = None
    NotFound = NotFound
    NoSource = NoSource
    Timeout = Timeout
    Failure = Failure
    k1 = k1
    k2 = k2
    u1 = u1
    u2 = u2
    Pulls = {r1, r2}
    Confs <- MCConfs
    Urls <- MCUrls
    UrlOf <- MCUrlOf
    FreshEnv = 1
    StaleEnv = 2
    TtlSlack = 1
    MinTtl = 1
    MaxTime = 3
SYMMETRY PullSymmetry
\* Every pull is answered and the clock is at its bound: nothing is left to do.
CHECK_DEADLOCK FALSE
INVARIANTS
    TypeOK
    FreshEnough
    ReplyLogged
PROPERTY
    ImplementsPullService
