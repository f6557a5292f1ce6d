SPECIFICATION FairSpec
CONSTANTS
    None = None
    NotFound = NotFound
    NoSource = NoSource
    Timeout = Timeout
    Failure = Failure
    k1 = k1
    k2 = k2
    u1 = u1
    u2 = u2
    Pulls = {r1, r2}
    Confs <- MCConfs
    Urls <- MCUrls
    UrlOf <- MCUrlOf
    FreshEnv = 1
    StaleEnv = 1
    TtlSlack = 1
    MinTtl = 1
    MaxTime = 1
\* Every pull is answered and the clock is at its bound: nothing is left to do.
CHECK_DEADLOCK FALSE
PROPERTY
    PullsAnswered
