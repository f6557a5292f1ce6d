SPECIFICATION Spec
CONSTANTS
    None = None
    Inline = Inline
    Loading = Loading
    Failed = Failed
    u1 = u1
    u2 = u2
    Requests = {r1, r2}
    Urls = {u1, u2}
    Lists <- MCLists
    MaxAge = 1
    MaxTime = 2
    MaxBack = 1
\* Every refresh ends and the clock is at its bound: nothing is left to do.
CHECK_DEADLOCK FALSE
INVARIANT
    InlineInPlace
