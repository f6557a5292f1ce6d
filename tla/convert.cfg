SPECIFICATION Spec
CONSTANTS
    None = None
    Failed = Failed
    x = x
    xEqY = xEqY
    xDashY = xDashY
    empty = empty
    direct = direct
    g1 = g1
    g2 = g2
    e1 = e1
    e2 = e2
    MinInt <- MCMinInt
    MaxInt = 7
    Bases <- MCBases
    NoEq <- MCNoEq
    DirectBase = direct
    Emojis = {e1, e2}
    Requests <- MCRequests
    Sources <- MCSources
    MaxU64 = 3
\* A conversion ends.
CHECK_DEADLOCK FALSE
INVARIANTS
    TypeOK
    SourcesInOrder
    NeverUnderReported
    UniqueNames
    GroupsWhole
    EmojiByRule
