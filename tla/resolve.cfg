SPECIFICATION Spec
CONSTANTS
    None = None
    Aliases = {a}
    Profiles = {p1}
    Templates = {t1, t2}
    Sources = {s1, s2}
    Payloads = {on, off}
    EnabledPayloads = {on}
SYMMETRY Symmetry
INVARIANTS
    QuietResolve
    OnlyLiveEntities
    SteadyChainResolves
