SPECIFICATION Spec
CONSTANTS
    None = None
    Clients = {c1, c2}
    Aliases = {a1, a2}
    Profiles = {p1, p2}
    Templates = {t1}
    Sources = {s1, s2}
    Payloads = {x}
    DefaultPayload = x
SYMMETRY Symmetry
CONSTRAINT OneSide
INVARIANTS
    TypeOK
    StableLinkBlocksDelete
    SerialIntegrity
PROPERTY
    ImplementsRefStore
