SPECIFICATION Spec
CONSTANTS
    root = root
    narrow = narrow
    wide = wide
    leaf = leaf
    Scope <- Scopes
    Chain <- ChainOf
    ScopeLimits <- Limited
    ExpiresAt <- Expiries
    Size = {1, 2}
    Watched = {narrow}
    Scale = 2
    SweepInterval = 2
    MaxWord = 3
    MaxTime = 3
INVARIANTS
    ExactUse
    AncestorBoundsDescendants
    RateHolds
PROPERTY
    OnlyAdmissionsTakeCredit
