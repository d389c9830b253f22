CONSTANTS
    Process = {p1}
    Hash = {h1, h2, h3, h4}
    Workload = {w1}
    Audience = {a1}
    GrantId = {g1, g2}
    g1 = g1
    g2 = g2
    Amount = {0, 1, 2}
    Requested <- VariedGrants
    MayDelegate = {TRUE}
    Expiry = {1, 2}
    MaxTime = 0
    MaxDelegationDepth = 2
    MaxChildrenPerToken = 2
    MaxTokensPerRoot = 3
    MaxRecords = 4
    MaxGrantsPerToken = 2
    HeaderSize = 1
    RecordSize = 4
    RevokedAtSize = 2
    FixedHeadroom = 1
    PerRecordHeadroom = 2
    FileSizeLimit = 20
    MaxFaults = 0
    NoHash = NoHash
    NoProcess = NoProcess
    NoFile = NoFile
SYMMETRY HashSymmetry
SPECIFICATION Spec
INVARIANTS
    NarrowerThanAncestors
    RevocationAlwaysFits
