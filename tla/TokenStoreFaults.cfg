CONSTANTS
    Process = {p1, p2}
    Hash = {h1, h2, h3}
    Workload = {w1}
    Audience = {a1}
    GrantId = {g1}
    g1 = g1
    g2 = g2
    Amount = {0}
    Requested <- PlainGrants
    MayDelegate = {TRUE}
    Expiry = {1, 2}
    MaxTime = 1
    MaxDelegationDepth = 1
    MaxChildrenPerToken = 2
    MaxTokensPerRoot = 3
    MaxRecords = 3
    MaxGrantsPerToken = 1
    HeaderSize = 1
    RecordSize = 4
    RevokedAtSize = 2
    FixedHeadroom = 1
    PerRecordHeadroom = 2
    FileSizeLimit = 20
    MaxFaults = 2
    NoHash = NoHash
    NoProcess = NoProcess
    NoFile = NoFile
SYMMETRY Symmetry
SPECIFICATION Spec
INVARIANTS
    Reloadable
    LiveViewIsFile
    RevocationIsFinal
    IssuedSurvives
PROPERTY ClaimsNeverWiden
