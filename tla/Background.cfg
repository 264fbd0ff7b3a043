CONSTANTS
    None = None
    p1 = p1
    p2 = p2
    Latest = 3
    Embedded = {1}
    Apis = {p1, p2}
    ApiOf <- MCApiOf
    Kinds = {"fault", "crash", "edit", "command", "publish", "game"}
    MaxUpsets = 2
    MaxUpdates = 2
    Servers = {s1}
    Failed = Failed
    MaxRefreshes = 3
    MaxTime = 4
    SuccessTTL = 2
    BackoffCap = 2
    Instances = {i1, i2}
    MaxPages = 2
    MaxChanges = 2
    MaxClicks = 2

SPECIFICATION Background

SYMMETRY Interchangeable

CHECK_DEADLOCK FALSE

INVARIANTS
    ClientHolds
    ServicesHold
    ApprovedOnly
PROPERTIES
    UpdateIsExact
    KnownGoodKept
