CONSTANTS
    None = None
    v1 = v1
    v2 = v2
    Versions = {v1, v2}
    Size = 4
    Concurrency = 2
    Crashes = TRUE
    Refused = Refused
    Malformed = Malformed
    NoOp = NoOp
    Generated = Generated
    Altered = Altered
    Empty = Empty
    Own = Own
    MaxPlans = 2
    MaxUpsets = 1
    Unsafe = Unsafe
    MaxManifest = 2
    MaxUpdates = 2
    Quote = "q"
    Slash = "s"
    Blank = " "
    Control = "c"
    Heap = "h"
    Jar = "j"
    MaxText = 24
    MaxArgument = 4
    MaxArguments = 2
    TextLength = 5
    Java = 21
    MaxDepth = 2
    MaxCount = 3
    MaxBytes = 3
    MaxMixins = 2
    Second = 2
    DaySeconds = 2
    Week = 2
    Month = 3
    Longest = 12
    MaxSessions = 2
    MaxVisits = 2
    MaxDays = 7
    MaxRecent = 2

SPECIFICATION GameSpec

CHECK_DEADLOCK FALSE

INVARIANTS
    GameIsWholeOrAbsent
    ClasspathInOrder
    LaunchedAsPublished
    InstallationPlays
    PackWholeOrAbsent
PROPERTIES
    FailureDestroysNothing
    AttemptsEnd
    UserBytesSurvive
