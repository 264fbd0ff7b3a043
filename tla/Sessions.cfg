CONSTANTS
    Instances = {i1, i2}
    Bridged = {i1}
    Places = {menu, server}
    Menu = menu
    Unknown = Unknown
    None = None
    MaxGames = 2
    MaxReports = 2
    MaxSessions = 1
    MaxVisits = 2
    MaxUpsets = 1
    MaxFaults = 2

SPECIFICATION Spec

INVARIANTS
    SessionsHold
PROPERTIES
    ClosedOnce
CHECK_DEADLOCK FALSE
