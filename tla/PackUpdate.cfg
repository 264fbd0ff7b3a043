CONSTANTS
    None = None
    Paths = {p1, p2}
    Components = {p1, p2}
    Library = {p1, p2}
    Kinds = {"edit", "fault", "crash"}
    Upsets = 2
SPECIFICATION Spec
SYMMETRY Symmetry
INVARIANTS
    UserBytesSurvive
    UpdateIsWhole
CHECK_DEADLOCK FALSE
