CONSTANTS
    None = None
    f1 = f1
    f2 = f2
    r1 = r1
    r2 = r2
    w1 = w1
    w2 = w2
    Files = {f1, f2}
    Hinted = {f2}
    Workers = {w1, w2}
    Kinds = {"fault", "spoil", "crash"}
    MaxUpsets = 2
    Runtimes = {r1, r2}
    Plan <- MCPlan
    Calls = 2
SPECIFICATION Spec
SYMMETRY Symmetry
INVARIANTS
    RuntimesHold
PROPERTIES
    ForeignTreesStay
CHECK_DEADLOCK FALSE
