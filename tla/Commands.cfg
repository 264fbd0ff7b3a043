CONSTANTS
    None = None
    Broken = Broken
    Main = Main
    Instances = {i1}
    Workers = {w1, w2}
    Versions = {v1}
    Names = {n1}
    Preferences = {p1}
    Commands = {"create", "install", "retry", "update", "play", "delete", "transition", "crash"}
SPECIFICATION Spec
SYMMETRY Symmetry
INVARIANTS
    MutationExcludesGame
    StartingHasOneOwner
    NothingLeaks
    HoldersNeverWait
    RowOutlivesFiles
PROPERTIES
    ImplementsContract
    ReadyOnlyWhenComplete
