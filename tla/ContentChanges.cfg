CONSTANTS
    None = None
    mod = mod
    lib = lib
    pack = pack
    Projects = {mod, lib, pack}
    Mods = {mod, lib}
    Renamed = {lib, pack}
    MaxCommands = 2
    Catalogues <- MCCatalogues
    Kinds = {"edit", "fault", "crash"}
    Upsets = 1
SPECIFICATION Spec
INVARIANTS
    ContentHolds
PROPERTIES
    AllOrNothing
    UserChoicesStay
CHECK_DEADLOCK FALSE
