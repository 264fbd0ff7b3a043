CONSTANTS
    None = None
    mod = mod
    lib = lib
    pack = pack
    Projects = {mod, lib, pack}
    Mods = {mod, lib}
    Renamed = {lib, pack}
    MaxCommands = 2
    Catalogues <- MCCatalogues
    Kinds = {"edit", "fault", "crash"}
    Upsets = 0
SPECIFICATION Spec
INVARIANT RootsReplaceThemselves
CHECK_DEADLOCK FALSE
