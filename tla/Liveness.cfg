CONSTANTS
    None = None
    Broken = Broken
    Main = Main
    Instances = {i1}
    Workers = {w1, w2}
    Versions = {v1}
    Names = {n1}
    Preferences = {p1}
    Commands = {"pack", "rename", "play", "delete", "transition", "select", "preferences"}
SPECIFICATION FairSpec
PROPERTIES
    CommandsReturn
