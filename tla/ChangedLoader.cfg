CONSTANTS
    client = client
    api = api
    other = other
    Files = {client, api, other}
    Client = client
    CommitsDie = TRUE
    alex = alex
    steve = steve
    old = old
    new = new
    one = one
    two = two
    None = None
    Accounts = {alex, steve}
    Names = {old, new}
    Workers = {one, two}
    MaxTokens = 2
    Crashes = TRUE
    Bad = Bad
    Torn = Torn
    Default = Default
    theme = theme
    home = home
    Values = {Default, theme}
    Ids = {home, away}
    Tasks = {first, second}
    MaxTasks = 2
    MaxFaults = 1
    Absent = Absent
    g1 = g1
    g2 = g2
    v1 = v1
    v2 = v2
    n1 = n1
    n2 = n2
    row1 = row1
    row2 = row2
    PackOne = PackOne
    MaxCommands = 3
    Addresses = {u1, u2}
    Contents = {c1, c2}
    MaxRounds = 3
    MaxChanges = 1
    Malformed = Malformed
    Letters = {"a", "b"}
    Digests <- MCDigests
    Sizes = {0, 1, 2}
    MaxBytes = 3
    Limit = 2
    MaxRedirects = 2
    Capes = {cloak}
    whole = whole
    cut = cut
    MaxPresets = 2
    MaxLoads = 2
    MaxUpsets = 1

SPECIFICATION StateSpec

SYMMETRY Symmetry

INVARIANTS
    InstallsMatch
