SPECIFICATION MCSpec
CONSTANTS
    a = a
    a2 = a2
    b = b
    None = None
    Name = {a, a2, b}
    BaseOf <- MCBaseOf
    DepsOf <- MCDepsOf
    MaxVer = 2
    MaxBuilds = 2
    InRepo = {a}
    Staged = {a}
    Kills = TRUE
    Outside = TRUE
INVARIANTS
    EntryTellsInstalled
