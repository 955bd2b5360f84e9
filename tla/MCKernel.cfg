SPECIFICATION MCSpec
CHECK_DEADLOCK FALSE
CONSTANTS
    Plain = Plain
    Role = Role
    Stock = Stock
    None = None
    own = own
    own2 = own2
    OwnNames = {own, own2}
    Prefixes = {"", "p"}
    Initrds = {"own"}
    Overlap = FALSE
    MaxVersion = 2
    MaxRelease = 2
    MaxRuns = 3
    MaxEdits = 3
    Requests <- MCRequests
    VersionKnown = TRUE
    MaxKernels = 3
    MaxChanges = 1
    Unset = Unset
    MaxPlain = 1
INVARIANTS
    ProfilesFit
PROPERTIES
    EntryKept
    DoneMeansBootable
