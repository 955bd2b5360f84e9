SPECIFICATION FairSpec
CONSTANTS
    N = 2
    Proc = {p1}
    None = None
    Other = Other
    \* The name of package 1 has a dot or a plus sign in it.
    BareKey = {2}
    Edits = TRUE
INVARIANTS EveryPackageAnswered BuiltMeansInstalled
PROPERTIES KeepsLedger EventuallyDone
