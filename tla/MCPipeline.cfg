SPECIFICATION FairSpec
CONSTANTS
    N = 3
    Proc = {p1}
    Stateless = {2}
    Makepkg = {3}
    Boundary = 2
    Resulting = {3}
    Invocations <- EveryMode
    SaveMayFail = FALSE
INVARIANTS DoneMeansCompleted
PROPERTIES EventuallyDone
