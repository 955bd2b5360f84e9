SPECIFICATION MCSpec
CONSTANTS
    app = app
    lib = lib
    clang = clang
    None = None
    Bases <- MCBases
    Toolchain <- MCToolchain
    MembersOf <- MCMembersOf
    MaxV = 2
    MaxChanges = 2
    Member = {app, lib}
    Untracked = Untracked
    MaxVerbs = 5
    NoVersion = NoVersion
    MaxUpstream = 3
    MaxRounds = 4
    MaxSamples = 2
    Scripts <- MCScripts
    Widths = {3, 4}
    MaxChunk = 3
    Off = Off
    StepNames = {"a", "b"}
    Plans <- MCPlans
    MaxTime = 2
    MaxOpen = 3
    Subjects = {"updates", "tracking", "pgo", "screen", "progress"}
INVARIANTS
    UpdateSettles
    ReportIsTrue
    DecisionsSound
    OutputSound
    ProgressSound
PROPERTIES
    SamplesKept
