SPECIFICATION MCSpec
CONSTANTS
    Llvm = Llvm
    Others = {spirv}
    libs = libs
    clang = clang
    MaxVersion = 3
    Major <- MCMajor
    MaxRuns = 3
    None = None
CHECK_DEADLOCK FALSE
INVARIANTS
    InstalledFits
    WholeOrRecorded
PROPERTIES
    EventuallyOptimized
