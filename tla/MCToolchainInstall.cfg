SPECIFICATION Spec
CONSTANTS
    Llvm = Llvm
    Others = {spirv}
    libs = libs
    clang = clang
    MaxVersion = 2
    Major <- MCMajor
    MaxRuns = 3
    None = None
CHECK_DEADLOCK FALSE
INVARIANT
    InstallsFinished
