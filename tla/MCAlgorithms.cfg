SPECIFICATION Spec
CONSTANTS
    Absent = Absent
    Installed = {"lld", "bfd"}
    Llvm = "llvm-libs"
    Multilib = "multilib-devel"
    Refusal = Refusal
    NoFile = NoFile
    Unset = Unset
    Unpinned = Unpinned
    Unsaid = Unsaid
CHECK_DEADLOCK FALSE
INVARIANTS
    FlagsSound
    DriftSees
    SeedsMatchHost
    KconfigSound
    RecipesSound
    RepairKeeps
    NeedsComeFirst
    BatchSound
