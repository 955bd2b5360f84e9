SPECIFICATION MCSpec
CHECK_DEADLOCK FALSE
CONSTANTS
    None = None
    Missing = Missing
    Compilers = {"gcc", "clang"}
    Keys = {"mem", "cpu"}
    Requests <- MCRequests
    MaxBuilds = 3
    Versions = {1, 2}
    MaxMade = 3
    Absent = Absent
    Origins <- MCOrigins
    Invocations <- MCInvocations
    MaxPushes = 1
    MaxRuns = 2
    Nothing = Nothing
    MaxWrites = 3
    nano = nano
    htop = htop
    NoEditor = NoEditor
    Editors = {nano, htop}
    Detected <- MCDetected
    Answers <- MCAnswers
    SystemFiles <- MCSystemFiles
    UserFiles <- MCUserFiles
    MaxStages = 1
    Graphics = {"gallium"}
    Others = {"tool"}
    Uses <- MCUses
    LibraryBuilds <- MCLibraryBuilds
    MaxVersion = 2
    MaxSteps = 3
    Members <- MCMembers
    Neighbours <- MCNeighbours
    Texts <- MCTexts
    MaxShipments = 3
    NoSidecar = NoSidecar
    NoVersion = NoVersion
    MaxLookups = 4
    Unasked = Unasked
    Subjects = {"archive"}
INVARIANTS
    SidecarIsOfThisBuild
