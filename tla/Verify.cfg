SPECIFICATION Spec
CONSTANTS
    Procs = {p1, p2}
    Mortal = {}
    Invocations <- VerifyCommands
    Starts <- FromBoth
    StartFiles <- JustDisk
    Denied = {}
    Rewrites <- VerifyEdits
    Relinks <- NoEdits
    MaxEdits = 2
    MaxTime = 3
    wMix = wMix
    wVocals = wVocals
    wRun = wRun
    wNew = wNew
    Vs = Vs
    None = None
    NoProject = NoProject
    Free = Free
    Outside = Outside
    Absent = Absent
    Words <- MCWords
    Contents <- MCContents
    Names <- MCNames
    SizeOf <- MCSizeOf
    Paths <- MCPaths
    Absolute <- MCAbsolute
    BaseOf <- MCBaseOf
    StemNames <- MCStemNames
    Evidence <- MCEvidence
    Beside <- MCBeside
    FolderOf <- MCFolderOf
    StartLinks <- JustLinks
SYMMETRY Symmetry
INVARIANTS
    StatusWasReal
    PassingAssetsAreStamped
    SnapshotIsCurrent
PROPERTIES
    NoLostUpdate
    StampIsEarned
    ImplementsRegistry
