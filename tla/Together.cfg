SPECIFICATION TogetherSpec
CONSTANTS
    Procs = {p1, p2}
    Mortal = {p1}
    Invocations <- Anything
    Starts <- FromAny
    StartFiles <- OddDisks
    Denied <- MCDenied
    Rewrites <- Removals
    Relinks <- LinkMoves
    MaxEdits = 1
    MaxTime = 1
    wMix = wMix
    wVocals = wVocals
    wRun = wRun
    wNew = wNew
    Vs = Vs
    None = None
    NoProject = NoProject
    Free = Free
    Outside = Outside
    Absent = Absent
    Words <- MCWords
    Contents <- MCContents
    Names <- MCNames
    SizeOf <- MCSizeOf
    Paths <- MCPaths
    Absolute <- MCAbsolute
    BaseOf <- MCBaseOf
    StemNames <- MCStemNames
    Evidence <- MCEvidence
    Beside <- MCBeside
    FolderOf <- MCFolderOf
    StartLinks <- OddLinks
INVARIANTS
    TypeOK
    ManifestConsistent
    ReportedIsRecorded
PROPERTIES
    NoLostUpdate
    ImplementsRegistry
    EveryCommandEnds
