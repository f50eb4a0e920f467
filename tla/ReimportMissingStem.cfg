SPECIFICATION Spec
CONSTANTS
    Procs = {p1}
    Mortal = {}
    Invocations <- ImportCommands
    Starts <- FromImported
    StartFiles <- NoStems
    Denied = {}
    Rewrites <- NoEdits
    Relinks <- NoEdits
    MaxEdits = 0
    MaxTime = 1
    wMix = wMix
    wVocals = wVocals
    wRun = wRun
    wNew = wNew
    Vs = Vs
    None = None
    NoProject = NoProject
    Free = Free
    Outside = Outside
    Absent = Absent
    Words <- MCWords
    Contents <- MCContents
    Names <- MCNames
    SizeOf <- MCSizeOf
    Paths <- MCPaths
    Absolute <- MCAbsolute
    BaseOf <- MCBaseOf
    StemNames <- MCStemNames
    Evidence <- MCEvidence
    Beside <- MCBeside
    FolderOf <- MCFolderOf
    StartLinks <- JustLinks
INVARIANTS
    RecordedJobIsNoOp
