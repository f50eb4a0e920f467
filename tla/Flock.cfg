SPECIFICATION Spec
CONSTANTS
    Procs = {p1, p2, p3}
    Inodes = {i1, i2}
    NoFile = NoFile
    Free = Free
    Rounds = 2
INVARIANTS
    IInv
    MutualExclusion
PROPERTIES
    NobodyWaitsForever
    ImplementsMutex
