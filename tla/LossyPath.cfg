SPECIFICATION Spec
CONSTANTS
    MaxAssets = 3
    MaxFollows = 4
    None = None
    NoProject = NoProject
    Chars <- MCChars
    Alnum <- MCAlnum
    LowerOf <- MCLowerOf
    Tree <- MCTree
    Root <- MCRoot
    LossyOf <- MCLossyOf
    StemOf <- MCStemOf
    NameOf <- MCNameOf
    Args <- MCArgs
    AskedIds <- MCAskedIds
    Jobs <- MCJobs
INVARIANTS
    EveryPathResolves
