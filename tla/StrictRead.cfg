SPECIFICATION Spec
CONSTANTS
    NoProject = NoProject
    Sealed = Sealed
    Garbage = Garbage
    Starts <- FromComplete
    MaxEdits = 2
INVARIANTS
    TypeOK
    WrittenIsReadable
    SchemaValidIsRead
    OffShapeRefused
PROPERTIES
    NothingIsDropped
