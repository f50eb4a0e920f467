SPECIFICATION Spec
CONSTANTS
    NoProject = NoProject
    Sealed = Sealed
    Garbage = Garbage
    Starts <- FromComplete
    MaxEdits = 1
PROPERTIES
    ExtIsVerbatim
