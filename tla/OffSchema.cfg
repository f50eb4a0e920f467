SPECIFICATION Spec
CONSTANTS
    NoProject = NoProject
    Sealed = Sealed
    Garbage = Garbage
    Starts <- FromNothing
    MaxEdits = 0
INVARIANTS
    EmitsSchemaValid
