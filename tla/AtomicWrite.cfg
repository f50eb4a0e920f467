SPECIFICATION Spec
CONSTANTS
    Readers = {r1, r2}
    Pieces = 2
    MaxWrites = 3
INVARIANTS
    TypeOK
    NeverTruncated
    ReadsAreWhole
    ErrorMeansUnwritten
