SPECIFICATION Spec
CONSTANTS
    Slots = 2
    HalfSeq = 5
    Values = {v1, v2}
    NoVal = NoVal
    LateFaults = {}
INVARIANTS
    AckedIsDurable
    IndInv
PROPERTIES
    ImplementsRegister
SYMMETRY SymmetricValues
