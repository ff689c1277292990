CONSTANTS
    N = 4
    Bytes = {a, nl}
    Newline = nl
    None = None
    MaxLens = {1, 2, 4}
SPECIFICATION LiveSpec
INVARIANTS AvailableIsThere FitsBuffer
PROPERTIES ImplementsFifo Recovers
