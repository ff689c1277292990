CONSTANTS
    a = a
    N = 4
    Bytes = {a}
    None = None
    MaxLine = 2
    Formats = {f, g}
    RegCount = 2
    Bad = Bad
    Writable = {}
    HasCheck = FALSE
    Answer <- TwoBytes
    Exception <- OneByte
    MaxCount = 2
    Polite = TRUE
SPECIFICATION MLiveSpec
INVARIANT AllOrNothing
PROPERTIES ReconfiguresAfterAnswer ConfigApplied
