CONSTANTS
    a = a
    N = 4
    Bytes = {a}
    None = None
    MaxLine = 2
    Formats = {f, g}
    RegCount = 2
    Bad = Bad
    Writable = {0}
    HasCheck = TRUE
    Answer <- TwoBytes
    Exception <- OneByte
    MaxCount = 2
    Polite = TRUE
SPECIFICATION MSpec
PROPERTY ReadOnlyKept
