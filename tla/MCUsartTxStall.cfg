CONSTANTS
    N = 4
    Bytes = {a}
    None = None
    MaxLine = 4
    Formats = {f}
SPECIFICATION Spec
INVARIANT NoStall
