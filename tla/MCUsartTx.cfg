CONSTANTS
    N = 3
    Bytes = {a, b}
    None = None
    MaxLine = 2
    Formats = {f}
SPECIFICATION LiveSpec
INVARIANT NoStall
PROPERTIES ImplementsFifo CompleteMeansSent BytesLeave
