CONSTANTS
    MsgLen <- Few
    MinFrame = 2
    FrameSize = 4
    Prompts = {FALSE, TRUE}
    CfgRequests = {FALSE, TRUE}
SPECIFICATION LiveSpec
INVARIANTS BusyCovers OneMessagePerFrame
PROPERTIES ReadyIsStable BusyEnds Delivered
CHECK_DEADLOCK FALSE
