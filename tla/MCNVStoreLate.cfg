SPECIFICATION LiveSpec
CONSTANTS
    Slots = 2
    HalfSeq = 5
    Values = {v1, v2}
    NoVal = NoVal
    LateFaults = {"tail", "lock"}
INVARIANTS
    LastIsValid
PROPERTIES
    AtMostOneAhead
    RecordSurvives
    InitTakesNewest
    SavesKeepSucceeding
