SPECIFICATION FairWalk
CONSTANTS
    Kinds = {"hidden", "dropped", "short", "long"}
    MaxId = 5
    Sent = 4
    Limit = 2
    ScanFactor = 2
    MaxBytes = 2
    MaxChanges = 1
CHECK_DEADLOCK FALSE
INVARIANTS AtMostOnce AllReturned
PROPERTIES WalkEnds
