SPECIFICATION FairSpec
CONSTANTS
    w1 = w1
    w2 = w2
    Workers = {w1, w2}
    NoWorker = none
    MaxAttempts = 1
    MaxAttemptIds = 1
    MaxDisturbances = 0
    MaxEdits = 1
    MayStall = FALSE
PROPERTIES
    CancelEnds
CHECK_DEADLOCK FALSE
