SPECIFICATION MCSpec
CONSTANTS
    w1 = w1
    w2 = w2
    Workers = {w1, w2}
    NoWorker = none
    MaxAttempts = 2
    MaxAttemptIds = 3
    MaxDisturbances = 2
    MaxEdits = 1
    MayStall = FALSE
SYMMETRY WorkerSymmetry
INVARIANTS
    TypeOK
    ContentsAgreeUnlessStalled
    RollbackKeptUnlessStalled
    SwapExclusiveUnlessStalled
    CatalogFollowsJob
PROPERTIES
    ImplementsContract
CHECK_DEADLOCK FALSE
