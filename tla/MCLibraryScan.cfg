SPECIFICATION MCSpec
CONSTANTS
    w1 = w1
    w2 = w2
    Workers = {w1, w2}
    NoWorker = none
    MaxRuns = 2
    MaxClaims = 3
    MaxVersion = 3
    MaxWritebacks = 1
    MaxDisturbances = 2
    MayStall = FALSE
INVARIANTS
    TypeOK
    RootStatusAgrees
    OneScannerUnlessStalled
    NoWritebackBesideScanUnlessStalled
    PathsAgree
PROPERTIES
    EndedScanIsFinal
SYMMETRY WorkerSymmetry
CHECK_DEADLOCK FALSE
