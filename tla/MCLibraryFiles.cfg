SPECIFICATION MCSpec
CONSTANTS
    Absent = absent
    NoWorker = nobody
    Contents = {c1, c2}
    Workers = {w1, w2}
    Paths = {p1, p2, p3, p4}
    BatchSize = 2
    Connections = 3
    AudioPaths = {q1, q2, q3}
    MaxScans = 2
    MaxIds = 4
    MaxChanges = 4
    MaxFailures = 1
    Reoccupied = FALSE
INVARIANTS
    TypesOK
    NeverWaitsForOwnBatch
PROPERTIES
    SeenSourcesKept
    MovedFileKeepsTrack
SYMMETRY Symmetry
