SPECIFICATION Spec
CONSTANTS
    p1 = p1
    p2 = p2
    p3 = p3
    p4 = p4
    c1 = c1
    c2 = c2
    w1 = w1
    w2 = w2
    Absent = absent
    NoWorker = nobody
    Contents = {c1, c2}
    Workers = {w1, w2}
    Paths = {p1, p2, p3}
    BatchSize = 2
    Connections = 4
    Reoccupied = TRUE
INVARIANTS
    NeverWaitsForOwnBatch
SYMMETRY PathSymmetry
CHECK_DEADLOCK FALSE
