SPECIFICATION MCSpec
CONSTANTS
    Parts = {"callers", "single"}
    w1 = w1
    w2 = w2
    c1 = c1
    c2 = c2
    j1 = j1
    j2 = j2
    j3 = j3
    u1 = u1
    u2 = u2
    d1 = d1
    k1 = k1
    k2 = k2
    NoJob = NoJob
    NoWorker = NoWorker
    Workers = {w1, w2}
    Callers = {c1, c2}
    SyncAllers = {c1, c2}
    Jobs = {j1, j2, j3}
    DelJobs = {j3}
    MaxRuns = 2
SYMMETRY Symmetry
INVARIANTS
    OneOwner
    SyncIsRight
    NothingFreedIsUsed
PROPERTIES
    SyncAllMeansQuiet
    KeepsPromise
    EverythingEnds
CHECK_DEADLOCK FALSE
