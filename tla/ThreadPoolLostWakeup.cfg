SPECIFICATION CallersSpec
CONSTANTS
    Parts = {"callers"}
    w1 = w1
    w2 = w2
    c1 = c1
    c2 = c2
    j1 = j1
    j2 = j2
    j3 = j3
    u1 = u1
    u2 = u2
    d1 = d1
    k1 = k1
    k2 = k2
    NoJob = NoJob
    NoWorker = NoWorker
    Workers = {w1}
    Callers = {c1, c2}
    SyncAllers = {c2}
    Jobs = {j1, j2}
    DelJobs = {}
    MaxRuns = 2
PROPERTIES
    GetIdleReturns
CHECK_DEADLOCK FALSE
