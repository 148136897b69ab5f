SPECIFICATION MCSpec
CONSTANTS
    t1 = t1
    t2 = t2
    t3 = t3
    k1 = k1
    v1 = v1
    v2 = v2
    Keys = {k1}
    Values = {v1, v2}
    Verified = {v1, v2}
    Hash <- HashIsKey
    Hashables = {FALSE, TRUE}
    RefreshAge = 1
    Half = 8
    StartClock = 1
    MaxClock = 3
    Threads = {t1, t2, t3}
    RpcThreads = {t1, t2}
    Removers = {t3}
    Ttls = {0, 1, 2}
    DelReqs = {"none", "req"}
INVARIANTS
    ServiceTypeOK
    HashedValueAlone
PROPERTIES
    NoRevival
    AnswersTrue
