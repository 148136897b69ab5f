SPECIFICATION Spec
CONSTANTS
    Threads = {t1, t2}
    Removers = {t1}
    Keys = {k1}
    Values = {v1, v2}
    Ttls <- ShortTtls
    Hashables = {FALSE}
    DelReqs = {"none", "req"}
    RefreshAge = 1
    Half = 8
    StartClock = 1
    MaxClock = 4
INVARIANTS
    DeleteItemSafe
    LeaseRuns
PROPERTIES
    NoReplay
    LeasesKept
    MaintenanceInvisible
CHECK_DEADLOCK FALSE
