SPECIFICATION FairSpec
CONSTANTS
    MaxSeqNo = 15
    SeqNoTH = 7
    Blocks = 3
    SndBufSize = 2
    SndRingSize = 3
    RcvBufSize = 3
    FirstSeqNo = 15
    InFlight = 1
    ExpLimit = 0
PROPERTY DataGoesThrough
CHECK_DEADLOCK FALSE
