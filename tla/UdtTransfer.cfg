SPECIFICATION MCSpec
CONSTANTS
    MaxSeqNo = 19
    SeqNoTH = 9
    Blocks = 4
    SndBufSize = 2
    SndRingSize = 3
    RcvBufSize = 3
    FirstSeqNo = 19
    InFlight = 2
    ExpLimit = 0
INVARIANT EachIsSound
PROPERTIES  ImplementsByteStream
CHECK_DEADLOCK FALSE
