SPECIFICATION MCSpec
CONSTANTS
    Parts = {"counter", "sndloss", "rcvloss", "ackwindow", "queue", "heap", "messages", "dropping"}
    MaxSeqNo = 15
    SeqNoTH = 7
    FirstSeqNo = 13
    FlowWindow = 3
    BufSize = 5
    LossLimit = 2
    DropsWrap = FALSE
    AckSize = 3
    MaxAckNo = 4
    DataAcks = {a, b}
    Sockets = {s1, s2, s3}
    MaxTime = 4
    Intervals = {0, 2}
    HeapSockets = {s1, s2, s3, s4}
    HeapTime = 3
    HeapIntervals = {0, 2}
INVARIANTS
    ComparesByDistance
    LengthAndJump
    ListsAndQueuesRight
    MessagesRight
PROPERTIES
    ImplementSetAndHistory
    QueueServes
CHECK_DEADLOCK FALSE
