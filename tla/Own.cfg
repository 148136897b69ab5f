SPECIFICATION MCSpec
CONSTANTS
    Parts = {"thread", "list", "handles", "sockets", "rpcs", "player", "text", "tree", "attributes"}
    MaxThreads = 3
    Lists = {1, 2}
    Nodes = {1, 2, 3, 4}
    Elem = {"a", "b"}
    Buckets = {1, 2, 3, 4, 5, 6}
    MaxBuckets = 4
    Jobs = {j1, j2}
    MaxHandles = 5
    MaxCalls = 3
    Buffers = 2
    MaxFrames = 4
    MaxSeeks = 2
    MaxKids = 2
    Node = {1, 2, 3, 4}
    AttributeNames = {"n", "m", "k"}
    Values = {"x", "y"}
    MaxAttributes = 3
INVARIANTS
    ObjectsOutlast
    LinksAreSound
    CallsEndTheirOwn
    XmlIsReadBack
PROPERTIES
    StepsAreTheirs
    PlaysOn
CHECK_DEADLOCK FALSE
