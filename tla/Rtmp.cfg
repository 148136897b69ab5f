SPECIFICATION MCSpec
CONSTANTS
    Parts = {"chunks", "amf", "session", "media", "flv"}
    Channels = {3, 4}
    Types = {"audio", "video"}
    StreamIds = {1}
    BodySizes = {1, 2}
    ChunkSizes = {1, 2}
    Stamps = {1, 5}
    TsSize = 8
    TsLimit = 3
    MaxPackets = 3
    MaxChanges = 1
    LongSize = 4
    Room = 50
    MaxOptions = 4
    LinkOptions = {"write", "playlist"}
    MaxInvokes = 6
    MaxConnects = 2
    MaxDepth = 3
    MaxWaits = 3
    MaxToggles = 2
    Sizes = {1, 3}
    MaxTagPackets = 3
    MaxSeeks = 1
    MAX_IGNORED_FRAMES = 1
INVARIANTS
    DataArrives
    ValuesArrive
    SessionRight
PROPERTY StreamGoesOn
CHECK_DEADLOCK FALSE
