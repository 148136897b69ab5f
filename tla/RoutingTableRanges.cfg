SPECIFICATION MCSpec
CONSTANTS
    Parts = {"splits"}
    K = 3
    Distance <- XorOf
    HighBit = 32
    StrayBits = {0}
    Ids = {2, 3, 6, 9, 15, 23}
    Keys = {6, 15}
    Holder = 5
    MaxId = 22
    MinIds = {2}
    Now = 9
    RefreshTime = 2
    Word = 16
    NoId = NoId
    FewIds = {3, 12, 13, 14}
    MaxBuckets = 5
    LookupIds = {3, 4, 6, 9, 13, 15}
    LookupKeys = {4, 15}
    LookupHolder = 5
    UnitBits = 4
    NibbleBits = 2
    DecDigits = 2
    Operands = {0, 1, 3, 16, 47, 256, 999}
    WordValues = {0, 1, 3}
    KMaxDigits = 4
    MaxNumber = 1200
INVARIANT RangesDisjoint
CHECK_DEADLOCK FALSE
