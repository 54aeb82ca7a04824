SPECIFICATION Spec
CONSTANTS
    HeapSize = 500
    LengthBits = 4
    SizeBits = 5
    Literals <- MCLiterals
    Keys <- MCKeys
    Capacities <- MCCapacities
    Ranges <- MCRanges
    MaxInt = 127
    HashSize = 3
    PackRoom = 8
    MaxCalls = 5
INVARIANTS
    StringsKeepTheirText
    BuffersHoldTheirText
    OneStringPerText
    ReadersSeeTheText
    ObjectsApart
CHECK_DEADLOCK FALSE
