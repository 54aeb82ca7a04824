SPECIFICATION Spec
CONSTANTS
    ClassNames = {"Object", "Class", "A", "B", "K"}
    ArrayNames = {"[A"}
    PrimNames = {"I", "J", "V"}
    NoName = "NULL"
    EmptyName = ""
    ShortNames = {"K"}
    ObjectName = "Object"
    ClassName = "Class"
    ElemName <- MCElemName
    BaseName <- MCBaseName
    BootPrims <- MCBootPrims
    BootLoads <- NoBootLoads
    NDirs = 1
    Faulty = {}
    Disks <- CyclicDisks
    MaxObjects = 20
    MaxDepth = 6
    MaxRequests = 1
INVARIANT CyclesAreRefused
CHECK_DEADLOCK FALSE
