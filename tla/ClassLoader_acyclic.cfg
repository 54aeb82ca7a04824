SPECIFICATION FairSpec
CONSTANTS
    ClassNames = {"Object", "Class", "A", "B", "K", ""}
    ArrayNames = {"[A", "[[A", "[J", "[K"}
    PrimNames = {"I", "J", "V"}
    NoName = "NULL"
    EmptyName = ""
    ShortNames = {"K"}
    ObjectName = "Object"
    ClassName = "Class"
    ElemName <- MCElemName
    BaseName <- MCBaseName
    BootPrims <- MCBootPrims
    BootLoads <- MCBootLoads
    NDirs = 1
    Faulty = {}
    Disks <- AcyclicDisks
    MaxObjects = 20
    MaxDepth = 6
    MaxRequests = 2
INVARIANTS
    PublishedLinked
    NothingPointsToOriginal
    SupersPreparedFirst
    FailureLeavesNoTrace
    OnlyRejectedRefused
PROPERTIES
    BindingsStable
    EveryRequestAnswered
CHECK_DEADLOCK FALSE
