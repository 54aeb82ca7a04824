SPECIFICATION Spec
CONSTANTS
    ClassNames = {"Object", "Class", "String", "A", "B", "K"}
    ArrayNames = {}
    PrimNames = {"I"}
    NoName = "NULL"
    EmptyName = ""
    ShortNames = {"K"}
    ObjectName = "Object"
    ClassName = "Class"
    ElemName <- MCElemName
    BaseName <- MCBaseName
    BootPrims <- IntOnly
    BootLoads <- StringOnly
    NDirs = 2
    Faulty = {1}
    Disks <- StartDisks
    MaxObjects = 20
    MaxDepth = 6
    MaxRequests = 2
INVARIANTS
    FailureLeavesNoTrace
    AnswersLoaded
    RejectedNeverPublished
    RunsSupported
PROPERTY
    ImplementsRegistry
CHECK_DEADLOCK FALSE
