SPECIFICATION FairSpec
CONSTANTS
    Classes = {"Object", "Class", "A", "B", "K", "M"}
    NoClass = "none"
    Super <- MCSuper
    Methods = {"newInstance", "missing", "A.clinit", "A.init", "A.f", "A.g", "A.s",
               "B.clinit", "B.init", "B.f", "K.f", "M.main"}
    NoMethod = "no method"
    Owner <- MCOwner
    Clinit <- MCClinit
    Natives = {"newInstance", "missing"}
    Bound = {"newInstance"}
    Slots = {1, 2, 3}
    Slot <- MCSlot
    Table <- MCTable
    Dispatch <- MCDispatch
    Programs <- MCPrograms
    Looping <- LoopingPrograms
    MainMethod = "M.main"
    MirrorClass = "Class"
    MaxDepth = 24
INVARIANTS
    FlagOnStack
    InitializedBeforeUse
    SlotsLeadToMethods
PROPERTIES
    ImplementsLifecycle
    Termination
CHECK_DEADLOCK FALSE
