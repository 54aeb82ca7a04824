CONSTANTS
    Methods <- MCMethods
    ClassAt <- MCClassAt
    Fields <- MCFields
    Statics <- MCStatics
    Mains <- MCMains
    InstanceSize <- MCInstanceSize
    Supers <- MCSupers
    Vtable <- MCVtable
    Objects <- MCObjects
    StaticValues <- MCStaticValues
    Candidates <- MCCandidates
    MaxSteps = 2
    MaxDepth = 2
SPECIFICATION Spec
INVARIANTS
    WordsAgree
    FlagsTell
CHECK_DEADLOCK FALSE
