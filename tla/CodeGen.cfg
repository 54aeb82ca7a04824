SPECIFICATION FairSpec
CONSTANTS
    Programs <- MCPrograms
    Slack = 100
    Growth = 8
    LengthLimit = 1024
    PrologSize = 14
    EpilogSize = 6
    JumpSize = 5
INVARIANTS
    RoomLeft
    DepthRight
    ExecutesProgram
PROPERTY
    TranslationEnds
CHECK_DEADLOCK FALSE
