SPECIFICATION Spec
CONSTANTS
    Programs <- MCPrograms
    Slack = 100
    Growth = 8
    LengthLimit = 1024
    PrologSize = 14
    EpilogSize = 6
    JumpSize = 5
INVARIANT WrittenInBuffer
CHECK_DEADLOCK FALSE
