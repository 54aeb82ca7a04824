SPECIFICATION Spec
CONSTANTS
    Inputs <- MCInputs
    Str <- MCStr
    JncFields <- MCJncFields
    MaxLength = 60
    MaxRefs = 40
    Magic = 99
INVARIANTS
    ReadsBack
    CutsRefused
    AcceptedHolds
CHECK_DEADLOCK FALSE
