SPECIFICATION Spec
CONSTANTS
    Classes = {"Object", "K", "L", "A", "B"}
    NoClass = "none"
    NoMethod = "no method"
    Hierarchies <- MCHierarchies
    KlassSize = 96
INVARIANTS
    FieldsApart
    CallsArrive
    InterfacesComplete
    AssertionsHold
CHECK_DEADLOCK FALSE
