SPECIFICATION Spec
CONSTANTS
    Classes = {"Object", "K", "L", "A", "B"}
    NoClass = "none"
    NoMethod = "no method"
    Hierarchies <- MCHierarchies
    KlassSize = 96
INVARIANT
    AllInterfacesKept
CHECK_DEADLOCK FALSE
