SPECIFICATION Spec
CONSTANTS
    Classes = {"Object", "K", "L", "A", "B", "M"}
    NoClass = "none"
    Sigs = {"x", "m", "k", "l", "hash"}
    Packages = {"p", "q", "unnamed"}
    Unnamed = "unnamed"
    Start = {"Object", "M"}
    Programs <- MCPrograms
INVARIANTS
    ReferencesRight
    CastsFollowHierarchy
PROPERTIES
    EntriesStable
    LegalReferencesLink
CHECK_DEADLOCK FALSE
