SPECIFICATION Spec
CONSTANTS
    Programs <- MCPrograms
    Exceptions = {"A", "B"}
    LocalVars = {"x", "y", "p"}
    PtrVars = {"p"}
INVARIANTS
    
    TraceAgrees
    AssignedSound
CHECK_DEADLOCK FALSE
