SPECIFICATION Spec
CONSTANTS
    Programs <- MCPrograms
    Exceptions = {"A", "B"}
    LocalVars = {"x", "y", "p"}
    PtrVars = {"p"}
INVARIANTS
    ExceptionsRouted
CHECK_DEADLOCK FALSE
