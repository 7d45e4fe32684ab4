SPECIFICATION Spec
CONSTANTS
    Picks <- MCPicks
    ProgramOf <- MCProgramOf
INVARIANTS TypesDenote ErrorsExact EditorAgrees StorageAgrees PlacesDenote
CHECK_DEADLOCK FALSE
