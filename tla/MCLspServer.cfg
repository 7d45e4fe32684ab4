SPECIFICATION Spec
CONSTANTS
    Files = {"A", "B"}
    Stdlib <- MCStdlib
    Texts <- MCTexts
    Saved <- MCSaved
    Key = "B::P"
    Edited = {"A"}
    Restored <- MCRestored
    Requests = {"local", "rename", "references", "workspaceSymbol", "incomingCalls", "outgoingCalls", "reindex"}
    Debounces <- MCDebounces
    MaxEdits = 3
    MaxRequests = 1
    MaxOther = 1
    MaxTotal = 3
INVARIANTS AnswersFresh ClosedIsQuiet
PROPERTIES EveryRequestAnswered DiagnosticsConverge ReindexReflects
CHECK_DEADLOCK FALSE
