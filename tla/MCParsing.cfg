SPECIFICATION Spec
CONSTANTS
    Units <- MCUnits
    Insertable <- MCInsertable
INVARIANTS  NothingDropped ErrorNotEarly
CHECK_DEADLOCK FALSE
