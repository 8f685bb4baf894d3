SPECIFICATION Spec
CONSTANTS
    Loads <- MCLoads
    Fields = {"goal"}
    Values = {0, 1}
    Faults = TRUE
CHECK_DEADLOCK FALSE
INVARIANTS
    LogMatchesRows
    CommittedIsDurable
    WritesGrantedTarget
    ArchivedIsStamped
PROPERTIES
    ArchivedIsFinal
