SPECIFICATION RouterSpec
CONSTANTS
    Loads <- MCLoads
    Fields = {"title"}
    Values = {1, 2}
    Faults = FALSE
CHECK_DEADLOCK FALSE
INVARIANTS
    ChallengeOnce
    AuditMatchesLog
    OneAuditPerRoute
PROPERTIES
    RejectedLeavesRows
