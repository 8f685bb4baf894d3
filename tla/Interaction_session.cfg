SPECIFICATION FairSpec
CONSTANTS
    DailyLimit = 3
    Window = 3
    MaxPerWindow = 2
    Cooldown = 1
    FirstThreshold = 70
    Enabled = TRUE
    MinThreshold = 65
    MaxThreshold = 75
    StepSize = 5
    OverloadThreshold = 8
    DeviationThreshold = 60
    Days = {d1, d2}
    MaxEvaluations = 5
    MaxOutcomes = 1
    Loads <- MCLoads
    Contexts <- MCContexts
INVARIANTS
    GuardRails
    IdentityEnforced
    ToldWhatHappened
PROPERTIES
    InputAnswered
CHECK_DEADLOCK FALSE
