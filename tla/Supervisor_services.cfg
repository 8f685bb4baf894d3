SPECIFICATION SupervisorSpec
CONSTANTS
    Services = {"a", "b", "c"}
    Dependencies <- MCDependencies
    MaxCalls = 2
    Controllers = {"c1", "c2"}
    LoopIds = {"l1", "l2"}
    Tasks = {"t1", "t2"}
    Interval <- MCInterval
    SchedulerCalls = 3
    MaxTime = 2
INVARIANTS
    UnstartableNeverRuns
    OkMeansUp
    OneLoop
PROPERTIES
    StartsAfterDependencies
    SchedulerReturns
    DueTaskRuns
CHECK_DEADLOCK FALSE
