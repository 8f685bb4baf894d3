SPECIFICATION FairSpec
CONSTANTS
    c1 = c1
    c2 = c2
    Clients <- MCClients
    Events = {"BatteryLow"}
    Kinds = {"relay"}
    QueueCapacity = 1
    MaxHops = 1
    TraceCapacity = 1
    MaxPublish = 2
    MaxSubs = 1
PROPERTIES
    ShutdownReturns
CHECK_DEADLOCK FALSE
