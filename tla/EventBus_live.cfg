SPECIFICATION FairSpec
CONSTANTS
    c1 = c1
    c2 = c2
    Clients <- MCClients
    Events = {"BatteryLow"}
    Kinds = {"observe"}
    QueueCapacity = 0
    MaxHops = 1
    TraceCapacity = 1
    MaxPublish = 3
    MaxSubs = 1
PROPERTIES
    AcceptedIsDispatched
    ShutdownReturns
CHECK_DEADLOCK FALSE
