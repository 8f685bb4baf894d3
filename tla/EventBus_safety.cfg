SPECIFICATION Spec
CONSTANTS
    c1 = c1
    c2 = c2
    Clients <- MCClients
    Events = {"BatteryLow"}
    Kinds = {"observe", "relay"}
    QueueCapacity = 2
    MaxHops = 2
    TraceCapacity = 2
    MaxPublish = 2
    MaxSubs = 1
INVARIANTS
    LossIsBounded
    RelayChainEnds
PROPERTIES
    ImplementsContract
SYMMETRY Symmetry
CHECK_DEADLOCK FALSE
