CONSTANTS
    p1 = p1
    p2 = p2
    c1 = c1
    k1 = k1
    k2 = k2
    MaxId = 2
    Producers = {p1, p2}
    Consumers = {k1, k2}
    Commands = {c1}
    NoCommand = NoCommand
    Lang <- MCPairs
    Bodies <- MCAllSendable
    ForeignBodies <- MCForeign
    Delays <- MCDelays
    Leases <- MCLeases
    Batches = {0, 2}
    MaxReads = 2
    TxConsumers = {k1}
    StaleRetry = FALSE
    MaxCrashes = 1
SPECIFICATION Spec
INVARIANTS AtLeastOnce LeaseHonoured ConstructedReadable
CHECK_DEADLOCK FALSE
