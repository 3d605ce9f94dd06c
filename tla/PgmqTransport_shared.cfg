CONSTANTS
    p1 = p1
    p2 = p2
    c1 = c1
    k1 = k1
    k2 = k2
    MaxId = 1
    Producers = {p1, p2}
    Consumers = {k1, k2}
    Commands = {c1}
    NoCommand = NoCommand
    Lang <- MCPairs
    Bodies <- MCAllSendable
    ForeignBodies <- MCNone
    Delays <- MCDelays
    Leases <- MCLeases
    Batches = {2}
    MaxReads = 2
    TxConsumers = {k1, k2}
    StaleRetry = TRUE
    MaxCrashes = 0
SPECIFICATION Spec
INVARIANT SharedContract
CHECK_DEADLOCK FALSE
