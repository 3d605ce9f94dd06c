CONSTANTS
    p1 = p1
    p2 = p2
    c1 = c1
    k1 = k1
    k2 = k2
    MaxId = 2
    Producers = {p1}
    Consumers = {k1, k2}
    Commands = {c1}
    NoCommand = NoCommand
    Lang <- MCGoParties
    Bodies <- MCBodies
    ForeignBodies <- MCForeignHeaders
    Delays <- MCDelays
    Leases <- MCLeases
    Batches = {0, 2}
    MaxReads = 2
    TxConsumers = {k1, k2}
    StaleRetry = TRUE
    MaxCrashes = 1
SPECIFICATION FairSpec
INVARIANTS TypeOK OutboxAtomic ExactlyOnceInTx MalformedOnlyArchived
PROPERTIES ImplementsDurableQueue EventuallySettled
CHECK_DEADLOCK FALSE
