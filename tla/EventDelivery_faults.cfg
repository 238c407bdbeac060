SPECIFICATION Spec
CONSTANTS
    d1 = d1
    d2 = d2
    d3 = d3
    c1 = c1
    c2 = c2
    k1 = k1
    Delivery = {d1, d2}
    Consumer = {c1, c2}
    Key = {k1}
    NoKey = NoKey
    NoDelivery = NoDelivery
    NoConsumer = NoConsumer
    KeyOf <- MCKeyOf
    Runnable <- MCRunnable
    MaxAttempts = 2
    Batch = 1
    MaxFaults = 2
    MaxAdmin = 1
INVARIANTS
    KeyMutex
    BudgetRespected
    DoneMeansHandled
PROPERTIES
    PeerRunKept
    KeepsPromise
SYMMETRY Symmetry
CHECK_DEADLOCK FALSE
