SPECIFICATION FairSpec
CONSTANTS
    d1 = d1
    d2 = d2
    d3 = d3
    c1 = c1
    c2 = c2
    k1 = k1
    Delivery = {d1, d2, d3}
    Consumer = {c1, c2}
    Key = {k1}
    NoKey = NoKey
    NoDelivery = NoDelivery
    NoConsumer = NoConsumer
    KeyOf <- DeployKeyOf
    Runnable <- DeployRunnable
    MaxAttempts = 2
    Batch = 2
    MaxFaults = 1
    MaxAdmin = 0
PROPERTIES
    Settles
CHECK_DEADLOCK FALSE
