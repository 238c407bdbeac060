SPECIFICATION AllSpec
CONSTANTS
    Org = {"org1", "org2"}
    Ref = {"cs1", "inv1", "cs2"}
    Call = {"route1", "route2", "tool1", "tool2"}
    OrgOf <- Orgs
    Amount <- Amounts
    MaxFaults = 2
    Sold = {s1}
    Worker = {w1, w2}
    None = None
    MaxChanges = 3
    MaxRepeats = 2
    Hosted = {"h1", "h2"}
    Gift = {"h1"}
    ModeOf <- Modes
    ProductOf <- Products
    Request = {"r1", "r2"}
    MaxSeq = 2
    MaxChippFaults = 1
    Caller = {"c1", "c2"}
    Pod = {"p1", "p2"}
    Lane = {"tempo", "stripe"}
    MaxAddress = 3
    MaxPayments = 2
INVARIANTS
    NeverNegative
    Conserved
    ChargedForWork
    RowsFollowStripe
    PaidOnceInTime
PROPERTIES
    PaymentsStand
CHECK_DEADLOCK FALSE
