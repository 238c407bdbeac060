SPECIFICATION Spec
CONSTANTS
    Email = {e1, e2}
    UserId = {a1, a2}
    Nobody = Nobody
    OTP_MAX_ATTEMPTS = 2
    MaxCodes = 2
    Ttl = 2
    VerifyTtl = 1
    Jti = {"j1"}
    MaxTime = 6
    MaxTokens = 3
    Colleague = {u1, u2, u3}
    Org = {x, y}
    Nowhere = Nowhere
    Founder <- SomeFounder
    Invite = {i1, i2}
    Approval = {"c1", "c2"}
    MaxPairs = 3
    MaxLogouts = 2
    Person = {"m", "v"}
    Record = {"d1"}
    Member = {"m"}
    MaxLinks = 2
    MaxKeys = 1
    MaxRequests = 2
INVARIANTS
    CodesHold
    SessionsHold
    TeamHolds
    AssistantsHold
    RotationRetires
SYMMETRY Symmetry
CHECK_DEADLOCK FALSE
