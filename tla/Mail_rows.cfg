SPECIFICATION AllSpec
CONSTANTS
    Nobody = Nobody
    Email = {e1, e2}
    Runner = {r1, r2}
    MaxAttempts = 2
    Limit = 2
    MaxCrashes = 1
    MaxPauses = 1
    Last = 2
    Poison = {1}
    Pod = {p1, p2}
    BatchSize = 1
    RetryAfter = 2
    MaxFaults = 1
    MaxApplied = 2
INVARIANTS
    NothingTwice
    OutcomeIsEarned
PROPERTIES
    SettledIsFinal
    MailMovesOn
CHECK_DEADLOCK FALSE
