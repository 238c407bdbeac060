SPECIFICATION Spec
CONSTANTS
    User = {"a", "b"}
    Query = {"q"}
    MaxCalls = 1
    MaxSwitches = 1
    MaxWrites = 0
INVARIANT ShowsOwnTenant
CHECK_DEADLOCK FALSE
