SPECIFICATION Spec
CONSTANTS
    Address = {k1}
    Imported = {k1}
    AppUser = {}
    Rejected = {}
    Campaign = {"spring"}
    BatchSizes = {1, 2}
    MinSample = 1
    MaxRequests = 1
    MaxEvents = 0
PROPERTIES
    CancelStops
CHECK_DEADLOCK FALSE
