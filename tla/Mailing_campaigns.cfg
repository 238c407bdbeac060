SPECIFICATION FairSpec
CONSTANTS
    Address = {k1, k2}
    Imported = {k1}
    AppUser = {k2}
    Rejected = {}
    Campaign = {"spring"}
    BatchSizes = {1, 2}
    MinSample = 1
    MaxRequests = 2
    MaxEvents = 1
PROPERTIES
    OptOutHolds
    CampaignEnds
CHECK_DEADLOCK FALSE
