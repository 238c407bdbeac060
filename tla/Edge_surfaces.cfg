SPECIFICATION AllSpec
CONSTANTS
    None = None
    Job = {j1, j2}
    Pod = {p1, p2}
    Cron <- Regular
    MinInterval = 1
    Limit = 2
    HandlerTimeout = 1
    StaleLock = 1
    MaxTime = 4
    MaxCrashes = 1
    MaxEdits = 1
    User = {"a"}
    Query = {"q"}
    MaxCalls = 2
    MaxSwitches = 1
    MaxWrites = 1
    Tab = {"t", "u"}
    Ttl = 4
    Warning = 2
    Throttle = 2
    Event = {"e1"}
    Tolerance = 1
    Retention = 2
    MaxAttempts = 2
    RelayTime = 4
    MaxRequests = 2
    Submission <- Posts
    IpOf <- IpOfPost
    Form <- ContactForm
    Sends <- SentForms
    Configured = {}
    Owner = {"o"}
    PerIp = 1
    PerSite = 2
    MaxFaults = 1
    Orgs <- TwoOrgs
    Members <- TheirMembers
    Reserved = {"b"}
    Capacity = 1
    MaxSends = 1
    MaxChanges = 1
    Migrations = 2
    MaxRuns = 3
    Cap = 3
    FlushAfter = 2
    Pause = 2
    Every = 3
    Threshold = 4
    Ring = 2
    MaxActs = 4
    TrailTime = 4
    Debounce = 1
    Heartbeat = 2
    Latency = 1
    MaxStores = 3
    PanelTime = 8
    Sheet = {1, 2}
    Attests = TRUE
    MaxSessions = 2
    MaxMappings = 2
    Member = {"me", "m"}
    Me = "me"
    Mailbox = {"x"}
    MaxSettings = 3
    Visitor = {"a", "b"}
    Invitee = "b"
    MaxMounts = 3
    MaxResends = 1
    Document = {"f", "g"}
    Email = {"d", "e"}
    Foreign = {"e"}
    Stored = {"d"}
    MaxDecisions = 2
    MaxVisits = 1
    Preset <- Presets
    Shade = {0, 9}
    Size = {16, 30}
    Readable = 5
    SizeLimits <- Legible
    Bundled <- Light
    MaxDesigns = 3
INVARIANTS
    NeverDoubleRun
    CatchUpOnce
    TabFollowsItsSession
    
    TrailIsKept
    WebhooksHold
    MessagesGoOut
    SuccessIsEarned
PROPERTY DryRunTouchesNothing
SYMMETRY Symmetry
CHECK_DEADLOCK FALSE
