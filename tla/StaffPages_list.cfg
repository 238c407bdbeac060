SPECIFICATION FairSpec
CONSTANTS
    File = {"f"}
    Email = {"d", "e"}
    Foreign = {"e"}
    Stored = {"d"}
    MaxDecisions = 1
    MaxVisits = 2
PROPERTY ListIsShown
CHECK_DEADLOCK FALSE
