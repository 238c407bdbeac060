SPECIFICATION Spec
CONSTANTS
    User = {u1, u2}
    Org = {"x", "y"}
    OrgOf <- Colleagues
    Reviewer = {u2}
    Name = {"n1"}
    Body = {b1, b2}
    Nothing = Nothing
    MaxRequests = 2
    MaxLinks = 1
    MaxFileFaults = 1
    Field = {"email", "name"}
    Blank = Blank
    Session = {"s1", "s2"}
    Rows <- Sheet
    MatchBy <- Tuples
    MaxAttempts = 2
    MaxImportFaults = 1
    MaxRecords = 6
INVARIANTS
    FilesHold
    ImportsHold
    SheetsReadBack
    ProposalIsSound
SYMMETRY Symmetry
CHECK_DEADLOCK FALSE
