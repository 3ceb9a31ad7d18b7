CONSTANTS
    u1 = u1
    u2 = u2
    c1 = c1
    NoRow = NoRow
    NoJob = NoJob
    Users = {u1, u2}
    Clients = {c1}
    MaxRequests = 2
    MaxOpen = 2
    MaxTokens = 1
    AccessJobs <- SomeJobs
SPECIFICATION AccessSpec
SYMMETRY Symmetric
INVARIANTS AccessTypeOK RightsEndWithTheRow
PROPERTIES TakenAwayForGood PowerIsNotRegained
CHECK_DEADLOCK FALSE
