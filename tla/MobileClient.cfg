SPECIFICATION FairSpec
CONSTANTS
    Items = {game}
    Nothing = Nothing
    Decisions = {"approve", "request_changes"}
    Attempts = 0
    MaxRequests = 2
    MaxLoads = 1
    MaxPolls = 2
    MaxFailures = 1
CHECK_DEADLOCK FALSE
INVARIANTS
    TypeOK
    WhatIsOverStaysOver
PROPERTIES
    PendingIsListed
