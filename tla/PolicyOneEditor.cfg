SPECIFICATION Spec
CONSTANTS
    Null = Null
    Nothing = Nothing
    c1 = c1
    c2 = c2
    ActiveDestinations = {"internal_feed"}
    Clubs = {"club"}
    Users = {"admin"}
    Managers <- EveryoneManages
    Clients = {c1}
    FirstRows <- MCFirstRows
    Patches <- MCPatches
    CleanupLists <- OneClub
    Areas = {"routingRule"}
    MaxTransactions = 4
CHECK_DEADLOCK FALSE
INVARIANTS
    TypeOK
    HistoryExplains
PROPERTY OnlyAskedFieldsChange
