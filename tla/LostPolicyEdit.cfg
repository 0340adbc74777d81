SPECIFICATION Spec
CONSTANTS
    Null = Null
    Nothing = Nothing
    c1 = c1
    c2 = c2
    ActiveDestinations = {"internal_feed"}
    Clubs = {"club"}
    Users = {"admin"}
    Managers <- EveryoneManages
    Clients = {c1, c2}
    FirstRows <- MCFirstRows
    Patches <- FewPatches
    CleanupLists <- OneClub
    Areas = {"routingRule"}
    MaxTransactions = 3
CHECK_DEADLOCK FALSE
PROPERTY OnlyAskedFieldsChange
