SPECIFICATION RolloutSpec
CONSTANTS
    Null = Null
    Nothing = Nothing
    c1 = c1
    c2 = c2
    ActiveDestinations = {"internal_feed"}
    Clubs = {"club"}
    Users = {"admin"}
    Managers <- EveryoneManages
    Clients = {c1, c2}
    Consoles = {c1}
    FirstRows <- MCFirstRows
    Patches <- MCPatches
    CleanupLists <- OneClub
    Areas = {"routingRule"}
    Simulations <- MCSimulations
    MaxTransactions = 2
CHECK_DEADLOCK FALSE
INVARIANTS
    BeforeWasInForce
    SimulatorAgrees
    LossIsWarned
PROPERTY SnapshotIsTrue
