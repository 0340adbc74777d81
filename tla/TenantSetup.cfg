SPECIFICATION FairSpec
CONSTANTS
    UserIds <- MCUserIds
    Emails <- MCEmails
    NoEmail = NoEmail
    Servers = {"s1"}
    Defaults <- MCDefaults
    Environments <- MCEnvironments
    Candidates <- MCCandidates
    MaxDeploys = 2
    MaxOperations = 2
CHECK_DEADLOCK FALSE
INVARIANTS
    TypeOK
    EmailsAreUnique
PROPERTIES
    SubmitterInboxApplied
    SubmissionsStayAttached
    StartsKeepPolicyEdits
    ResetRestoresBaseline
    StartsListen
