SPECIFICATION Spec
CONSTANTS
    Null = Null
    NoRow = NoRow
    s1 = s1
    s2 = s2
    r1 = r1
    r2 = r2
    r3 = r3
    e1 = e1
    e2 = e2
    e3 = e3
    e4 = e4
    t1 = t1
    t2 = t2
    Submissions = {s1}
    RequestIds = {r1, r2}
    EventIds = {e1, e2, e3}
    Ticks = {t1}
    ActiveDestinations = {"internal_feed"}
    Memberships <- MCMemberships
    ContentTypeOf <- MCContentTypeOf
    TeamOf <- MCTeamOf
    Policies <- OnlyTwoStage
    Reviews <- MCReviews
    MaxRevision = 2
    MaxRetries = 0
    MaxInterruptions = 0
CHECK_DEADLOCK FALSE
INVARIANT PublicPostsAreApproved
