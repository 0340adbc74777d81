SPECIFICATION Spec
CONSTANTS
    Null = Null
    ActiveDestinations = {"internal_feed"}
    Policies <- MCPolicies
    Texts <- MCTexts
INVARIANTS
    TypeOK
    OnlyProvidersOfTheMode
    RoutesToReviewers
    AutoApprovedWasCleared
    HermesLowIsExplicit
PROPERTIES
    ReviewEnds
