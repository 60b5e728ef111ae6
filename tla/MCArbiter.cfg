SPECIFICATION Spec
CONSTANTS
    d1 = d1
    Ids = {d1}
    Calls = {1, 2}
    StartsWith <- MCStartsWith
    Requests <- MCRequests
    Outcomes <- MCOutcomes
    Policies <- MCPolicies
    Scopes <- MCScopes
    Targets <- MCTargets
    Deviations <- MCDeviations
    MaxDetectors = 1
    BaselineMin = 1
    Decay = 1000
    Seeds <- MCSeeds
    MaxFaults = 1
INVARIANTS LockdownHolds FaultsOnlyLower
CHECK_DEADLOCK FALSE
PROPERTIES AuthorizeAnswers TrustAges
