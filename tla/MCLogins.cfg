SPECIFICATION Spec
CONSTANTS
    Nodes = {n1, n2}
    Old = "old"
    New = "new"
    Bad = "bad"
    NoKey = "nokey"
    NoKid = "nokid"
    NoAudience = "anyone"
    Features = {TRUE, FALSE}
    Profiles <- MCProfiles
    Kids <- MCKids
    Ttl = 1
    Leeway = 1
    MaxKeyTime = 4
    MaxSigned = 2
    Challenges = {c1, c2, c3}
    Handlers = {h1, h2}
    Allowed <- MCAllowed
    Shapes <- MCShapes
    Lower <- MCLower
    CoseKeys <- MCCoseKeys
    RequireUv = TRUE
    Counting = TRUE
    Verifiers <- MCVerifiers
    MaxGap = 1
    MaxCount = 2
    MaxResponses = 3
    LoginCalls = {k1, k2}
    Passwords <- MCPasswords
    FirstPassword <- MCFirstPassword
    MinLen = 8
    MaxLen = 16
    Sids = {s1}
    NoSession = nosession
    UserKey = userkey
    Backends <- MCBackends
    RawPolicies <- MCRawPolicies
    MaxFlowTime = 3
    MaxFlowTokens = 1
    MaxChanges = 1
    Sources = {a1, a2}
    Asking = {q1}
    Ttls = {1, 2}
    Forever = 99
    MaxMoment = 3
INVARIANTS KeysRotateSafely CeremonyHolds InputsRead AnswersHonest TokensCutOff
SYMMETRY Symmetry
CHECK_DEADLOCK FALSE
