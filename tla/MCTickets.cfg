SPECIFICATION Spec
CONSTANTS
    Stores <- MCStores
    Clients = {c1, c2}
    MaxIssued = 3
    MaxStoreTime = 5
    Ttl = 2
    Cap = 2
    MaxAttempts = 2
    CleanupThreshold = 1
    PruneInterval = 2
    CodeKeys = {r1, r2}
    BoundUsers = {u1}
    HotpCode <- MCHotpCode
    Invites = {i1, i2}
    Templates <- MCTemplates
    Ips = {ip1, ip2}
    NoIp = noip
    OpenWindow = 2
    MaxInviteTime = 4
    Ids = {v1, v2}
    Calls = {a1, a2}
    AccessTtl = 1
    InactivityWindow = 1
    JwtLeeway = 1
    MaxVisitTime = 4
    Conns = {n1, n2}
    Users = {u1}
    Anonymous = anon
    Observers = {o1, o2}
    IdleTimeout = 2
    MaxPresenceTime = 5
INVARIANTS StoresBounded VisitsEnd PresenceHonest
PROPERTIES SingleUse AdmitsAsInvited
CHECK_DEADLOCK FALSE
