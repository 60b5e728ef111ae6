SPECIFICATION Spec
CONSTANTS
    s1 = s1  p1 = p1  p2 = p2  staff = staff  admin = admin
    t1 = t1  t2 = t2
    Subjects = {s1}
    Permissions = {p1}
    RoleNames = {staff, admin}
    Registry <- MCRegistry
    Parents <- MCParents
    Tasks = {t1, t2}
    Kinds = {"check"}
    FailingReads = {"denied", "extra", "roles"}
    Ttl = 2
    MaxEntries = 1
    MaxTime = 3
INVARIANTS
    CacheAgreesWithStore
    FailClosed
    AnswerAgreesWithStore
    RevocationWindow
    InvalidationCloses
SYMMETRY TaskSymmetry
