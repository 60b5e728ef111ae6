SPECIFICATION Spec
CONSTANTS
    s1 = s1  p1 = p1  p2 = p2  staff = staff  admin = admin
    t1 = t1  t2 = t2
    Subjects = {s1}
    Permissions = {p1, p2}
    RoleNames = {staff, admin}
    Registry <- MCRegistry
    Parents <- MCParents
    Tasks = {t1}
    Kinds = {"check", "check_hierarchical", "effective", "effective_hierarchical"}
    FailingReads = {"denied", "extra", "roles"}
    Ttl = 1
    MaxEntries = 1
    MaxTime = 1
INVARIANTS
    AnswerAgreesWithStore
    CacheBounded
