SPECIFICATION Spec
CONSTANTS
    r1 = r1
    r2 = r2
    r3 = r3
    s1 = s1
    s2 = s2
    s3 = s3
    a1 = a1
    a2 = a2
    u1 = u1
    g1 = g1
    w1 = w1
    nowhere = nowhere
    Roles <- MCRoles
    Perms <- MCRoles
    PermChoices <- MCPermChoices
    Starts <- MCStarts
    GrantPerms <- MCGrantPerms
    Typed <- MCTyped
    Leaves <- MCLeaves
    WellFormed <- MCWellFormed
    Rows <- MCRows
    Clock <- MCClock
    Never = 9
    Subjects <- MCSubjects
    AssignableRoles <- MCAssignableRoles
    Assigners = {a1, a2}
    SsdChoices <- MCSsdChoices
    CardChoices <- MCCardChoices
    PreChoices <- MCPreChoices
    TempChoices <- MCTempChoices
    Seeds <- MCSeeds
    MaxTime = 1
    MaxEdits = 1
    MaxCalls = 3
    Policies <- MCPolicies
    Skews = {0, 1}
    MaxDay = 4
    Categories <- MCCategories
    WindowSizes = {0, 2, 4}
    MinSamples = 3
    Supplied <- MCSupplied
    MaxObserved = 6
INVARIANTS WalksExact OrderFree AssignmentsObey TemporaryNeverPasses DetectorHonest
PROPERTIES WalksEnd ScopesAsStated
CHECK_DEADLOCK FALSE
