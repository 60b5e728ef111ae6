SPECIFICATION Spec
CONSTANTS
    Limiters = {"login", "register"}
    Names = {"ann", "bob"}
    Limit <- MCLimit
    MaxEntries = 1
    MaxTime = 2
    Usernames <- MCUsernames
    Normalise <- MCNormalise
    LoginNames <- MCLoginNames
    UserIds = {u1, u2}
    Calls = {c1, c2}
    AutoAdmin = TRUE
SYMMETRY CallSymmetry
INVARIANTS
    OneFirstUser
    LockoutHolds
