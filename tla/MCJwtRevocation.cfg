SPECIFICATION Spec
CONSTANTS
    Users = {u}
    Jtis = {j1}
    Calls = {c1, c2}
    Backends = {"memory", "db"}
    Lifetime = 2
    Leeway = 1
    AutoWindow = 2
    MaxEntries = 1
    MaxTime = 4
SYMMETRY CallSymmetry
INVARIANTS
    RevocationLasts
    RevokedIsRejected
