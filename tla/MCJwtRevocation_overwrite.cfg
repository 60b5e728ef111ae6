SPECIFICATION Spec
CONSTANTS
    Users = {u}
    Jtis = {j1}
    Calls = {c1, c2}
    Backends = {"memory"}
    Lifetime = 4
    Leeway = 1
    AutoWindow = 4
    MaxEntries = 3
    MaxTime = 6
SYMMETRY CallSymmetry
INVARIANTS
    RevokedStaysRejected
