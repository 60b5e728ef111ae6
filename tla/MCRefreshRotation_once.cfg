SPECIFICATION Spec
CONSTANTS
    Sids = {a, b}
    Tasks = {t1, t2}
    RefreshTtl = 1
    Leeway = 1
    MaxEntries = 1
    MaxTime = 4
SYMMETRY TaskSymmetry
INVARIANTS
    RejectedWhileVerifiable
PROPERTY
    OncePerLifetime
