SPECIFICATION Spec
CONSTANTS
    l1 = l1
    l2 = l2
    s1 = s1
    s2 = s2
    h1 = h1
    h2 = h2
    Loggers = {l1, l2}
    Subjects = {s1, s2}
    Risks <- MCRisks
    RuleSet <- MCRuleSet
    Hooks = {h1, h2}
    Panicking = {h1}
    MaxEntries = 2
    MaxChanges = 3
    MaxNow = 2
SYMMETRY MCSymmetry
INVARIANTS CooldownWhenSequential NothingLost AnalysisAddsUp
CHECK_DEADLOCK FALSE
