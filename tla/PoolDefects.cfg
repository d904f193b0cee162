SPECIFICATION Spec
CONSTANTS
    c1 = c1
    c2 = c2
    g1 = g1
    g2 = g2
    a1 = a1
    p1 = p1
    p2 = p2
    None = None
    Callers = {c1, c2}
    Terminators = {g1, g2}
    Ids = {a1}
    Issuers = {p1, p2}
    Scores = {0, 1}
    Repairs = {{},
               {"select", "extract", "logger"},
               {"offer", "extract", "logger"},
               {"offer", "select", "logger"},
               {"offer", "select", "extract"},
               {"offer", "select", "extract", "logger"}}
SYMMETRY GoroutineSymmetry
INVARIANT MapRacesAreUnlocked
INVARIANT NothingIsConfirmed
PROPERTY HungCallKeepsMutex
CHECK_DEADLOCK FALSE
