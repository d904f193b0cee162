SPECIFICATION FairSpec
CONSTANTS
    c1 = c1
    c2 = c2
    g1 = g1
    a1 = a1
    p1 = p1
    None = None
    Callers = {c1, c2}
    Terminators = {g1}
    Ids = {a1}
    Issuers = {p1}
    Scores = {1}
    Repairs = {{}, {"offer", "select", "extract", "logger"}}
PROPERTY CallsReturn
PROPERTY ReleasedLeaves
CHECK_DEADLOCK FALSE
