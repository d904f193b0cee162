SPECIFICATION Spec
CONSTANTS
    c1 = c1
    c2 = c2
    g1 = g1
    a1 = a1
    a2 = a2
    p1 = p1
    None = None
    Callers = {c1, c2}
    Terminators = {g1}
    Ids = {a1, a2}
    Issuers = {p1}
    Scores = {1}
    Repairs = {{"offer", "select", "extract", "logger"}}
SYMMETRY CallerIdSymmetry
INVARIANT AtMostOneAgreement
INVARIANT TerminatedStaysOut
INVARIANT EventsConsistent
INVARIANT CallbackAgreementWasPooled
INVARIANT ApprovedIsAccountedFor
PROPERTY ImplementsLedger
CHECK_DEADLOCK FALSE
