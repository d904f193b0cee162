SPECIFICATION Spec
CONSTANTS
    Starters = {s1, s2}
    Stoppers = {t1, t2}
    Senders = {m1}
    None = none
INVARIANT NilMeansGone
INVARIANT NothingWithoutCommand
PROPERTY StopReturns
CHECK_DEADLOCK FALSE
