SPECIFICATION FairBatchSpec
CONSTANTS
    Size = 3
    Faults = {"index", "short", "shape"}
INVARIANT InOrderOnce
INVARIANT DeliveredWasExecuted
INVARIANT ExitIsExplained
INVARIANT NoFalseMismatch
INVARIANT OnlyTimeEndsStream
PROPERTY ImplementsStream
PROPERTY BatchEnds
CHECK_DEADLOCK FALSE
