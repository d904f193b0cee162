SPECIFICATION FairSpec
CONSTANTS
    Dated = {TRUE, FALSE}
    MaxPosted = 3
    MaxTimes = 2
INVARIANT NoInvoiceIsForgotten
INVARIANT OldInvoicesFollowNewEvents
PROPERTY InvoicesComeInOrder
PROPERTY CancelEndsStream
CHECK_DEADLOCK FALSE
