SPECIFICATION FairSpec
CONSTANTS
    Collectors = {c1, c2}
    Deleters = {d1}
    MaxEvents = 2
    MaxPosted = 2
INVARIANT OffersComeOnce
PROPERTY ImplementsQueue
INVARIANT DeletedMeansUnsubscribed
PROPERTY CollectorsEnd
CHECK_DEADLOCK FALSE
