SPECIFICATION Spec
CONSTANTS
    MaxSteps = 3
    Downloads = {1, 2, 3}
    MaxLength = 5
    Default = 4
    MaxInt = 11
    QueueKinds = {"bytes up", "file up", "run", "file", "bytes"}
    Repairs = {{}, {"embedded"}, {"embedded", "container"}, {"embedded", "prepair"}, {"embedded", "prepair", "container"}, {"prepair", "container", "destination"}, {"embedded", "prepair", "container", "destination"}}
INVARIANT NoStepIsLost
INVARIANT IndexNamesCommand
INVARIANT DeploymentComesFirst
INVARIANT DefectsBlockBatch
INVARIANT DeliveredIsCut
CHECK_DEADLOCK FALSE
