SPECIFICATION PartsSpec
CONSTANTS
    w1 = w1
    w2 = w2
    doc = doc
    k1 = k1
    NoWorker = NoWorker
    Jobs <- MCJobs
    Handled <- MCJobs
    Workers <- MCWorkers
    MaxAttempts = 2
    Concurrency = 1
    Overrun = TRUE
    MaxStops = 1
    Sources <- OnlyDoc
    Web <- Nothing
    Kind <- MCKind
    Target <- MCTarget
    PageJobs <- Nothing
    Keys <- MCKeys
    Key <- MCKey
    Deletable <- Nothing
CHECK_DEADLOCK FALSE
INVARIANT OutcomeEarned
INVARIANT ObjectKeptUntilIngested
INVARIANT BusyIsAttended
INVARIANT FailedHasCause
PROPERTY ComesToRest
