SPECIFICATION FairSpec
CONSTANTS
    w1 = w1
    w2 = w2
    NoWorker = NoWorker
    Jobs <- OneJob
    Handled <- OneJob
    Workers <- OneWorker
    MaxAttempts = 2
    Concurrency = 1
    Overrun = FALSE
    MaxStops = 2
CHECK_DEADLOCK FALSE
PROPERTY EveryJobEnds
