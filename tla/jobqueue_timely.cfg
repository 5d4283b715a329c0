SPECIFICATION Spec
CONSTANTS
    w1 = w1
    w2 = w2
    NoWorker = NoWorker
    Jobs <- MCJobs
    Handled <- FirstHandled
    Workers <- MCWorkers
    MaxAttempts = 2
    Concurrency = 2
    Overrun = FALSE
    MaxStops = 2
CHECK_DEADLOCK FALSE
INVARIANT OneOpenAttempt
PROPERTY KeepsPromise
