SPECIFICATION PartsSpec
CONSTANTS
    w1 = w1
    home = home
    page = page
    doc = doc
    deep = deep
    far = far
    off = off
    NoWorker = NoWorker
    Jobs <- MCJobs
    Handled <- MCJobs
    Workers <- OneWorker
    MaxAttempts = 1
    Concurrency = 2
    Overrun = FALSE
    MaxStops = 1
    Sources <- MCSources
    Web <- MCWeb
    Kind <- MCKind
    Target <- MCTarget
    PageJobs <- MCPages
    Keys <- Nothing
    Key <- NoKeys
    Deletable <- MCDeletable
    Urls <- MCUrls
    Root = home
    Sites <- MCSites
    Excluded <- MCExcluded
    MaxPages = 4
    MaxDepth = 2
    BatchSize = 2
    MaxLinks = 3
    MaxRefused = 1
    Crawler = 1
    Attempt = 1
    Ingested <- MCIngested
CHECK_DEADLOCK FALSE
INVARIANT CompleteWasIngested
INVARIANT BusyIsAttended
INVARIANT FetchedOnce
INVARIANT DepthIsDistance
INVARIANT NothingMissed
