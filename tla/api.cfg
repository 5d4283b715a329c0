SPECIFICATION ApiSpec
CONSTANTS
    t1 = t1
    t2 = t2
    t3 = t3
    t4 = t4
    s1 = s1
    s2 = s2
    r1 = r1
    r2 = r2
    poll = poll
    job = job
    m1 = m1
    m2 = m2
    c1 = c1
    c2 = c2
    c3 = c3
    ip1 = ip1
    ip2 = ip2
    k1 = k1
    k2 = k2
    k3 = k3
    k4 = k4
    Requests <- MCRequests
    Streamed <- MCRequests
    Tasks <- MCTasks
    Bare <- MCBare
    Models <- MCModels
    Tenant <- MCTenant
    Conns <- MCConns
    Pool <- MCPool
    Nobody = Nobody
    NoConn = NoConn
    Callers <- MCCallers
    MaxRequests = 2
    Window = 3
    MaxKeys = 1
    ApiKeys <- MCApiKeys
    Ttl = 3
    MaxSize = 3
    MaxTime = 5
    Turns <- FourTurns
    Streams <- OneStream
    Side <- OneSide
    Sessions <- MCSessions
    Session <- TwoSessions
    Limit <- MCLimit
    Slots = 2
    Months = 2
CHECK_DEADLOCK FALSE
INVARIANT MessagesAccounted
INVARIANT CollisionExplained
INVARIANT OvershootBounded
PROPERTY TurnsEnd
INVARIANT RanScoped
INVARIANT PooledClean
INVARIANT RateKept
INVARIANT FreshSurvives
PROPERTY UnitsEnd
