SPECIFICATION Spec
CONSTANTS
    t1 = t1
    t2 = t2
    t3 = t3
    s1 = s1
    Turns <- ThreeTurns
    Streams <- NoTurns
    Side <- NoTurns
    Sessions <- MCSessions
    Session <- OneSession
    Limit <- MCLimit
    Slots = 1
    Months = 1
CHECK_DEADLOCK FALSE
INVARIANT AnsweredIsLogged
