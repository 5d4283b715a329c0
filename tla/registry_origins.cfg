SPECIFICATION RegistrySpec
CONSTANTS
    shop = shop
    docs = docs
    fresh = fresh
    p0 = p0
    p1 = p1
    p2 = p2
    o1 = o1
    o2 = o2
    AtFirst <- MCAtFirst
    NoOrigins = NoOrigins
    Slugs <- MCSlugs
    Edits <- MCEdits
    Of <- MCOf
    Verb <- MCVerb
    Body <- MCBody
    FirstRow <- FirstRows
    Scenes <- ShowOnly
CHECK_DEADLOCK FALSE
INVARIANT OriginsCurrent
