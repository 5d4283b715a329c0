SPECIFICATION ContentSpec
CONSTANTS
    page = page
    other = other
    Docs <- MCDocs
    ChunkSize = 6
    ChunkOverlap = 3
    Sources <- MCSources
    Page = page
    Searched <- ThreeChunks
    MaxVersion <- MCMaxVersion
    MaxChunks = 1
    Candidates = 3
    TopK = 3
    Limit = 2
    Radius = 1
    put1 = put1
    put2 = put2
    file1 = file1
    file2 = file2
    delete1 = delete1
    purge1 = purge1
    patch1 = patch1
    A = A
    B = B
    Empty = Empty
    FirstConfig = FirstConfig
    NoRow = NoRow
    NoHash = NoHash
    NoText = NoText
    Nobody = Nobody
    Texts <- MCTexts
    Blanks <- MCBlanks
    Puts <- OnePut
    Files <- TwoFiles
    Deletes <- None
    Purges <- None
    Patches <- OnePatch
    TextOf <- OneBlankTextOf
    shop = shop
    docs = docs
    fresh = fresh
    p0 = p0
    p1 = p1
    p2 = p2
    o1 = o1
    o2 = o2
    AtFirst <- MCAtFirst
    NoOrigins = NoOrigins
    Slugs <- MCSlugs
    Edits <- MCEdits
    Of <- MCOf
    Verb <- MCVerb
    Body <- MCBody
    FirstRow <- FirstRows
    Scenes <- MCScenes
    q1 = q1
    q2 = q2
    q3 = q3
    key1 = key1
    key2 = key2
    noKey = noKey
    c1 = c1
    c2 = c2
    c3 = c3
    owner1 = owner1
    owner2 = owner2
    log1 = log1
    log2 = log2
    log3 = log3
    tab = tab
    NoTurn = NoTurn
    NoSession = NoSession
    Unlinked = Unlinked
    Talk <- MCTalk
    Streaming <- OneStream
    HistoryTurns <- MCHistoryTurns
    Given <- MCGiven
    ApiKeys <- MCApiKeys
    ModelOf <- MCModelOf
    Prefix <- MCPrefix
    Callers <- MCCallers
    Token <- MCToken
    Wanted <- MCWanted
    Owners <- MCOwners
    Revokes <- MCRevokes
    Logs <- MCLogs
    Tables <- MCTables
CHECK_DEADLOCK FALSE
INVARIANT PathsAreTrue
INVARIANT NothingLost
INVARIANT SectionsKept
INVARIANT ChunkFits
INVARIANT NoOrphanHeadings
INVARIANT RanksRespected
INVARIANT ContextWhole
INVARIANT SourceDescribesChunks
PROPERTY IngestsAtomic
INVARIANT OriginsExplained
INVARIANT LastWordStands
INVARIANT HistoryTells
INVARIANT RevocationHolds
INVARIANT FollowUpInformed
INVARIANT NumbersAgree
INVARIANT ConversationsTrue
