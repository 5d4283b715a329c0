SPECIFICATION ChunkSpec
CONSTANTS
    Docs <- FencedDocs
    ChunkSize = 6
    ChunkOverlap = 3
CHECK_DEADLOCK FALSE
INVARIANT CommentsOpenNoSection
