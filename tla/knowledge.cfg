SPECIFICATION KnowledgeSpec
CONSTANTS
    MaxAttempts = 2
    MaxTries = 3
    MaxDeletes = 2
    MaxCrashes = 2
    MaxTimeouts = 2
    MaxErrors = 2
    MaxLate = 1
    Documents <- SmallDocuments
    ChunkSize = 5
    Overlaps = {0, 2, 4}
    MaxChunks = 3
    BatchSize = 2
    ProviderLimits = {1, 3}
    Scores = {1, 2}
    TopK = {0, 5}
    MaxTopK = 3
    CharsPerToken = 2
    MaxContextTokens = 3
    MaxChunkTokens = 2
    NoResultIsError = TRUE
INVARIANTS SearchableExactlyWhenReady NothingOutlivesTheRow NothingIsLost ContextIsBest
PROPERTIES SettledIsFinal DocumentSettles SplittingEnds
