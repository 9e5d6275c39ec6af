CONSTANTS
    NoText = NoText
    BLOCK_SIZE = 2
    MAX_TERM_BYTES = 4
    VARINT_BASE = 2
    BYTE_BITS = 2
    Text <- Texts
    Query <- Queries
    docs_per_segment = 2
    shard_size = 2
    tier_size = 1
    max_merge = 2
    max_segment_bytes = 90
    min_tier_bytes = 32
    del_percent = 40
    MaxDocs = 3
    MaxId = 6
    MaxDeleted = 2
    Piece <- Pieces
    Chunk <- Chunks
    Showcase <- Documents
    Withdrawn = {2}
    PageQuery <- Paged
    PageSize = {2}
    max_width = 5
    MaxText = 5
    MaxChunks = 5

SPECIFICATION Spec
INVARIANTS SegmentsReadBack EvaluateIsExact PagesTile SourceFindsItself QueryMeansWhatItSays MatchesCanBeShown
PROPERTIES MergesShrink
CHECK_DEADLOCK FALSE
