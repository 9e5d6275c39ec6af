SPECIFICATION SpecInUse
CONSTANTS
    MaxSeg = 2
    MaxGen = 1
    MaxTxn = 4
    MaxNew = 1
    Proc = {p1, p2}
    Nobody = Nobody
    MaxAttempts = 2
SYMMETRY Processes
INVARIANTS IndexComplete UncommittedKept SegmentsImmutable
PROPERTIES RetrySeesProgress ImplementsSharedIndex
