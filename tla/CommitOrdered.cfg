SPECIFICATION Spec
CONSTANTS
    MaxSeg = 2
    MaxGen = 2
    MaxTxn = 3
    MaxNew = 1
    OrderedDir = TRUE
INVARIANTS TypeOK CrashSafe AckedSurvives ErrorChangesNothing FreshNames
PROPERTY ImplementsAtomicIndex
