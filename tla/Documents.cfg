CONSTANTS
    MaxPath = 2
    Inode = {i1, i2}
    Text = {x, y}
    Binary = {b}
    Unread = Unread
    MaxClock = 3
    MaxDoc = 4
    NoFile = NoFile
    MaxSegments = 3
    MaxFaults = 1
SYMMETRY Interchangeable
SPECIFICATION Spec
INVARIANTS
    Decodable
    SettledIsAccurate
    TwoUpdatesSuffice
    OneDocPerPath
PROPERTIES
    QuietUpdateConverges
    MergeKeepsDocs
    PatchesStayWithTheirDoc
CHECK_DEADLOCK FALSE
