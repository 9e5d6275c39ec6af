CONSTANTS
    MaxPath = 2
    Inode = {i1, i2}
    Text = {x, y}
    Binary = {}
    Unread = Unread
    MaxClock = 3
    MaxDoc = 5
    NoFile = NoFile
    MaxSegments = 5
    MaxFaults = 0
SYMMETRY Interchangeable
SPECIFICATION Spec
INVARIANT SettledDespiteMerges
CHECK_DEADLOCK FALSE
