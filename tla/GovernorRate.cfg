CONSTANTS
    CAPACITY = 2
    RATE = 1
    WORK = 1
    IDLE = 1
    POWER_BACKOFF = 3
    MEMORY_PRESSURE_PERCENT = 90
    NoMeminfo = NoMeminfo
    Reading <- Mains
    Plan <- Plans
    MaxTime = 6

SPECIFICATION Spec
INVARIANTS ByteRateCapped
CHECK_DEADLOCK FALSE
