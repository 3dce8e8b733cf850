\* Page tables of two entries with memory for seven more tables.
SPECIFICATION SpecMap
CONSTANTS
    N = 2
    Limit = 10
    NONE <- MCNone
    Frame <- MCFrame
    Region <- MCRegion
    Flags <- MCFlags
INVARIANT TreeOK PinionKept
PROPERTY RefinesPageMap
CHECK_DEADLOCK FALSE
