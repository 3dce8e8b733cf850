\* Sorted maps of up to seven entries.
SPECIFICATION Spec
CONSTANTS
    Map <- Ascending
    Unit = 16
    Ratio = 4
    PAGE = 4
    PinionEnd = 4
    MmapRoom = 6
    LowRoom = 3
    HighRoom = 3
INVARIANT SortedPrivate AllOffered OverrunOnlyIfMany
PROPERTY BootEnds
CHECK_DEADLOCK FALSE
