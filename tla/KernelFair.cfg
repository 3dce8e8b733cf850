SPECIFICATION FairSpec
CONSTANTS
    Tcb = {t1, t2, t3}
    Idle = idle
    NULL = null
    MaxId = 3
    Vector <- QueueVectors
    FreshTaps <- ZeroedRam
    Calls <- RunCalls
    TapChoice <- NoTaps
PROPERTIES NoStarvation
