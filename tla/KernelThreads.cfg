SPECIFICATION Spec
CONSTANTS
    Tcb = {t1, t2, t3}
    Idle = idle
    NULL = null
    MaxId = 3
    Vector <- QueueVectors
    FreshTaps <- ZeroedRam
    Calls <- LifeCalls
    TapChoice <- NoTaps
SYMMETRY FrameSymmetry
INVARIANTS TypeOK RunQueueOK TableOK
