SPECIFICATION Spec
CONSTANTS
    Tcb = {t1, t2}
    Idle = idle
    NULL = null
    MaxId = 2
    Vector <- QueueVectors
    FreshTaps <- ZeroedRam
    Calls <- ExitCalls
    TapChoice <- NoTaps
SYMMETRY FrameSymmetry
INVARIANTS ExitNeverReturns
