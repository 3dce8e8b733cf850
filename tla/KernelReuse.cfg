SPECIFICATION Spec
CONSTANTS
    Tcb = {t1, t2}
    Idle = idle
    NULL = null
    MaxId = 2
    Vector <- QueueVectors
    FreshTaps <- ZeroedRam
    Calls <- WaitCalls
    TapChoice <- ZombieTap
SYMMETRY FrameSymmetry
PROPERTIES NewTcbInitialised
