SPECIFICATION SupervisedSpec
CONSTANTS
    Tcb = {t1, t2, t3}
    Idle = idle
    NULL = null
    MaxId = 2
    Vector <- QueueVectors
    FreshTaps <- ZeroedRam
    Calls <- SuperviseCalls
    TapChoice <- PagefaultTap
SYMMETRY FrameSymmetry
INVARIANTS FaultQueueOK NoLostWakeup TableOK
