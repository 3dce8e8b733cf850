SPECIFICATION Spec
CONSTANTS
    Tcb = {t1, t2}
    Idle = idle
    NULL = null
    MaxId = 2
    Vector <- QueueVectors
    FreshTaps <- ZeroedRam
    Calls <- WaitCalls
    TapChoice <- ZombieOrNone
SYMMETRY FrameSymmetry
INVARIANTS WaitersUnfired NoLostWakeup
PROPERTIES WakeOnlyByFire
