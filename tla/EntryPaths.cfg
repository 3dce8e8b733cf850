SPECIFICATION Spec
CONSTANTS
    Thread = {t1, t2, t3}
    Idle = idle
    MayBlock = TRUE
SYMMETRY ThreadSymmetry
INVARIANTS Entered ContextKept
