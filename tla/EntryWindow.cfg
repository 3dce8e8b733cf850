\* Fairness needs the full state space: no symmetry.
SPECIFICATION FairSpec
CONSTANTS
    Thread = {t1, t2}
    Idle = idle
    MayBlock = FALSE
PROPERTY YieldReturns
