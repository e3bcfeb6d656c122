\* Even when 0.2 s is always enough, a lock created under a racer is lost.
SPECIFICATION Spec
CONSTANTS
    p1 = p1
    p2 = p2
    p3 = p3
    Pids <- Pids3
    MaxGen = 2
    Steady <- NoSteady
    PsutilMayFail = TRUE
    PauseCovers = TRUE
    NoLateReplace = FALSE
INVARIANT MutualExclusion
