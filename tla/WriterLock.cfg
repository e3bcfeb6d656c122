\* Three pids, one of them the lane that is never killed, the others killed
\* anywhere and reused once; the pause long enough.
SPECIFICATION LiveSpec
CONSTANTS
    p1 = p1
    p2 = p2
    p3 = p3
    Pids <- Pids3
    MaxGen = 2
    Steady <- Lane
    PsutilMayFail = FALSE
    PauseCovers = TRUE
    NoLateReplace = TRUE
INVARIANTS
    TypeOK
    MutualExclusion
    HolderIsNamed
PROPERTIES
    ReleaseOnlyOwn
    StaleIsReclaimed
