SPECIFICATION Spec
CONSTANTS
    blue = blue
    green = green
    w1 = w1
    w2 = w2
    r1 = r1
    r2 = r2
    Works <- TwoWorks
    Targets <- BlueGreen
    First = blue
    Requests <- OneReq
    MaxGen = 3
    Misread = TRUE
    SettleCovers = TRUE
    Interrupts = FALSE
SYMMETRY Perms
INVARIANT
    OldOneStopped
CHECK_DEADLOCK FALSE
