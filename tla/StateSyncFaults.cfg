\* The same machines, one run; state.db may be lost, a pull may stop half way.
SPECIFICATION Spec
CONSTANTS
    desktop = desktop
    runner = runner
    r1 = r1
    r2 = r2
    Machines <- TwoMachines
    Ephemeral <- NoRunner
    Runs <- OneRun
    Floor = 1
    MayLose = TRUE
    MayStopHalf = TRUE
INVARIANT NoForeignLog
PROPERTY NoWipe
