\* Does a pull that stops half way keep the log it was setting aside?
SPECIFICATION Spec
CONSTANTS
    desktop = desktop
    runner = runner
    r1 = r1
    r2 = r2
    Machines <- TwoMachines
    Ephemeral <- NoRunner
    Runs <- TwoRuns
    Floor = 2
    MayLose = FALSE
    MayStopHalf = TRUE
SYMMETRY RunSymmetry
PROPERTIES
    LogIsKept
