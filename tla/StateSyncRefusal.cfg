\* Does exit 2 mean that nothing was written?
SPECIFICATION Spec
CONSTANTS
    desktop = desktop
    runner = runner
    r1 = r1
    r2 = r2
    Machines <- TwoMachines
    Ephemeral <- NoRunner
    Runs <- TwoRuns
    Floor = 2
    MayLose = FALSE
    MayStopHalf = FALSE
SYMMETRY RunSymmetry
PROPERTIES
    RefusalWroteNothing
