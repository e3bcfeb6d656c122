\* Can a state.db that is lost after the shrink guard wipe the store?
SPECIFICATION Spec
CONSTANTS
    desktop = desktop
    runner = runner
    r1 = r1
    r2 = r2
    Machines <- TwoMachines
    Ephemeral <- NoRunner
    Runs <- OneRun
    Floor = 1
    MayLose = TRUE
    MayStopHalf = FALSE
PROPERTIES
    NoWipeAtAll
