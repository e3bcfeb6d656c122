\* Desktop and CI runner, two runs, no file goes missing.
SPECIFICATION Spec
CONSTANTS
    desktop = desktop
    runner = runner
    r1 = r1
    r2 = r2
    Machines <- TwoMachines
    Ephemeral <- CiRunner
    Runs <- TwoRuns
    Floor = 2
    MayLose = FALSE
    MayStopHalf = FALSE
SYMMETRY RunSymmetry
INVARIANTS
    TypeOK
    EtagIsCovered
PROPERTIES
    NoLostUpdate
    ImplementsRegister
