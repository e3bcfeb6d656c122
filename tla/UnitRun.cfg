\* Two processes of one machine on the same unit; either may die anywhere.
SPECIFICATION Spec
CONSTANTS
    s1 = s1
    s2 = s2
    r1 = r1
    r2 = r2
    Runners <- TwoRunners
    Series <- TwoSeries
    MaxRev = 1
    Kind = "parsed"
    DesktopOwed = FALSE
    FenceMayTrip = FALSE
    MayDie = TRUE
    Runaway = FALSE
INVARIANTS TypeOK StaleHasHome VintageIsEarned OneRunPerUnit
SYMMETRY UnitSymmetry
VIEW NoStatus
