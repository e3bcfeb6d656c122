\* A merge-measured fetcher with csv_misses: desktop_owed, the fence included,
\* and leases that expire under a living owner.
SPECIFICATION Spec
CONSTANTS
    s1 = s1
    s2 = s2
    r1 = r1
    r2 = r2
    Runners <- TwoRunners
    Series <- OneSeries
    MaxRev = 1
    Kind = "measured"
    DesktopOwed = TRUE
    FenceMayTrip = TRUE
    MayDie = FALSE
    Runaway = TRUE
INVARIANTS StaleHasHome
PROPERTIES LeaseKeptByOthers
SYMMETRY UnitSymmetry
