\* A fetcher that reports the merge-measured set: the unrecorded vintage is no home.
SPECIFICATION Spec
CONSTANTS
    s1 = s1
    s2 = s2
    r1 = r1
    r2 = r2
    Runners <- OneRunner
    Series <- TwoSeries
    MaxRev = 1
    Kind = "measured"
    DesktopOwed = FALSE
    FenceMayTrip = FALSE
    MayDie = FALSE
    Runaway = FALSE
INVARIANTS StaleHasHome
SYMMETRY SeriesSymmetry
