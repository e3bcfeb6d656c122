\* Two processes, no failure at all.
SPECIFICATION Spec
CONSTANTS
    s1 = s1
    s2 = s2
    r1 = r1
    r2 = r2
    Runners <- TwoRunners
    Series <- OneSeries
    MaxRev = 2
    Kind = "parsed"
    DesktopOwed = FALSE
    FenceMayTrip = FALSE
    MayDie = FALSE
    Runaway = FALSE
PROPERTIES LastObsNeverRegresses

