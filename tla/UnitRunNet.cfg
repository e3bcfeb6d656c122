\* A fetcher that counts the rows it added: a revision that adds none is recorded
\* as no_change over a merge that changed the store.
SPECIFICATION Spec
CONSTANTS
    s1 = s1
    s2 = s2
    r1 = r1
    r2 = r2
    Runners <- OneRunner
    Series <- OneSeries
    MaxRev = 1
    Kind = "net"
    DesktopOwed = TRUE
    FenceMayTrip = FALSE
    MayDie = FALSE
    Runaway = FALSE
INVARIANTS StaleHasHome
