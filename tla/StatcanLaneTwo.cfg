\* Two cubes that compete for the lane, one release of each, every failure; a step
\* that is retried does not fail every time.
SPECIFICATION LiveSpec
CONSTANTS
    c1 = c1
    c2 = c2
    Cubes <- TwoCubes
    MaxRel = 1
    QuarantineAfter = 2
    LaneFaults = TRUE
INVARIANTS TypeOK LooksServedIsServed QuarantineIsCurrent MergedIsInStore
PROPERTIES EveryReleaseSettles
