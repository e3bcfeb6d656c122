\* One cube, three releases, every failure; a step that is retried does not
\* fail every time.
SPECIFICATION LiveSpec
CONSTANTS
    c1 = c1
    c2 = c2
    Cubes <- OneCube
    MaxRel = 3
    QuarantineAfter = 2
    LaneFaults = TRUE
INVARIANTS TypeOK LooksServedIsServed QuarantineIsCurrent MergedIsInStore
PROPERTIES EveryReleaseSettles
