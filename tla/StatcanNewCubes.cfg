\* The steps of the lane and of the tool may fail, and the tool may stop anywhere,
\* even between the mirror and the store.
SPECIFICATION SpecNew
CONSTANTS
    c1 = c1
    c2 = c2
    Cubes <- OneCube
    MaxRel = 4
    QuarantineAfter = 2
    LaneFaults = TRUE
    ToolStops = TRUE
    PublishLands = FALSE
INVARIANTS TypeOKNew CatalogueBacked NewCubeIsListed LooksServedIsServed
