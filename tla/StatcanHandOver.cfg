\* The hand-over when the parquet was published for an earlier release.
SPECIFICATION SpecNew
CONSTANTS
    c1 = c1
    c2 = c2
    Cubes <- OneCube
    MaxRel = 3
    QuarantineAfter = 2
    LaneFaults = FALSE
    ToolStops = TRUE
    PublishLands = FALSE
INVARIANTS MergedIsInStore
