\* The hand-over of a cube whose merge was published and not recorded: taken to be
\* served, with the CSVs of the tool's own table.
SPECIFICATION SpecNew
CONSTANTS
    c1 = c1
    c2 = c2
    Cubes <- OneCube
    MaxRel = 2
    QuarantineAfter = 2
    LaneFaults = TRUE
    ToolStops = TRUE
    PublishLands = TRUE
INVARIANTS LooksServedIsAlwaysServed
