\* A release that repeats the table is taken to be served although its serve was
\* still owed: what statcan_lane.py:22-24 says does not hold.
SPECIFICATION Spec
CONSTANTS
    c1 = c1
    c2 = c2
    Cubes <- OneCube
    MaxRel = 3
    QuarantineAfter = 2
    LaneFaults = TRUE
INVARIANTS LooksServedIsAlwaysServed
