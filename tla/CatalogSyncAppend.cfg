\* Ids queued after the read of a queue that is then emptied are lost.
SPECIFICATION Spec
CONSTANTS
    a = a
    b = b
    g = g
    Ids <- TwoIds
    Source <- TwoIds
    Gated = {}
    MaxRev = 2
    TitleOf <- TwoTitled
    Reverts = FALSE
INVARIANT AppendsAreKept
