\* A manifest seeded from the measured rows vouches for unmeasured index rows.
SPECIFICATION Spec
CONSTANTS
    a = a
    b = b
    g = g
    Ids <- TwoIds
    Source <- TwoIds
    Gated = {}
    MaxRev = 2
    TitleOf <- TwoTitled
    Reverts = FALSE
INVARIANT SeedIsComplete
