\* A row that returns to an earlier content between two syncs.
SPECIFICATION Spec
CONSTANTS
    a = a
    b = b
    g = g
    Ids <- TwoIds
    Source <- TwoIds
    Gated = {}
    MaxRev = 2
    TitleOf <- TwoTitled
    Reverts = TRUE
INVARIANT ManifestIsHonest
