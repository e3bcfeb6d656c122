\* The same with a withheld series of another source; one revision of each row.
SPECIFICATION FairSpec
CONSTANTS
    a = a
    b = b
    g = g
    Ids <- AllIds
    Source <- TwoIds
    Gated <- OnlyG
    MaxRev = 1
    TitleOf <- OneTitle
    Reverts = FALSE
INVARIANTS TypeOK IndexOnce ManifestIsHonest NothingForgotten
PROPERTY QueuedIsShown
