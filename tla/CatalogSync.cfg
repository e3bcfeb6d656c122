\* Two series of one source, one with a title that changes; files that commit
\* unanswered, stops anywhere, ids queued at any moment, seeds of measured rows.
SPECIFICATION FairSpec
CONSTANTS
    a = a
    b = b
    g = g
    Ids <- TwoIds
    Source <- TwoIds
    Gated = {}
    MaxRev = 2
    TitleOf <- TwoTitled
    Reverts = FALSE
INVARIANTS TypeOK IndexOnce ManifestIsHonest NothingForgotten
PROPERTY QueuedIsShown
