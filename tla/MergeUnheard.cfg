SPECIFICATION Spec
CONSTANTS
    a = a
    b = b
    None = None
    Series <- TwoSeries
    MaxDate = 1
    Vals <- TwoVals
    MaxStored = 2
    MaxNew = 3
    MaxBatch = 2
    Small = 1
    MinRatio = 60
    Unheard = TRUE
SYMMETRY ValPerms
PROPERTY
    RaisedChangedNothing
