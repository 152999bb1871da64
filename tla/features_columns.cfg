SPECIFICATION Spec
CONSTANTS
    Alphabet <- MCAlphabet
    Plain <- MCPlain
    MinItems = 1
    MinProfiles = 2
    MinCharged = 2
    MinComplaints = 1
    MinRows = 2
    AllowedNullPercent = 50
    ClusterRows = 4
    ManyValues = 4
    MinRecProfiles = 2
    MinRecEvents = 2
    MinRecItems = 1
    EventsCols <- MCEventsCols
    ItemsCols <- MCItemsCols
    NumRec = 2
    ChurnInputs <- MCChurnInputs
    Sweeps <- MCSweeps
    Margins = {0, 1, 3, 7}
    RecInputs <- MCRecInputs
    LaterInputs <- MCLaterInputs
    Taste <- MCTaste
    FileSizes = {1, 2, 5, 6, 16, 40}
    Limits <- MCLimits
INVARIANT ScoredByName
