CONSTANTS
    Depth = 2
    Threshold = 15
    Plausible = 20
    Fee = 1
    DustFold = 2
    Payments = {5, 6}
    Misses <- MCMisses
    MaxHeight = 6
    MaxReorgs = 1
    MaxDrops = 1
    BorrowerDocs <- MCBorrowerDocs
    LenderDocs <- MCLenderDocs
SPECIFICATION FairSpec
INVARIANTS LiveStands BorrowerWhole LenderWhole
PROPERTY BondIsReleased
CHECK_DEADLOCK FALSE
