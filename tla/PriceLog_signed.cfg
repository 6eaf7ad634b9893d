CONSTANTS
    MaxTime = 3
    MaxPieces = 4
    TailPieces = 2
    MaxCrashes = 1
    MaxCut = 1
    CutBy = {"crash"}
    FeedMay = {}
    None = none
    gold = gold
    oil = oil
    Markets <- MCMarkets
    Prices = {1}
SPECIFICATION Spec
INVARIANTS Auditable Pinned NewestKnown
PROPERTY AppendOnly
SYMMETRY MCAlike
CHECK_DEADLOCK FALSE
