CONSTANTS
    MaxHeight = 6
    MaxForks = 1
    MaxDepth = 1
    MaxEvictions = 1
    MinDepth = 2
    RescanDepth = 6
    MaxFails = 1
    PoolMayFail = FALSE
    MidPoll = {}
    QuietPolls = 3
    MaxRestarts = 1
    MaxPublished = 1
    MayDelist = TRUE
    FromBoard = TRUE
    LateRemainders = FALSE
    ShorterChains = FALSE
    None = "none"
    Refunds = {"refund"}
    FirstCoin = "whole"
    Txs <- MCTxs
    Coins <- MCCoins
    Spends <- MCSpends
    Makes <- MCMakes
SPECIFICATION Spec
CONSTRAINT OneKind
INVARIANTS BoardIsShelf TakesAreBooked
