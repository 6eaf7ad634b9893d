\* pignusd is restarted once, with or without --rescan-from; two questions go
\* unanswered and the mempool may drop a transaction; no reorg.  RescanDepth
\* covers the chain.
CONSTANTS
    MaxHeight = 5
    MaxForks = 0
    MaxDepth = 2
    MaxEvictions = 1
    MinDepth = 2
    RescanDepth = 5
    MaxFails = 2
    PoolMayFail = FALSE
    MidPoll = {}
    QuietPolls = 1
    MaxRestarts = 1
    MayRequest = FALSE
    ShorterChains = FALSE
    None = "none"
    Txs <- MCTxs
    Coins <- MCCoins
    Spends <- MCSpends
    Makes <- MCMakes
SPECIFICATION Spec
INVARIANTS GhostIsUndone
