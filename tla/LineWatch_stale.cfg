CONSTANTS
    MaxHeight = 13
    MaxForks = 0
    MaxDepth = 0
    MaxEvictions = 1
    Below = 10
    MaxUnseen = 2
    MaxFaults = 0
    PoolMayFail = FALSE
    MidPoll = {}
    AnyCoin = FALSE
    ShorterChains = FALSE
    Debt = 2
    None = None
    Txs <- MCTxs
    Coins <- MCCoins
    OfferCoins <- MCOfferCoins
    VaultCoins <- MCVaultCoins
    Spends <- MCSpends
    Makes <- MCMakes
    Lock <- MCLock
    Kinds <- MCTakeOnly
SPECIFICATION Spec
PROPERTIES GhostsAreGone
CHECK_DEADLOCK FALSE
