CONSTANTS
    MaxHeight = 3
    MaxForks = 1
    MaxDepth = 2
    MaxEvictions = 0
    Below = 3
    MaxUnseen = 2
    MaxFaults = 1
    PoolMayFail = FALSE
    MidPoll = {"pool", "post"}
    AnyCoin = FALSE
    ShorterChains = FALSE
    Debt = 2
    None = None
    Txs <- MCTxs
    Coins <- MCCoins
    OfferCoins <- MCOfferCoins
    VaultCoins <- MCVaultCoins
    Spends <- MCSpends
    Makes <- MCMakes
    Lock <- MCLock
    Kinds <- MCKinds
SPECIFICATION Spec
INVARIANTS TypeOK LinesAreTrue TakesAreLoans OneLoanPerVault
PROPERTIES GhostsAreGone RegisteredIsKept
CHECK_DEADLOCK FALSE
CONSTRAINT OneTrouble
