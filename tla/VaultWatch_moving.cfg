\* Blocks and transactions arrive inside a poll, requests come between the
\* polls, and either a question goes unanswered or the chain is reorganised,
\* which may first be seen as a shorter chain.
CONSTANTS
    MaxHeight = 4
    MaxForks = 1
    MaxDepth = 2
    MaxEvictions = 0
    MinDepth = 2
    RescanDepth = 4
    MaxFails = 1
    PoolMayFail = TRUE
    MidPoll = {"mine", "pool"}
    QuietPolls = 1
    MaxRestarts = 0
    MayRequest = TRUE
    ShorterChains = TRUE
    None = "none"
    Txs <- MCTxs
    Coins <- MCCoins
    Spends <- MCSpends
    Makes <- MCMakes
SPECIFICATION Spec
INVARIANTS TypeOK PairNamesFunding PollTellsTruth UndoneIsNoticed
CONSTRAINT Apart
