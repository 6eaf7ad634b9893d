\* btc-responder-clear looks where it says it looks.
CONSTANTS
    BtcBlockSeconds = 2
    SeqBlockSeconds = 1
    UpgradeMargin = 14
    RepayMargin = 8
    ClaimMargin = 5
    TermMinimum = 2
    ClaimDepth = 2
    DisburseConf = 2
    AnchorDepth = 2
    Drift = 1
    Takes = {a}
    a = a
    MaxBtc = 14
    MaxSeq = 28
    MaxReorgs = 1
    MayVanish = {"take", "claim"}
    Lots = 1
    MaxCrashes = 1
    MaxLost = 1
    MayReplace = {"repay"}
    BorrowerReports = FALSE
    RelayTells = TRUE
    OperatorLooks = FALSE
    OperatorClears = TRUE
    MaxLate = 1
    LenderPrompt = FALSE
    BorrowerPrompt = FALSE
    Loan <- MCLoan
SPECIFICATION Spec
INVARIANT PaidOnce
CHECK_DEADLOCK FALSE
