\* One loan, responder at most a block late, fair and dying once, borrower prompt.
CONSTANTS
    BtcBlockSeconds = 2
    SeqBlockSeconds = 1
    UpgradeMargin = 14
    RepayMargin = 8
    ClaimMargin = 5
    TermMinimum = 2
    ClaimDepth = 2
    DisburseConf = 2
    AnchorDepth = 2
    Drift = 1
    Takes = {a}
    a = a
    MaxBtc = 14
    MaxSeq = 28
    MaxReorgs = 1
    MayVanish = {}
    Lots = 1
    MaxCrashes = 1
    MaxLost = 1
    MayReplace = {}
    BorrowerReports = TRUE
    RelayTells = TRUE
    OperatorLooks = TRUE
    OperatorClears = FALSE
    MaxLate = 1
    LenderPrompt = TRUE
    BorrowerPrompt = TRUE
    Loan <- MCLoan
SPECIFICATION FairSpec
INVARIANTS LenderWhole BorrowerWhole
PROPERTIES PrincipalSettled ClaimIsPublished
CHECK_DEADLOCK FALSE
