\* One loan over its whole life, and two takes of an offer of one lot for as
\* long as two can be paid; nobody prompt, every failure.
CONSTANTS
    BtcBlockSeconds = 2
    SeqBlockSeconds = 1
    UpgradeMargin = 14
    RepayMargin = 8
    ClaimMargin = 5
    TermMinimum = 2
    ClaimDepth = 2
    DisburseConf = 2
    AnchorDepth = 2
    Drift = 1
    Takes = {a, b}
    b = b
    a = a
    MaxBtc = 10
    MaxSeq = 20
    MaxReorgs = 1
    MayVanish = {"take", "claim"}
    Lots = 1
    MaxCrashes = 1
    MaxLost = 1
    MayReplace = {"repay"}
    BorrowerReports = FALSE
    RelayTells = TRUE
    OperatorLooks = TRUE
    OperatorClears = TRUE
    MaxLate = 1
    LenderPrompt = FALSE
    BorrowerPrompt = FALSE
    Loan <- MCLoan
SPECIFICATION Spec
CONSTRAINT SecondIsEarly
SYMMETRY TakePermutations
INVARIANTS TypeOK PaidOnce PaymentRemembered RecordsBacked WithinLots
CHECK_DEADLOCK FALSE
