CONSTANTS
    Limit = 32
    DefaultMax = 4
    NoAtt = NoAtt
    C = "C"
    D = "D"
    F = "F"
    RateScale = 2
    FeeRef = 1
    DustRef = 2
    PrepMin = 3
    Overfund = 1
    Lots = 2
    MaxHeight = 2
    MaxTries = 2
    Rate <- MCRate
    Candidates <- MCCandidates
    Wallets <- MCWallets
    Attestations <- MCAttestations
SPECIFICATION Spec
INVARIANTS OpensItsLeaf NodeAccepts SeizedIsGross EvidenceAtItsBest OnlyFeeCoinsRunShort
CHECK_DEADLOCK FALSE
