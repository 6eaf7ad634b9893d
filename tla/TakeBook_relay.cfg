CONSTANTS
    t1 = t1
    t2 = t2
    a = a
    b = b
    c = c
    None = "none"
    Takes <- MCTakes
    Hashes <- MCHashes
    Lots = 1
    MaxCalls = 1
    MaxFaults = 1
    MaxPublished = 1
    Relisted = FALSE
SPECIFICATION Spec
INVARIANTS AnsweredIsKept ReportsAreTaken PaidIsNotOffered SecretsAreApart
PROPERTY LadderKept
SYMMETRY MCAlike
CHECK_DEADLOCK FALSE
