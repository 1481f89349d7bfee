SPECIFICATION FairSpec
CONSTANTS
    Tokens = {t1, t2}
    Faces = {12}
    Surpluses = {0, 1}
    InputFees = {1}
    Reserves <- QuotedReserves
    LossDivisor = 3
    MaxReductions = 1
    MaxPolls = 1
    MaxAttempts = 2
    MaxProofs = 6
    MaxFaults = 1
    MaxRestarts = 1
    NoToken = NoToken
    FeeCeilings <- Ceilings
    MaxRounds = 2
    MaxQuotes = 2
INVARIANTS
    TypeOK
    OnlyOwnProofs
    PaidWithinLimit
    PayoutFunded
    TokenTraced
    LossWithinCeiling
    JournalNamesPayment
    LiveValueStaysActive
    CompleteIsClean
PROPERTIES
    InterruptedIsFinal
    WorkEnds
    ImplementsExchange
CHECK_DEADLOCK FALSE
