SPECIFICATION FairSpec
CONSTANTS
    h1 = h1
    h2 = h2
    Users = {h1, h2}
    Refill = refill
    Ids <- MCIds
    FirstDeposit = 1
    Target = 2
    MaxIndex = 12
    NoId = NoId
    Operators = {operator}
    Escalations = {escalation}
    Monitor = monitor
    Sessions = {s1}
    NoSession = NoSession
    Withdrawals = {w1, w2, w3}
    MaxPerSession = 1
    MaxGlobal = 2
    MaxMessages = 1
    Amounts = {1, 2}
    Fees = {1}
    Float = 4
    MaxUnseen = 2
    CapParts = 2
    Casts <- MCCasts
    MaxRestarts = 1
INVARIANTS
    FdTypeOK
    AddressNotShared
    RefillBounded
    LimitsHold
    FloatCovered
    ModeSaved
PROPERTIES
    DoorShuts
    RequestsAnswered
CHECK_DEADLOCK FALSE
