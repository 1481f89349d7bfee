SPECIFICATION Spec
CONSTANTS
    Ids = {d1}
    Operators = {o1}
    Pickups = {p1, p2}
    Amounts = {2}
    MaxSats = 3
    MaxAttempts = 2
    MaxFaults = 2
    MaxRestarts = 1
    NoId = NoId
SYMMETRY Interchangeable
INVARIANTS
    IndInv
    EcashAccounted
    CoveredByChain
    ReadyHasToken
    ServedOnce
    AnnouncedOnce
PROPERTIES
    ClaimIsFinal
    ImplementsEscrow
