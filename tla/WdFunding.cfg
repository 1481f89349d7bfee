SPECIFICATION Spec
CONSTANTS
    Ids = {w1, w2}
    Tokens = {t1, t2}
    Operators = {}
    Callbacks = {c1, c2}
    Kinds = {"token", "request", "lightning"}
    Boots <- WalletBoots
    MaxAttempts = 2
    MaxFaults = 1
    MaxRestarts = 1
    MaxRequeues = 0
    NoId = NoId
    NoToken = NoToken
SYMMETRY Interchangeable
INVARIANTS
    IndInv
    PayoutBacked
    OneTokenOnePayout
PROPERTIES
    TokenIsKept
    ImplementsLedger
