SPECIFICATION SwapSpec
CONSTANTS
    Tokens = {t1}
    Faces = {12}
    Surpluses = {0, 1}
    InputFees = {1}
    Reserves = {1}
    LossDivisor = 3
    MaxReductions = 1
    MaxPolls = 1
    MaxAttempts = 2
    MaxProofs = 2
    MaxFaults = 0
    MaxRestarts = 0
    NoToken = NoToken
INVARIANTS
    AccountedFeePermitted
CHECK_DEADLOCK FALSE
