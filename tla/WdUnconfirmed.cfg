SPECIFICATION Spec
CONSTANTS
    Ids = {w1}
    Tokens = {t1}
    Operators = {}
    Callbacks = {}
    Kinds = {"token"}
    Boots <- FullBoot
    MaxAttempts = 2
    MaxFaults = 0
    MaxRestarts = 0
    MaxRequeues = 0
    NoId = NoId
    NoToken = NoToken

PROPERTY
    SettledAfterConfirmation
