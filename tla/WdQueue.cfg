SPECIFICATION FairSpec
CONSTANTS
    Ids = {w1, w2}
    Tokens = {t1}
    Operators = {}
    Callbacks = {}
    Kinds = {"lightning", "token"}
    Boots <- FullBoot
    MaxAttempts = 2
    MaxFaults = 2
    MaxRestarts = 1
    MaxRequeues = 0
    NoId = NoId
    NoToken = NoToken

PROPERTY
    QueuedIsServed
