SPECIFICATION Spec
CONSTANTS
    Ids = {w1}
    Tokens = {t1}
    Operators = {o1, o2}
    Callbacks = {}
    Kinds = {"token"}
    Boots <- AllBoots
    MaxAttempts = 2
    MaxFaults = 1
    MaxRestarts = 2
    MaxRequeues = 1
    NoId = NoId
    NoToken = NoToken
SYMMETRY Interchangeable
INVARIANTS
    TypeOK
    PayoutsAccounted
    QueuedHasAttemptLeft
    AnnouncedOnce
