SPECIFICATION FairSpec
CONSTANTS
    Ids = {d1}
    Operators = {o1}
    Pickups = {p1}
    Amounts = {2}
    MaxSats = 3
    MaxAttempts = 2
    MaxFaults = 1
    MaxRestarts = 1
    NoId = NoId

PROPERTIES
    UnpaidIsReleased
    ConfirmedIsServed
