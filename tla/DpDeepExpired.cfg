SPECIFICATION FairSpec
CONSTANTS
    Ids = {d1}
    Operators = {}
    Pickups = {}
    Amounts = {1}
    MaxSats = 1
    MaxAttempts = 2
    MaxFaults = 0
    MaxRestarts = 0
    NoId = NoId

PROPERTY DeepIsMinted
