\* Two requests at a time, over the life of three tokens of one user.
CONSTANTS
    MaxTokens = 3
    RefreshTTL = 1
    MaxTime = 1
    Requests = {r1, r2}
    MaxChanges = 1
SPECIFICATION SessionsSpec
\* Every token may have been used.
CHECK_DEADLOCK FALSE
INVARIANTS
    OneLiveToken
    ReuseEndsTheFamily
PROPERTIES
    KeepsTheRules
