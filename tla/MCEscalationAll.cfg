\* Guards and the owner hold phones; one change of phones, two lost sweeps or
\* notifications.
CONSTANTS
    a1 = a1
    Alarms = {a1}
    Severity <- OneCritical
    Pushed = {a1}
    Staff = {1, 6}
    MaxAge = 11
    SweepLag = 1
    MaxTurnover = 1
    MaxFaults = 2
SPECIFICATION FairSpec
INVARIANTS
    TypeOK
    RepageBound
    ClimbsInOrder
PROPERTIES
    ChainCompletes
