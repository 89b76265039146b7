\* The retry of a delivery that failed.
CONSTANTS
    c1 = c1
    c2 = c2
    m1 = m1
    m2 = m2
    m3 = m3
    Conns = {c1}
    Messages = {m1, m2}
    Kind <- BurstKind
    Key <- BurstKey
    Device <- BurstDevice
    Window = 1
    MaxTime = 1
    MaxAttempts <- BurstAttempts
    MaxFaults = 1
SPECIFICATION Spec
\* The recorder may have nothing left to send.
CHECK_DEADLOCK FALSE
INVARIANTS
    RetryKeepsTheAlarm
