\* The other branches of the flow.
CONSTANTS
    c1 = c1
    c2 = c2
    m1 = m1
    m2 = m2
    m3 = m3
    Conns = {c1, c2}
    Messages = {m1, m2, m3}
    Kind <- MixedKind
    Key <- MixedKey
    Device <- MixedDevice
    Window = 1
    MaxTime = 1
    MaxAttempts <- MixedAttempts
    MaxFaults = 1
SPECIFICATION FairSpec
\* The recorder may have nothing left to send.
CHECK_DEADLOCK FALSE
INVARIANTS
    FaceLeavesNoTrace
PROPERTIES
    EveryDeliveryEnds
