\* Two sightings of one camera, one of them delivered twice, over two connections.
CONSTANTS
    c1 = c1
    c2 = c2
    m1 = m1
    m2 = m2
    m3 = m3
    Conns = {c1, c2}
    Messages = {m1, m2}
    Kind <- BurstKind
    Key <- BurstKey
    Device <- BurstDevice
    Window = 1
    MaxTime = 1
    MaxAttempts <- BurstAttempts
    MaxFaults = 2
SPECIFICATION Spec
SYMMETRY ConnSymmetry
\* The recorder may have nothing left to send.
CHECK_DEADLOCK FALSE
INVARIANTS
    TypeOK
    OneAlarmPerWindow
    OneEventPerMessage
    RowsBeforePush
    MediaRowsBacked
    AcceptedIsStored
