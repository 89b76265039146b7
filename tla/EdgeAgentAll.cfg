\* Three parts over two connections, a recorder of two channels, and two
\* events with three media files.
CONSTANTS
    MaxParts = 3
    MaxConnects = 2
    MaxBuffer = 8
    ChannelCount = 2
    MaxSeen = 2
    Incidents = {1, 2}
    ClaimLimit = 2
    Quota = 2
    MaxMedia = 3
    MaxCrashes = 1
SPECIFICATION AgentSpec
\* A probe ends; a recorder may be silent for ever.
CHECK_DEADLOCK FALSE
INVARIANTS
    EveryEventOnce
    PassIsEarned
    ChannelsAreRight
PROPERTIES
    Drains
    EvictsTheLeast
