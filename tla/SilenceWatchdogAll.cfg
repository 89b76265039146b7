\* Two recorders, sweeps that end in time, and one that fails.
CONSTANTS
    Devices = {d1, d2}
    Interval = 4
    SweepLag = 1
    BeatLag = 1
    MaxBeats = 3
    MaxFaults = 1
SPECIFICATION FairSpec
INVARIANTS
    SilentIsAnnounced
PROPERTIES
    EveryAlarmIsNews
    DarkIsAnnounced
