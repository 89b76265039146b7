\* One alarm, and nothing fails: an answer that arrives while a
\* sweep holds the alarm.
CONSTANTS
    a1 = a1
    Alarms = {a1}
    Severity <- OneCritical
    Pushed = {}
    Staff = {1, 6}
    MaxAge = 9
    SweepLag = 1
    MaxTurnover = 0
    MaxFaults = 0
SPECIFICATION FairSpec
PROPERTIES
    AnswerStopsTheChain
