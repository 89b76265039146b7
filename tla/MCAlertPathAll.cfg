\* Up to two of six rules; a window of three ticks; one Apple phone and one
\* Android phone with three attempts each, and one phone without a transport.
CONSTANTS
    RuleRows <- MCRuleRows
    MaxRules = 2
    Sightings <- MCSightings
    Mails <- MCMails
    Window = 3
    Recipients = {"ipad", "moto", "pager"}
    Platform <- MCPlatform
    MaxAttempts = 3
    MaxRevoked = 1
SPECIFICATION AlertSpec
\* A fan-out ends; a judgement is one step.
CHECK_DEADLOCK FALSE
INVARIANTS
    LoudestRuleWins
    ArmedByOpeningDay
    IntruderIsHeard
    PushIsHonest
