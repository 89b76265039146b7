\* An acknowledgement and two resolutions at once, in front of a guard's
\* console that may fall behind, leave and come back.
CONSTANTS
    r1 = r1
    r3 = r3
    r4 = r4
    c1 = c1
    c2 = c2
    Requests = {r1, r3, r4}
    Ask <- OneGuard
    None = None
    MaxFaults = 1
    Consoles = {c1, c2}
    RoleOf <- GuardAndAccounts
    QUEUE_LIMIT = 1
    MaxConnects = 2
SPECIFICATION ConsoleSpec
\* Every request may have been answered and every console closed.
CHECK_DEADLOCK FALSE
INVARIANTS
    TypeOK
    AuditExplainsRow
    ResolvedIsAcknowledged
    EventMatchesCode
    FollowsTheDesk
PROPERTIES
    EveryRequestEnds
    GoneIsForgotten
