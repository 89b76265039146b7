\* A guard's console is open when the mail worker raises an alarm.
CONSTANTS
    r1 = r1
    r3 = r3
    r4 = r4
    c1 = c1
    c2 = c2
    Requests = {}
    Ask <- Nobody
    None = None
    MaxFaults = 0
    Consoles = {c1, c2}
    RoleOf <- GuardAndAccounts
    QUEUE_LIMIT = 1
    MaxConnects = 1
SPECIFICATION ConsoleSpec
CHECK_DEADLOCK FALSE
INVARIANTS
    NewAlarmAppears
