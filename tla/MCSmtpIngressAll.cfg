\* Four requests, two at a time; a minute of two ticks that takes two mails.
CONSTANTS
    Users = {"ann", "gus", "omar"}
    Tenant <- MCTenant
    Role <- MCRole
    FirstTenant = "t1"
    Phones = {"phone1"}
    Requests = {r1, r2}
    MaxRequests = 4
    MaxRows = 2
    MaxChannel = 2
    Limit = 2
    Minute = 2
SPECIFICATION Spec
\* The requests of a behaviour come to an end.
CHECK_DEADLOCK FALSE
INVARIANTS
    AuditTellsArmed
    ZonesAreOneSet
    PhoneFollowsItsUser
    ShownPairWorks
PROPERTIES
    RetryGetsIn
