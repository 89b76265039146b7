------------------------------ MODULE AlarmDesk ------------------------------
(***************************************************************************)
(* POST /alarms/{id}/acknowledge and /resolve on one alarm, by people who  *)
(* tap at the same time.  Each request has a session of its own: it loads  *)
(* the row, decides on what it loaded, publishes a status frame, and its   *)
(* changed columns reach the row when the session is flushed and committed *)
(* at the end of the request (get_session).  PostgreSQL runs at read       *)
(* committed: the second of two updates waits for the first to commit and  *)
(* then applies its own columns to the new row.                            *)
(***************************************************************************)
EXTENDS Naturals, FiniteSets

CONSTANTS
    Requests,  \* the requests, each by a person of its own
    Ask,       \* Ask[r]: "acknowledge", or the resolution code of a resolve
    None,      \* NULL
    MaxFaults  \* bound: requests whose commit fails

ResolutionCodes == {"TRUE_SECURITY_INCIDENT", "FALSE_POSITIVE", "WEATHER"}

ASSUME DeskAssumption ==
    /\ Ask \in [Requests -> {"acknowledge"} \cup ResolutionCodes]
    /\ None \notin Requests \cup ResolutionCodes
    /\ MaxFaults \in Nat

VARIABLES
    alarm,   \* the committed alarms row; *_by stands for *_at too
    event,   \* the committed events.status
    audit,   \* committed audit_logs rows: actor and resolution code
    frames,  \* alarm_status frames published to the hub
    pc,      \* where each request is, or how it ended
    backfill,\* backfill[r]: resolve found the alarm unacknowledged
    faults

vars == <<alarm, event, audit, frames, pc, backfill, faults>>

AlarmStatuses == {"ALERTED", "ACKNOWLEDGED", "RESOLVED"}
Ended == {"ok", "already", "conflict", "failed"}

TypeOK ==
    /\ alarm \in [status : AlarmStatuses,
                  acknowledged_by : Requests \cup {None},
                  resolved_by : Requests \cup {None},
                  resolution_code : ResolutionCodes \cup {None}]
    /\ event \in {"ALERTED", "RESOLVED", "FALSE_POSITIVE"}
    /\ audit \subseteq [actor : Requests, code : ResolutionCodes \cup {None}]
    /\ frames \subseteq [status : AlarmStatuses, actor : Requests]
    /\ pc \in [Requests -> {"new", "loaded", "committing"} \cup Ended]
    /\ backfill \in [Requests -> BOOLEAN]
    /\ faults \in 0..MaxFaults

Init ==
    /\ alarm = [status |-> "ALERTED", acknowledged_by |-> None,
                resolved_by |-> None, resolution_code |-> None]
    /\ event = "ALERTED"
    /\ audit = {}
    /\ frames = {}
    /\ pc = [r \in Requests |-> "new"]
    /\ backfill = [r \in Requests |-> FALSE]
    /\ faults = 0
-----------------------------------------------------------------------------
Acknowledges(r) == Ask[r] = "acknowledge"
GoTo(r, label) == pc' = [pc EXCEPT ![r] = label]

\* Mutant: a transaction keeps its row lock after its commit.
LockedForEver(r) == \E other \in Requests \ {r} : pc[other] \in {"committing", "ok"} /\ ~Acknowledges(other)

\* resolve flushes its update when it looks the event up, and holds the lock
\* on the alarm row until it commits.
Locked(r) == \E other \in Requests \ {r} : pc[other] = "committing" /\ ~Acknowledges(other)

\* Mutant: any code that is not a true positive counts as a false positive.
StatusOfUntrue(code) ==
    IF code = "TRUE_SECURITY_INCIDENT" THEN "RESOLVED" ELSE "FALSE_POSITIVE"

\* Mutant: the resolution code is stored as the event's status.
StatusIsCode(code) == code

EventStatus(code) == IF code = "FALSE_POSITIVE" THEN "FALSE_POSITIVE" ELSE "RESOLVED"

\* acknowledge: an acknowledged alarm is returned as it is, a resolved one is
\* a conflict; otherwise the frame goes out before the commit.
Acknowledge(r) ==
    /\ pc[r] = "new"
    /\ Acknowledges(r)
    /\ GoTo(r, IF alarm.acknowledged_by # None THEN "already"
               ELSE IF alarm.resolved_by # None THEN "conflict" ELSE "committing")
    /\ frames' = IF pc'[r] = "committing"
                 THEN frames \cup {[status |-> "ACKNOWLEDGED", actor |-> r]}
                 ELSE frames
    /\ UNCHANGED <<alarm, event, audit, backfill, faults>>

\* resolve, up to the lookup of the event.
Resolve(r) ==
    /\ pc[r] = "new"
    /\ ~Acknowledges(r)
    /\ GoTo(r, IF alarm.resolved_by # None THEN "conflict" ELSE "loaded")
    /\ backfill' = [backfill EXCEPT ![r] = alarm.acknowledged_by = None]
    /\ UNCHANGED <<alarm, event, audit, frames, faults>>

\* The lookup flushes the alarm's update; then the frame goes out.
ResolveEvent(r) ==
    /\ pc[r] = "loaded"
    /\ ~Locked(r)
    /\ GoTo(r, "committing")
    /\ frames' = frames \cup {[status |-> "RESOLVED", actor |-> r]}
    /\ UNCHANGED <<alarm, event, audit, backfill, faults>>

AcknowledgedRow(r) ==
    [status |-> "ACKNOWLEDGED", acknowledged_by |-> r,
     resolved_by |-> alarm.resolved_by, resolution_code |-> alarm.resolution_code]

\* Mutant: a resolve leaves the acknowledgement alone.
ResolvedRowOnly(r) ==
    [status |-> "RESOLVED", acknowledged_by |-> alarm.acknowledged_by,
     resolved_by |-> r, resolution_code |-> Ask[r]]

ResolvedRow(r) ==
    [status |-> "RESOLVED",
     acknowledged_by |-> IF backfill[r] THEN r ELSE alarm.acknowledged_by,
     resolved_by |-> r, resolution_code |-> Ask[r]]

\* Mutant: only a resolve is logged.
AuditsResolve(r) == IF Acknowledges(r) THEN {} ELSE {[actor |-> r, code |-> Ask[r]]}

\* _audit.
AuditRows(r) == {[actor |-> r, code |-> IF Acknowledges(r) THEN None ELSE Ask[r]]}

\* get_session commits when the handler has returned.
Commit(r) ==
    /\ pc[r] = "committing"
    /\ ~Locked(r)
    /\ alarm' = IF Acknowledges(r) THEN AcknowledgedRow(r) ELSE ResolvedRow(r)
    /\ event' = IF Acknowledges(r) THEN event ELSE EventStatus(Ask[r])
    /\ audit' = audit \cup AuditRows(r)
    /\ GoTo(r, "ok")
    /\ UNCHANGED <<frames, backfill, faults>>

\* A statement or the commit fails: the session is rolled back, the frame is
\* not taken back.
Fail(r) ==
    /\ faults < MaxFaults
    /\ faults' = faults + 1
    /\ pc[r] \in {"loaded", "committing"}
    /\ GoTo(r, "failed")
    /\ UNCHANGED <<alarm, event, audit, frames, backfill>>
-----------------------------------------------------------------------------
Step(r) == Acknowledge(r) \/ Resolve(r) \/ ResolveEvent(r) \/ Commit(r)

Next == \E r \in Requests : Step(r) \/ Fail(r)

Spec == Init /\ [][Next]_vars

\* The event loop runs every request that is ready.
FairSpec == Spec /\ \A r \in Requests : WF_vars(Step(r))
-----------------------------------------------------------------------------
(***************************************************************************)
(* Properties.                                                             *)
(***************************************************************************)

\* Whoever the row names has a line in the audit log, and the code on the row
\* is the code that person logged, however the requests overlap (_audit).
AuditExplainsRow ==
    /\ alarm.acknowledged_by # None => \E x \in audit : x.actor = alarm.acknowledged_by
    /\ alarm.resolved_by # None =>
           [actor |-> alarm.resolved_by, code |-> alarm.resolution_code] \in audit

\* A resolved alarm is an acknowledged one, also when the acknowledgement came
\* between resolve's load and its commit (resolve backfills it).
ResolvedIsAcknowledged == alarm.resolved_by # None => alarm.acknowledged_by # None

\* The event's status and the alarm's resolution code tell the same story, so
\* they come from the same resolve: only FALSE_POSITIVE makes a false positive.
EventMatchesCode ==
    alarm.resolved_by # None =>
        event = (IF alarm.resolution_code = "FALSE_POSITIVE" THEN "FALSE_POSITIVE" ELSE "RESOLVED")

\* No request waits for another one's row lock for ever.
EveryRequestEnds == \A r \in Requests : <>(pc[r] \in Ended)
==============================================================================
