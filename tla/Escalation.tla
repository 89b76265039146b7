----------------------------- MODULE Escalation -----------------------------
(***************************************************************************)
(* The escalation worker: every ten seconds it loads the alarms nobody has *)
(* answered, asks each policy which steps are due, pages the phones of     *)
(* each step and records the deliveries, all in one transaction that is    *)
(* committed at the end of the sweep.  It runs beside the ingest worker's  *)
(* PushNotifier, which pages the first step when the alarm opens, and      *)
(* beside the people who answer alarms and register phones.                *)
(*                                                                         *)
(* Time is in units of thirty seconds.  Steps are numbered from 1: step 1  *)
(* is escalation_step 0 of the code.                                       *)
(***************************************************************************)
EXTENDS Integers, FiniteSets, Sequences

CONSTANTS
    Alarms,
    Severity,    \* Severity[a]: "CRITICAL" or "HIGH" (any other severity)
    Pushed,      \* alarms whose rule pushes: the notifier pages them at once
    Staff,       \* roles that hold a phone to begin with
    MaxAge,      \* MAX_AGE_SECONDS
    SweepLag,    \* longest time from the end of a sweep to the end of the next
    MaxTurnover, \* bound: phones registered, unregistered or pruned
    MaxFaults    \* bound: failed sweeps and failed notifications

(***************************************************************************)
(* Roles by seniority.  ROLE_FALLBACK[r] lists the roles above r.          *)
(***************************************************************************)
GUARD == 1
SITE_MANAGER == 3
SECURITY_MANAGER == 4
OWNER == 6
Roles == 1..6

DEFAULT_POLICY ==
    << [after |-> 0, role |-> GUARD],
       [after |-> 2, role |-> SITE_MANAGER],
       [after |-> 6, role |-> SECURITY_MANAGER] >>
CRITICAL_POLICY ==
    << [after |-> 0, role |-> GUARD],
       [after |-> 1, role |-> SITE_MANAGER],
       [after |-> 3, role |-> SECURITY_MANAGER],
       [after |-> 8, role |-> OWNER] >>

PolicyFor(a) == IF Severity[a] = "CRITICAL" THEN CRITICAL_POLICY ELSE DEFAULT_POLICY
Steps == 1..4
Unopened == -1

ASSUME EscalationAssumption ==
    /\ Severity \in [Alarms -> {"CRITICAL", "HIGH"}]
    /\ Pushed \subseteq Alarms
    /\ Staff \subseteq Roles
    /\ MaxAge \in Nat /\ MaxAge > 8
    /\ SweepLag \in Nat \ {0}
    /\ MaxTurnover \in Nat
    /\ MaxFaults \in Nat

VARIABLES
    age,        \* time since opened_at, cut off above MaxAge
    stopped,    \* alarms acknowledged or resolved, committed
    deliveries, \* committed alarm_deliveries, by alarm and step
    staffed,    \* roles that hold a registered phone
    notifier,   \* the PushNotifier.notify call of each alarm
    phase,      \* "idle" or "sweeping"
    seen,       \* the sweep's `now` minus each opened_at
    todo,       \* loaded alarms the sweep has not come to
    due,        \* steps due_steps returned for the alarm at hand, unpaged
    staged,     \* deliveries flushed and not committed
    gone,       \* roles whose phones the sweep deleted, not committed
    pages,      \* pages[<<a, k>>]: times a sweep has paged step k of a
    lost,       \* history: sweeps that ended without a commit
    lag,        \* time since a sweep last ended
    turnover,
    faults

sweep == <<phase, seen, todo, due, staged, gone>>
vars == <<age, stopped, deliveries, staffed, notifier, sweep, pages,
          lost, lag, turnover, faults>>

AlarmSteps == Alarms \X Steps

TypeOK ==
    /\ age \in [Alarms -> Unopened..(MaxAge + 1)]
    /\ stopped \subseteq Alarms
    /\ deliveries \subseteq AlarmSteps
    /\ staffed \subseteq Roles
    /\ notifier \in [Alarms -> {"off", "pending", "sending", "ended"}]
    /\ phase \in {"idle", "sweeping"}
    /\ seen \in [Alarms -> Unopened..(MaxAge + 1)]
    /\ todo \subseteq Alarms
    /\ due \subseteq AlarmSteps
    /\ staged \subseteq AlarmSteps
    /\ gone \subseteq Roles
    /\ pages \in [AlarmSteps -> Nat]
    /\ lost \in Nat
    /\ lag \in Nat
    /\ turnover \in Nat
    /\ faults \in Nat

Init ==
    /\ age = [a \in Alarms |-> Unopened]
    /\ stopped = {}
    /\ deliveries = {}
    /\ staffed = Staff
    /\ notifier = [a \in Alarms |-> "off"]
    /\ phase = "idle"
    /\ seen = [a \in Alarms |-> Unopened]
    /\ todo = {} /\ due = {} /\ staged = {} /\ gone = {}
    /\ pages = [d \in AlarmSteps |-> 0]
    /\ lost = 0 /\ lag = 0 /\ turnover = 0 /\ faults = 0
-----------------------------------------------------------------------------
(***************************************************************************)
(* Alarms open, are answered and grow old; people change phones.           *)
(***************************************************************************)

\* persist_flow (or the watchdog) has committed a new alarm row.
Open(a) ==
    /\ age[a] = Unopened
    /\ age' = [age EXCEPT ![a] = 0]
    /\ notifier' = [notifier EXCEPT ![a] = IF a \in Pushed THEN "pending" ELSE "off"]
    /\ UNCHANGED <<stopped, deliveries, staffed, sweep, pages, lost, lag, turnover, faults>>

\* A person's acknowledgement or resolution is committed.
Stop(a) ==
    /\ age[a] # Unopened
    /\ a \notin stopped
    /\ stopped' = stopped \cup {a}
    /\ UNCHANGED <<age, deliveries, staffed, notifier, sweep, pages,
                   lost, lag, turnover, faults>>

\* A first phone of a role is registered, or its last one removed.
Register(r) ==
    /\ turnover < MaxTurnover
    /\ turnover' = turnover + 1
    /\ r \notin staffed
    /\ staffed' = staffed \cup {r}
    /\ UNCHANGED <<age, stopped, deliveries, notifier, sweep, pages,
                   lost, lag, faults>>

Unregister(r) ==
    /\ turnover < MaxTurnover
    /\ turnover' = turnover + 1
    /\ r \in staffed
    /\ staffed' = staffed \ {r}
    /\ UNCHANGED <<age, stopped, deliveries, notifier, sweep, pages,
                   lost, lag, faults>>

\* Ages above MaxAge are not told apart: open_alarms drops them all.
Tick ==
    /\ lag < SweepLag
    /\ lag' = lag + 1
    /\ age' = [a \in Alarms |-> IF age[a] \in {Unopened, MaxAge + 1} THEN age[a] ELSE age[a] + 1]
    /\ UNCHANGED <<stopped, deliveries, staffed, notifier, sweep, pages,
                   lost, turnover, faults>>
-----------------------------------------------------------------------------
(***************************************************************************)
(* PushNotifier.notify, in the ingest worker: it pages every phone of the  *)
(* tenant as step 1 and commits the rows, whatever has become of the alarm.*)
(***************************************************************************)
NotifierSend(a) ==
    /\ notifier[a] = "pending"
    /\ notifier' = [notifier EXCEPT ![a] = IF staffed = {} THEN "ended" ELSE "sending"]
    /\ UNCHANGED <<age, stopped, deliveries, staffed, sweep, pages, lost,
                   lag, turnover, faults>>

\* The rows and the deletion of phones the provider no longer knows.
NotifierCommit(a) ==
    /\ notifier[a] = "sending"
    /\ notifier' = [notifier EXCEPT ![a] = "ended"]
    /\ deliveries' = deliveries \cup {<<a, 1>>}
    /\ \/ UNCHANGED <<staffed, turnover>>
       \/ /\ turnover < MaxTurnover
          /\ turnover' = turnover + 1
          /\ \E r \in staffed : staffed' = staffed \ {r}
    /\ UNCHANGED <<age, stopped, sweep, pages, lost, lag, faults>>

\* intake.handle logs a failed notification and moves on.
NotifierFail(a) ==
    /\ faults < MaxFaults
    /\ faults' = faults + 1
    /\ notifier[a] \in {"pending", "sending"}
    /\ notifier' = [notifier EXCEPT ![a] = "ended"]
    /\ UNCHANGED <<age, stopped, deliveries, staffed, sweep, pages,
                   lost, lag, turnover>>
-----------------------------------------------------------------------------
(***************************************************************************)
(* sweep_once.                                                             *)
(***************************************************************************)

\* open_alarms, with EscalationState.is_stopped: the rows are read once and
\* not read again.
OpenAlarms == {a \in Alarms \ stopped : age[a] \in 0..MaxAge}

SweepBegin ==
    /\ phase = "idle"
    /\ phase' = "sweeping"
    /\ seen' = age
    /\ todo' = OpenAlarms
    /\ UNCHANGED <<age, stopped, deliveries, staffed, notifier, due,
                   staged, gone, pages, lost, lag, turnover, faults>>

\* Mutant: the steps already recorded are not left out.
DueIgnoringRecords(a) ==
    {<<a, k>> : k \in {k \in DOMAIN PolicyFor(a) : seen[a] >= PolicyFor(a)[k].after}}

\* Mutant: the steps are numbered one too high.
DueOneHigher(a) ==
    {<<a, k + 1>> : k \in {k \in DOMAIN PolicyFor(a) : seen[a] >= PolicyFor(a)[k].after}}

\* due_steps, over the rows the session sees: the committed ones and its own.
DueSteps(a) ==
    {<<a, k>> : k \in {k \in DOMAIN PolicyFor(a) :
                          /\ seen[a] >= PolicyFor(a)[k].after
                          /\ <<a, k>> \notin deliveries \cup staged}}

\* escalate_alarm begins, newest alarm first.
SweepAlarm ==
    /\ phase = "sweeping"
    /\ due = {}
    /\ \E a \in todo :
          /\ \A b \in todo : seen[a] <= seen[b]
          /\ todo' = todo \ {a}
          /\ due' = DueSteps(a)
    /\ UNCHANGED <<age, stopped, deliveries, staffed, notifier, phase,
                   seen, staged, gone, pages, lost, lag, turnover, faults>>

\* Mutant: only the step's own role is looked up.
AudienceWithoutFallback(d) == {PolicyFor(d[1])[d[2]].role} \cap (staffed \ gone)

\* recipients_for_role: the step's role or, if it holds no phone, the first
\* role above it that does; empty if there is none.
Audience(d) ==
    LET able == {r \in staffed \ gone : r >= PolicyFor(d[1])[d[2]].role}
    IN  {r \in able : \A s \in able : r <= s}

\* Mutant: the steps are taken from the last to the first.
LatestDue(d) == d \in due /\ \A e \in due : e[2] <= d[2]

NextDue(d) == d \in due /\ \A e \in due : d[2] <= e[2]

\* No phone in the role or above it: mark_delivered only changes the state
\* object of this sweep.
ReachesNobody ==
    /\ phase = "sweeping"
    /\ \E d \in due :
          /\ NextDue(d)
          /\ Audience(d) = {}
          /\ due' = due \ {d}
    /\ UNCHANGED <<age, stopped, deliveries, staffed, notifier, phase,
                   seen, todo, staged, gone, pages, lost, lag, turnover, faults>>

\* PushDispatcher.dispatch: the phones are paged, a row is added for each
\* whatever became of it, and the phones the provider has dropped are deleted.
Page ==
    /\ phase = "sweeping"
    /\ \E d \in due :
          /\ NextDue(d)
          /\ \E r \in Audience(d) :
                \/ UNCHANGED <<gone, turnover>>
                \/ turnover < MaxTurnover /\ turnover' = turnover + 1 /\ gone' = gone \cup {r}
          /\ pages' = [pages EXCEPT ![d] = @ + 1]
          /\ staged' = staged \cup {d}
          /\ due' = due \ {d}
    /\ UNCHANGED <<age, stopped, deliveries, staffed, notifier, phase,
                   seen, todo, lost, lag, faults>>

\* The dropped phone has meanwhile been unregistered: session.delete(None)
\* raises, the row already added stays in the session, and the rest of this
\* alarm's steps wait for the next sweep.
PageRaises ==
    /\ phase = "sweeping"
    /\ turnover < MaxTurnover
    /\ turnover' = turnover + 1
    /\ \E d \in due :
          /\ NextDue(d)
          /\ \E r \in Audience(d) : staffed' = staffed \ {r}
          /\ pages' = [pages EXCEPT ![d] = @ + 1]
          /\ staged' = staged \cup {d}
    /\ due' = {}
    /\ UNCHANGED <<age, stopped, deliveries, notifier, phase, seen, todo,
                   gone, lost, lag, faults>>

SweepOver ==
    /\ phase' = "idle"
    /\ todo' = {} /\ due' = {} /\ staged' = {} /\ gone' = {}
    /\ lag' = 0

SweepCommit ==
    /\ phase = "sweeping"
    /\ todo = {} /\ due = {}
    /\ deliveries' = deliveries \cup staged
    /\ staffed' = staffed \ gone
    /\ SweepOver
    /\ UNCHANGED <<age, stopped, notifier, seen, pages, lost,
                   turnover, faults>>

\* The worker dies, the commit fails, or a statement fails, after which every
\* later statement of the transaction fails too: nothing is recorded of the
\* pages already sent.
SweepFail ==
    /\ faults < MaxFaults
    /\ faults' = faults + 1
    /\ phase = "sweeping"
    /\ lost' = lost + 1
    /\ SweepOver
    /\ UNCHANGED <<age, stopped, deliveries, staffed, notifier, seen,
                   pages, turnover>>
-----------------------------------------------------------------------------
Sweep == SweepBegin \/ SweepAlarm \/ ReachesNobody \/ Page \/ PageRaises \/ SweepCommit

Next ==
    \/ \E a \in Alarms : Open(a) \/ Stop(a)
    \/ \E r \in Roles : Register(r) \/ Unregister(r)
    \/ Tick
    \/ \E a \in Alarms : NotifierSend(a) \/ NotifierCommit(a) \/ NotifierFail(a)
    \/ Sweep
    \/ SweepFail

Spec == Init /\ [][Next]_vars

\* Time passes, and serve() sweeps again and again.
FairSpec == Spec /\ WF_vars(Sweep) /\ WF_vars(Tick)
-----------------------------------------------------------------------------
(***************************************************************************)
(* Properties.                                                             *)
(***************************************************************************)

\* However sweeps, the notifier and people interleave, the sweeps page a step
\* again only for a sweep that was lost: what a committed sweep, or the
\* notifier, has recorded is not repeated (delivered_steps).
RepageBound == \A d \in AlarmSteps : pages[d] <= 1 + lost

\* As long as nobody changes phones, no step is recorded before the steps
\* below it: fallback widens the audience downwards, so a lower step always has
\* one when a higher step does (escalate_alarm, recipients_for_role).
ClimbsInOrder ==
    turnover = 0 =>
        \A d \in deliveries \cup staged :
            \A k \in 1..(d[2] - 1) : <<d[1], k>> \in deliveries \cup staged

\* An unanswered alarm climbs to the top of its policy as long as the owner
\* holds a phone, through lost sweeps and notifications and whatever phones the
\* roles below gain or lose on the way.
ChainCompletes ==
    \A a \in Alarms :
        (age[a] # Unopened) ~> \/ a \in stopped
                               \/ \A k \in DOMAIN PolicyFor(a) : <<a, k>> \in deliveries
                               \/ OWNER \notin staffed

(***************************************************************************)
(* Stated by the code's comments and not true of it.                       *)
(***************************************************************************)

\* "An acknowledgement stops the chain immediately, including one that lands
\* while a later step is already due": no step of an answered alarm is paged.
AnswerStopsTheChain ==
    [][\A d \in AlarmSteps : pages'[d] # pages[d] => d[1] \notin stopped]_vars

\* "A step is delivered once": while the notifier's pages of the first step are
\* on their way to being recorded, no sweep has paged that step too.
DeliveredOnce == \A a \in Alarms : notifier[a] = "sending" => pages[<<a, 1>>] = 0
=============================================================================
