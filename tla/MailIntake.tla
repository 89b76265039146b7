----------------------------- MODULE MailIntake -----------------------------
(***************************************************************************)
(* The mail path of the ingest worker: a recorder delivers one alarm mail  *)
(* per SMTP DATA command, AlarmMailHandler.handle_DATA runs the pipeline   *)
(* and awaits MailIntake.handle, which loads the site, runs the alarm flow *)
(* over the in-memory dedup window, uploads the snapshot, writes the rows  *)
(* in one transaction, commits, broadcasts and notifies.                   *)
(*                                                                         *)
(* Handlers of different connections interleave at every await.  A handler *)
(* can fail before its commit (451), be cancelled when its connection is   *)
(* lost, or vanish with the process; the recorder sends the message again  *)
(* unless it has seen a 250.                                               *)
(***************************************************************************)
EXTENDS Integers, FiniteSets

CONSTANTS
    Conns,       \* SMTP connections, one handler coroutine each
    Messages,    \* mails, identified by their Message-ID
    Kind,        \* Kind[m]: what the pipeline and the rules make of mail m
    Key,         \* Key[m]: its dedup key (tenant, site, device, channel, type)
    Device,      \* Device[m]: the recorder that sends it
    Window,      \* DedupWindow.window_seconds
    MaxTime,     \* bound: the clock
    MaxAttempts, \* bound: MaxAttempts[m] deliveries of mail m
    MaxFaults    \* bound: failures, lost connections and process crashes

(***************************************************************************)
(* "alarm": a rule with the push action matches; "quiet_alarm": a rule     *)
(* without it matches; "no_match": no rule matches; "face": refused by the *)
(* pipeline; "orphan": the device row is gone.                             *)
(***************************************************************************)
Kinds == {"alarm", "quiet_alarm", "no_match", "face", "orphan"}
Keys == {Key[m] : m \in Messages}
Devices == {Device[m] : m \in Messages}

ASSUME IntakeAssumption ==
    /\ Messages # {}
    /\ Kind \in [Messages -> Kinds]
    /\ DOMAIN Key = Messages
    /\ DOMAIN Device = Messages
    /\ \A m, n \in Messages : Key[m] = Key[n] => Device[m] = Device[n]
    /\ Window \in Nat \ {0}
    /\ MaxTime \in Nat
    /\ MaxAttempts \in [Messages -> Nat]
    /\ MaxFaults \in Nat

VARIABLES
    clock,     \* datetime.now(UTC)
    dedup,     \* DedupWindow._entries: count = 0 where there is no entry
    epoch,     \* incarnation of the ingest process
    pc,        \* where each handler coroutine is
    job,       \* its local variables
    emails,    \* committed email_messages rows, by source_message_id
    events,    \* committed events rows (with their media_assets)
    alarms,    \* committed alarms rows
    heard,     \* devices that have a device_silence_state row
    objects,   \* snapshots in object storage, by the event id in their key
    frames,    \* frames published to the hub
    pushes,    \* alarm ids pushed to phones
    accepted,  \* mails some delivery of which was answered 250
    done,      \* mails whose 250 reached the recorder
    attempts,  \* deliveries of each mail so far
    faults

rows == <<emails, events, alarms, heard>>
sender == <<accepted, done, attempts>>
vars == <<clock, dedup, epoch, pc, job, rows, objects, frames, pushes, sender,
          faults>>

(***************************************************************************)
(* Stages of FlowOutcome, and the program counters of a handler.           *)
(***************************************************************************)
Stages == {"blocked", "duplicate", "no_rule_match", "alarmed"}
InTransaction == {"context", "lookup", "record", "insert", "touch", "write", "commit"}
PCs == {"idle", "publish", "answer"} \cup InTransaction

NoEntry == [first |-> 0, count |-> 0]
SomeMessage == CHOOSE m \in Messages : TRUE
NewJob(m, at, id) ==
    [msg |-> m, at |-> at, id |-> id, stage |-> "blocked", count |-> 0,
     stored |-> FALSE, inserted |-> FALSE, seen |-> FALSE, fresh |-> FALSE]
Idle == NewJob(SomeMessage, 0, <<SomeMessage, 0>>)

\* The uuid4s drawn by the n-th delivery of m: event_id and alarm_id.
Id == Messages \X Nat

Job == [msg : Messages, at : Nat, id : Id, stage : Stages, count : Nat,
        stored : BOOLEAN, inserted : BOOLEAN, seen : BOOLEAN, fresh : BOOLEAN]
EventRow == [id : Id, msg : Messages, stage : Stages, count : Nat, media : BOOLEAN]
AlarmRow == [id : Id, msg : Messages, at : Nat, epoch : Nat]
Frame == [type : {"alarm", "event"}, id : Id, event : Id]

TypeOK ==
    /\ clock \in Nat
    /\ dedup \in [Keys -> [first : Nat, count : Nat]]
    /\ epoch \in Nat
    /\ pc \in [Conns -> PCs]
    /\ job \in [Conns -> Job]
    /\ emails \subseteq Messages
    /\ events \subseteq EventRow
    /\ alarms \subseteq AlarmRow
    /\ heard \subseteq Devices
    /\ objects \subseteq Id
    /\ frames \subseteq Frame
    /\ pushes \subseteq Id
    /\ accepted \subseteq Messages
    /\ done \subseteq Messages
    /\ attempts \in [Messages -> Nat]
    /\ faults \in Nat

Init ==
    /\ clock = 0
    /\ dedup = [k \in Keys |-> NoEntry]
    /\ epoch = 0
    /\ pc = [c \in Conns |-> "idle"]
    /\ job = [c \in Conns |-> Idle]
    /\ emails = {} /\ events = {} /\ alarms = {} /\ heard = {}
    /\ objects = {} /\ frames = {} /\ pushes = {}
    /\ accepted = {} /\ done = {}
    /\ attempts = [m \in Messages |-> 0]
    /\ faults = 0
-----------------------------------------------------------------------------
(***************************************************************************)
(* Pure parts of the flow.                                                 *)
(***************************************************************************)

\* Mutant: the window closes one unit early.
OpensEarly(entry, at) == entry.count = 0 \/ at - entry.first >= Window - 1

\* DedupWindow.check: the window runs from its first sighting.
OpensWindow(entry, at) == entry.count = 0 \/ at - entry.first >= Window

\* Mutant: a repeat moves the window back by its length.
CheckMovesBack(entry, at) ==
    IF OpensWindow(entry, at) THEN [first |-> at, count |-> 1]
                              ELSE [first |-> at - Window, count |-> entry.count + 1]

Check(entry, at) ==
    IF OpensWindow(entry, at) THEN [first |-> at, count |-> 1]
                              ELSE [entry EXCEPT !.count = @ + 1]

\* Mutant: process() does not look at result.blocked.
StageOfFaceToo(m, at) ==
    CASE ~OpensWindow(dedup[Key[m]], at) -> "duplicate"
      [] Kind[m] = "no_match" /\ OpensWindow(dedup[Key[m]], at) -> "no_rule_match"
      [] OTHER -> "alarmed"

\* FlowOutcome.stage.  Nothing in the ingest worker marks an outage, so the
\* suppression branch of process() is never taken.
Stage(m, at) ==
    CASE Kind[m] = "face" -> "blocked"
      [] Kind[m] # "face" /\ ~OpensWindow(dedup[Key[m]], at) -> "duplicate"
      [] Kind[m] = "no_match" /\ OpensWindow(dedup[Key[m]], at) -> "no_rule_match"
      [] OTHER -> "alarmed"

\* FlowOutcome.push is set only when the winning rule has the push action.
HasPush(c) == job[c].stage = "alarmed" /\ Kind[job[c].msg] = "alarm"

EventsOf(m) == {e \in events : e.msg = m}

\* PersistedFlow.event_id and .alarm_id: an earlier delivery's event is named,
\* its alarm is not.
PersistedEvent(c) ==
    IF job[c].fresh THEN job[c].id ELSE (CHOOSE e \in EventsOf(job[c].msg) : TRUE).id
PersistedAlarm(c) == job[c].fresh /\ job[c].stage = "alarmed"

\* Mutant: the notifier goes by the flow's alarm id.
NotifiesUnpersisted(c) == HasPush(c)

\* PushNotifier.notify goes on only with a push and a persisted alarm.
Notifies(c) == HasPush(c) /\ PersistedAlarm(c)
-----------------------------------------------------------------------------
(***************************************************************************)
(* Row locks of the open transactions (PostgreSQL, read committed).        *)
(***************************************************************************)

\* Mutant: a waiting insert already blocks the others.
BlocksWhileWaiting(c, m) == pc[c] \in {"insert", "touch", "write", "commit"} /\ job[c].msg = m

\* The uncommitted unique-index entry for a source_message_id.
InsertsMessage(c, m) == pc[c] \in {"touch", "write", "commit"} /\ job[c].inserted /\ job[c].msg = m

\* The flushed insert or update of a device_silence_state row.
LocksDevice(c, d) == pc[c] = "commit" /\ Device[job[c].msg] = d

GoTo(c, label) == pc' = [pc EXCEPT ![c] = label]

\* The handler is over and its locals are gone; what it had not committed is
\* rolled back.
Finish(c) == pc' = [pc EXCEPT ![c] = "idle"] /\ job' = [job EXCEPT ![c] = Idle]
-----------------------------------------------------------------------------
(***************************************************************************)
(* The recorder opens DATA: ingest() stamps received_at and the handler    *)
(* starts.  It may do so while an earlier delivery is still being handled. *)
(***************************************************************************)
Deliver(c, m) ==
    /\ pc[c] = "idle"
    /\ m \notin done
    /\ attempts[m] < MaxAttempts[m]
    /\ attempts' = [attempts EXCEPT ![m] = @ + 1]
    /\ job' = [job EXCEPT ![c] = NewJob(m, clock, <<m, attempts'[m]>>)]
    /\ GoTo(c, "context")
    /\ UNCHANGED <<clock, dedup, epoch, rows, objects, frames, pushes, accepted, done, faults>>

\* load_site_context found no device: nothing can be stored, nothing is retried.
DeviceGone(c) ==
    /\ pc[c] = "context"
    /\ Kind[job[c].msg] = "orphan"
    /\ GoTo(c, "answer")
    /\ UNCHANGED <<clock, dedup, epoch, job, rows, objects, frames, pushes, sender, faults>>

\* load_site_context returned, process() runs without an await: it moves the
\* dedup window before anything is known about earlier deliveries.
Process(c) ==
    LET m == job[c].msg
        entry == Check(dedup[Key[m]], job[c].at)
        stage == Stage(m, job[c].at)
    IN  /\ pc[c] = "context"
        /\ Kind[m] # "orphan"
        /\ dedup' = IF stage = "blocked" THEN dedup ELSE [dedup EXCEPT ![Key[m]] = entry]
        /\ job' = [job EXCEPT ![c].stage = stage,
                              ![c].count = IF stage = "duplicate" THEN entry.count ELSE 1]
        /\ GoTo(c, IF stage = "blocked" THEN "record" ELSE "lookup")
        /\ UNCHANGED <<clock, epoch, rows, objects, frames, pushes, sender, faults>>

\* Mutant: the key is recorded whether or not the object landed.
RecordsKeyAnyway(c) ==
    /\ pc[c] = "lookup"
    /\ \E ok \in BOOLEAN : objects' = IF ok THEN objects \cup {job[c].id} ELSE objects
    /\ job' = [job EXCEPT ![c].stored = TRUE]
    /\ GoTo(c, "record")
    /\ UNCHANGED <<clock, dedup, epoch, rows, frames, pushes, sender, faults>>

\* A first delivery uploads its snapshot under the fresh event id; a failed or
\* refused upload is logged and the event goes on without it.
LookupAndUpload(c) ==
    /\ pc[c] = "lookup"
    /\ \E ok \in BOOLEAN :
          /\ ok => EventsOf(job[c].msg) = {}
          /\ objects' = IF ok THEN objects \cup {job[c].id} ELSE objects
          /\ job' = [job EXCEPT ![c].stored = ok]
    /\ GoTo(c, "record")
    /\ UNCHANGED <<clock, dedup, epoch, rows, frames, pushes, sender, faults>>

\* _record_message: the select.
SelectMessage(c) ==
    /\ pc[c] = "record"
    /\ GoTo(c, IF job[c].msg \in emails THEN "touch" ELSE "insert")
    /\ UNCHANGED <<clock, dedup, epoch, job, rows, objects, frames, pushes, sender, faults>>

\* _record_message: the insert waits for a concurrent insert of the same
\* source_message_id, and fails on uq_email_message_id if that one committed.
InsertMessage(c) ==
    LET m == job[c].msg
        clash == m \in emails
    IN  /\ pc[c] = "insert"
        /\ \A other \in Conns \ {c} : ~InsertsMessage(other, m)
        /\ \/ clash /\ Finish(c)
           \/ ~clash /\ job' = [job EXCEPT ![c].inserted = TRUE] /\ GoTo(c, "touch")
        /\ UNCHANGED <<clock, dedup, epoch, rows, objects, frames, pushes, sender, faults>>

\* touch_device_heartbeat: reads the silence-state row, or finds none.
TouchHeartbeat(c) ==
    /\ pc[c] = "touch"
    /\ job' = [job EXCEPT ![c].seen = Device[job[c].msg] \in heard]
    /\ GoTo(c, "write")
    /\ UNCHANGED <<clock, dedup, epoch, rows, objects, frames, pushes, sender, faults>>

\* Mutant: persist_flow trusts that the mail is new.
WritesWithoutLookup(c) ==
    /\ pc[c] = "write"
    /\ \A other \in Conns \ {c} : ~LocksDevice(other, Device[job[c].msg])
    /\ job' = [job EXCEPT ![c].fresh = job[c].stage # "blocked"]
    /\ GoTo(c, "commit")
    /\ UNCHANGED <<clock, dedup, epoch, rows, objects, frames, pushes, sender, faults>>

\* The rest of persist_flow.  The heartbeat is flushed first: it waits for the
\* row lock, and an insert fails if the row has appeared since it was read.
\* Then a second lookup decides whether this delivery writes the event.
WriteRows(c) ==
    LET m == job[c].msg
        clash == ~job[c].seen /\ Device[m] \in heard
    IN  /\ pc[c] = "write"
        /\ \A other \in Conns \ {c} : ~LocksDevice(other, Device[m])
        /\ \/ clash /\ Finish(c)
           \/ /\ ~clash
              /\ job' = [job EXCEPT ![c].fresh = job[c].stage # "blocked" /\ EventsOf(m) = {}]
              /\ GoTo(c, "commit")
        /\ UNCHANGED <<clock, dedup, epoch, rows, objects, frames, pushes, sender, faults>>

Commit(c) ==
    LET j == job[c]
    IN  /\ pc[c] = "commit"
        /\ emails' = IF j.inserted THEN emails \cup {j.msg} ELSE emails
        /\ heard' = heard \cup {Device[j.msg]}
        /\ events' = IF j.fresh
                     THEN events \cup {[id |-> j.id, msg |-> j.msg, stage |-> j.stage,
                                        count |-> j.count, media |-> j.stored]}
                     ELSE events
        /\ alarms' = IF PersistedAlarm(c)
                     THEN alarms \cup {[id |-> j.id, msg |-> j.msg, at |-> j.at, epoch |-> epoch]}
                     ELSE alarms
        /\ GoTo(c, "publish")
        /\ UNCHANGED <<clock, dedup, epoch, job, objects, frames, pushes, sender, faults>>

\* _broadcast: an alarm frame whenever the flow produced a push, an event frame
\* for any other event.  Then PushNotifier.notify, for a push only: it does
\* nothing without an alarm id, and its failures are logged and swallowed.
PublishAndNotify(c) ==
    LET frame == [type |-> IF HasPush(c) THEN "alarm" ELSE "event",
                  id |-> job[c].id, event |-> PersistedEvent(c)]
    IN  /\ pc[c] = "publish"
        /\ frames' = IF job[c].stage = "blocked" THEN frames ELSE frames \cup {frame}
        /\ \/ Notifies(c) /\ pushes' = pushes \cup {job[c].id}
           \/ UNCHANGED pushes
        /\ GoTo(c, "answer")
        /\ UNCHANGED <<clock, dedup, epoch, job, rows, objects, sender, faults>>

\* 250: the recorder may never see it, and then sends the mail again.
Answer(c) ==
    /\ pc[c] = "answer"
    /\ accepted' = accepted \cup {job[c].msg}
    /\ \/ done' = done \cup {job[c].msg}
       \/ UNCHANGED done
    /\ Finish(c)
    /\ UNCHANGED <<clock, dedup, epoch, rows, objects, frames, pushes, attempts, faults>>
-----------------------------------------------------------------------------
(***************************************************************************)
(* Faults.                                                                 *)
(***************************************************************************)

\* Mutant: the handler answers 250 when the sink fails.
FailsButAccepts(c) ==
    /\ faults < MaxFaults
    /\ faults' = faults + 1
    /\ pc[c] \in InTransaction
    /\ GoTo(c, "answer")
    /\ UNCHANGED <<clock, dedup, epoch, job, rows, objects, frames, pushes, sender>>

\* Any statement of the open transaction, or its commit, raises: it is rolled
\* back and the answer is 451 Temporary storage failure.
Fail(c) ==
    /\ faults < MaxFaults
    /\ faults' = faults + 1
    /\ pc[c] \in InTransaction
    /\ Finish(c)
    /\ UNCHANGED <<clock, dedup, epoch, rows, objects, frames, pushes, sender>>

\* aiosmtpd cancels the handler of a lost connection.
ConnectionLost(c) ==
    /\ faults < MaxFaults
    /\ faults' = faults + 1
    /\ pc[c] # "idle"
    /\ Finish(c)
    /\ UNCHANGED <<clock, dedup, epoch, rows, objects, frames, pushes, sender>>

\* The process dies and is restarted with an empty DedupWindow.
Restart ==
    /\ faults < MaxFaults
    /\ faults' = faults + 1
    /\ epoch' = epoch + 1
    /\ dedup' = [k \in Keys |-> NoEntry]
    /\ pc' = [c \in Conns |-> "idle"]
    /\ job' = [c \in Conns |-> Idle]
    /\ UNCHANGED <<clock, rows, objects, frames, pushes, sender>>

Tick ==
    /\ clock < MaxTime
    /\ clock' = clock + 1
    /\ UNCHANGED <<dedup, epoch, pc, job, rows, objects, frames, pushes, sender, faults>>
-----------------------------------------------------------------------------
Handle(c) ==
    \/ DeviceGone(c) \/ Process(c) \/ LookupAndUpload(c)
    \/ SelectMessage(c) \/ InsertMessage(c) \/ TouchHeartbeat(c) \/ WriteRows(c) \/ Commit(c)
    \/ PublishAndNotify(c) \/ Answer(c)

Next ==
    \/ \E c \in Conns, m \in Messages : Deliver(c, m)
    \/ \E c \in Conns : Handle(c)
    \/ \E c \in Conns : Fail(c) \/ ConnectionLost(c)
    \/ Restart
    \/ Tick

Spec == Init /\ [][Next]_vars

\* The event loop runs every coroutine that is ready; a database or storage
\* call that hangs is outside the model.
FairSpec == Spec /\ \A c \in Conns : WF_vars(Handle(c))
-----------------------------------------------------------------------------
(***************************************************************************)
(* Properties.                                                             *)
(***************************************************************************)

\* However often and however concurrently a mail is delivered it becomes at
\* most one event.  events.source_message_id has no unique constraint: what
\* protects it is that persist_flow looks the event up again after it has
\* locked the recorder's heartbeat row.
OneEventPerMessage ==
    \A e, f \in events : e.msg = f.msg => e = f

\* A mail answered 250 is on record: its delivery row, its recorder's heartbeat
\* and, unless it was a refused face alarm, its event (handle_DATA answers 451
\* otherwise).
AcceptedIsStored ==
    \A m \in accepted : Kind[m] # "orphan" =>
        /\ m \in emails
        /\ Device[m] \in heard
        /\ Kind[m] # "face" => EventsOf(m) # {}

\* Rows before push: whoever taps a notification finds its alarm, the event a
\* realtime frame names is on record, and so is the alarm of an alarm frame.
\* The one exception is the frame of a repeated delivery whose window has run
\* out: _broadcast announces the alarm the flow made up, with the event of the
\* earlier delivery, and that alarm has no row (intake.py).
RowsBeforePush ==
    /\ \A id \in pushes : \E a \in alarms : a.id = id
    /\ \A f \in frames :
           /\ \E e \in events : e.id = f.event
           /\ f.type = "alarm" /\ f.id = f.event => \E a \in alarms : a.id = f.id

\* A media row never points at an object that does not exist (intake.py).
MediaRowsBacked == \A e \in events : e.media => e.id \in objects

\* One incident, one alarm: while the process lives, two alarms of one dedup
\* key were received at least a window apart, whatever order the concurrent
\* handlers ran the flow in (dedup.py).
OneAlarmPerWindow ==
    \A a, b \in alarms :
        (a # b /\ Key[a.msg] = Key[b.msg] /\ a.epoch = b.epoch)
            => (a.at - b.at >= Window \/ b.at - a.at >= Window)

\* A refused face alarm leaves a delivery record and nothing else, through
\* every retry (pipeline.ingest, process).
FaceLeavesNoTrace ==
    \A m \in Messages : Kind[m] = "face" =>
        /\ EventsOf(m) = {}
        /\ \A c \in Conns : job[c].msg = m => job[c].id \notin objects
        /\ (\A n \in Messages : Key[n] = Key[m] => Kind[n] = "face") => dedup[Key[m]] = NoEntry

\* Every delivery is answered or dropped: no two handlers wait for each other's
\* row locks for ever.
EveryDeliveryEnds == \A c \in Conns : pc[c] # "idle" ~> pc[c] = "idle"

(***************************************************************************)
(* Stated by the code's comments and not true of it.                       *)
(***************************************************************************)

\* "451 asks the recorder to retry later rather than discarding the alarm":
\* once every delivered mail of a key has been accepted and no handler runs, a
\* sighting folded into a window has an alarm to be folded into.
RetryKeepsTheAlarm ==
    (\A c \in Conns : pc[c] = "idle") =>
        \A e \in events :
            \/ e.stage # "duplicate"
            \/ \E m \in Messages : Key[m] = Key[e.msg] /\ (Kind[m] = "no_match" \/ (attempts[m] > 0 /\ m \notin accepted))
            \/ \E a \in alarms : Key[a.msg] = Key[e.msg]
=============================================================================
