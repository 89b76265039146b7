-------------------------- MODULE MailIntakeProofs --------------------------
(***************************************************************************)
(* Proofs about MailIntake for every set of connections and mails, every   *)
(* classification of the mails and every bound.                            *)
(***************************************************************************)
EXTENDS MailIntake, TLAPS

\* The idle record, an opened or extended window entry and every stage are
\* well typed.
LEMMA IdleType == Idle \in Job
  <1>1. SomeMessage \in Messages
    BY IntakeAssumption DEF SomeMessage
  <1> QED BY <1>1 DEF Idle, NewJob, Job, Id, Stages

\* A handler assigns its locals one field at a time.
LEMMA JobUpdate ==
  ASSUME NEW j \in Job, NEW b \in BOOLEAN, NEW s \in Stages, NEW n \in Nat
  PROVE  /\ [j EXCEPT !.stored = b] \in Job
         /\ [j EXCEPT !.inserted = b] \in Job
         /\ [j EXCEPT !.seen = b] \in Job
         /\ [j EXCEPT !.fresh = b] \in Job
         /\ [j EXCEPT !.stage = s, !.count = n] \in Job
  BY DEF Job

LEMMA CheckType ==
  ASSUME NEW entry \in [first : Nat, count : Nat], NEW at \in Nat
  PROVE  Check(entry, at) \in [first : Nat, count : Nat]
  BY DEF Check

LEMMA StageType ==
  ASSUME NEW m \in Messages, NEW at
  PROVE  Stage(m, at) \in Stages
  BY DEF Stage, Stages

\* Type correctness of every variable (MailIntake.handle and its rows).
THEOREM TypeCorrect == Spec => []TypeOK
<1>1. Init => TypeOK
  BY IdleType, IntakeAssumption DEF Init, TypeOK, NoEntry, PCs, InTransaction
<1>2. TypeOK /\ [Next]_vars => TypeOK'
  <2> SUFFICES ASSUME TypeOK, [Next]_vars
               PROVE  TypeOK'
    OBVIOUS
  <2> USE IntakeAssumption DEF TypeOK, PCs, InTransaction, GoTo, Finish, rows, sender
  <2>1. ASSUME NEW c \in Conns, NEW m \in Messages, Deliver(c, m)
        PROVE  TypeOK'
    <3>1. attempts'[m] \in Nat
      BY <2>1 DEF Deliver
    <3>2. NewJob(m, clock, <<m, attempts'[m]>>) \in Job
      BY <3>1 DEF NewJob, Job, Id, Stages
    <3> QED BY <2>1, <3>2 DEF Deliver
  <2>2. ASSUME NEW c \in Conns, DeviceGone(c)
        PROVE  TypeOK'
    BY <2>2 DEF DeviceGone
  <2>3. ASSUME NEW c \in Conns, Process(c)
        PROVE  TypeOK'
    <3> DEFINE m == job[c].msg
               entry == Check(dedup[Key[m]], job[c].at)
               stage == Stage(m, job[c].at)
    <3>1. m \in Messages /\ Key[m] \in Keys /\ job[c].at \in Nat
      BY DEF Job, Keys
    <3>2. entry \in [first : Nat, count : Nat]
      BY <3>1, CheckType
    <3>3. stage \in Stages
      BY <3>1, StageType
    <3> HIDE DEF m, entry, stage
    <3>4. /\ dedup' = IF stage = "blocked" THEN dedup ELSE [dedup EXCEPT ![Key[m]] = entry]
          /\ job' = [job EXCEPT ![c].stage = stage,
                                ![c].count = IF stage = "duplicate" THEN entry.count ELSE 1]
      BY <2>3 DEF Process, m, entry, stage
    <3>5. dedup' \in [Keys -> [first : Nat, count : Nat]]
      BY <3>1, <3>2, <3>4
    <3>6. job' \in [Conns -> Job]
      <4>1. (IF stage = "duplicate" THEN entry.count ELSE 1) \in Nat
        BY <3>2
      <4>2. [job[c] EXCEPT !.stage = stage,
                           !.count = IF stage = "duplicate" THEN entry.count ELSE 1] \in Job
        BY <3>3, <4>1, JobUpdate
      <4> QED BY <3>4, <4>2
    <3> QED BY <2>3, <3>5, <3>6 DEF Process
  <2>4. ASSUME NEW c \in Conns, LookupAndUpload(c)
        PROVE  TypeOK'
    BY <2>4 DEF LookupAndUpload, Job
  <2>5. ASSUME NEW c \in Conns, SelectMessage(c)
        PROVE  TypeOK'
    BY <2>5 DEF SelectMessage
  <2>6. ASSUME NEW c \in Conns, InsertMessage(c)
        PROVE  TypeOK'
    <3>1. [job[c] EXCEPT !.inserted = TRUE] \in Job
      BY JobUpdate DEF Stages
    <3> QED BY <2>6, <3>1, IdleType DEF InsertMessage
  <2>7. ASSUME NEW c \in Conns, TouchHeartbeat(c)
        PROVE  TypeOK'
    <3>1. [job[c] EXCEPT !.seen = Device[job[c].msg] \in heard] \in Job
      <4>1. (Device[job[c].msg] \in heard) \in BOOLEAN
        OBVIOUS
      <4> QED BY <4>1, JobUpdate DEF Stages
    <3> QED BY <2>7, <3>1 DEF TouchHeartbeat
  <2>8. ASSUME NEW c \in Conns, WriteRows(c)
        PROVE  TypeOK'
    <3> DEFINE new == job[c].stage # "blocked" /\ EventsOf(job[c].msg) = {}
    <3>1. [job[c] EXCEPT !.fresh = new] \in Job
      <4>1. new \in BOOLEAN
        OBVIOUS
      <4> QED BY <4>1, JobUpdate DEF Stages
    <3> QED BY <2>8, <3>1, IdleType DEF WriteRows
  <2>9. ASSUME NEW c \in Conns, Commit(c)
        PROVE  TypeOK'
    <3>1. job[c] \in Job
      OBVIOUS
    <3>2. Device[job[c].msg] \in Devices
      BY <3>1 DEF Job, Devices
    <3> QED BY <2>9, <3>1, <3>2 DEF Commit, Job, EventRow, AlarmRow
  <2>10. ASSUME NEW c \in Conns, PublishAndNotify(c)
         PROVE  TypeOK'
    BY <2>10 DEF PublishAndNotify, Job, Frame, PersistedEvent, EventsOf, EventRow
  <2>11. ASSUME NEW c \in Conns, Answer(c)
         PROVE  TypeOK'
    BY <2>11, IdleType DEF Answer, Job
  <2>12. ASSUME NEW c \in Conns, Fail(c) \/ ConnectionLost(c)
         PROVE  TypeOK'
    BY <2>12, IdleType DEF Fail, ConnectionLost
  <2>13. CASE Restart
    BY <2>13, IdleType DEF Restart, NoEntry
  <2>14. CASE Tick
    BY <2>14 DEF Tick
  <2>15. CASE UNCHANGED vars
    BY <2>15 DEF vars
  <2> QED
    BY <2>1, <2>2, <2>3, <2>4, <2>5, <2>6, <2>7, <2>8, <2>9, <2>10, <2>11, <2>12,
       <2>13, <2>14, <2>15 DEF Next, Handle
<1> QED BY <1>1, <1>2, PTL DEF Spec
-----------------------------------------------------------------------------
(***************************************************************************)
(* One event per mail.  The heartbeat row lock makes the transactions of   *)
(* one recorder exclusive from their second lookup to their commit, so a   *)
(* delivery that found no event still finds none when it commits.          *)
(***************************************************************************)
DeviceLock ==
    \A c, d \in Conns :
        (c # d /\ pc[c] = "commit" /\ pc[d] = "commit")
            => Device[job[c].msg] # Device[job[d].msg]

FreshIsNew ==
    \A c \in Conns : (pc[c] = "commit" /\ job[c].fresh) => EventsOf(job[c].msg) = {}

EventInv == DeviceLock /\ FreshIsNew /\ OneEventPerMessage

\* However many deliveries of a mail overlap, fail or are repeated, at most one
\* event row carries its Message-ID (persist_flow).
THEOREM OneEvent == Spec => []OneEventPerMessage
<1>1. Init => EventInv
  BY DEF Init, EventInv, DeviceLock, FreshIsNew, OneEventPerMessage
<1>2. TypeOK /\ EventInv /\ [Next]_vars => EventInv'
  <2> SUFFICES ASSUME TypeOK, EventInv, [Next]_vars
               PROVE  EventInv'
    OBVIOUS
  <2> USE DEF TypeOK, EventInv, DeviceLock, FreshIsNew, OneEventPerMessage, EventsOf,
              GoTo, Finish, rows
  <2>1. ASSUME NEW c \in Conns, NEW m \in Messages, Deliver(c, m)
        PROVE  EventInv'
    BY <2>1 DEF Deliver
  <2>2. ASSUME NEW c \in Conns,
               DeviceGone(c) \/ Process(c) \/ LookupAndUpload(c) \/ SelectMessage(c)
                 \/ InsertMessage(c) \/ TouchHeartbeat(c)
        PROVE  EventInv'
    <3>1. /\ UNCHANGED events
          /\ pc'[c] # "commit"
          /\ \A d \in Conns \ {c} : pc'[d] = pc[d] /\ job'[d] = job[d]
      BY <2>2
         DEF DeviceGone, Process, LookupAndUpload, SelectMessage, InsertMessage, TouchHeartbeat
    <3> QED BY <3>1
  <2>3. ASSUME NEW c \in Conns, WriteRows(c)
        PROVE  EventInv'
    <3>1. /\ UNCHANGED events
          /\ \A d \in Conns \ {c} : pc'[d] = pc[d] /\ job'[d] = job[d]
          /\ pc'[c] = "commit" => job'[c].msg = job[c].msg
          /\ (pc'[c] = "commit" /\ job'[c].fresh) => EventsOf(job[c].msg) = {}
      <4> DEFINE new == job[c].stage # "blocked" /\ EventsOf(job[c].msg) = {}
      <4>1. \/ Finish(c)
            \/ job' = [job EXCEPT ![c].fresh = new] /\ GoTo(c, "commit")
        BY <2>3 DEF WriteRows
      <4>2. [job[c] EXCEPT !.fresh = new].fresh = new /\ [job[c] EXCEPT !.fresh = new].msg = job[c].msg
        BY DEF Job
      <4>3. new => EventsOf(job[c].msg) = {}
        OBVIOUS
      <4>4. UNCHANGED events
        BY <2>3 DEF WriteRows
      <4> HIDE DEF new
      <4>5. CASE Finish(c)
        BY <4>4, <4>5
      <4>6. CASE job' = [job EXCEPT ![c].fresh = new] /\ GoTo(c, "commit")
        BY <4>2, <4>3, <4>4, <4>6
      <4> QED BY <4>1, <4>5, <4>6
    <3>2. \A d \in Conns \ {c} : pc[d] = "commit" => Device[job[d].msg] # Device[job[c].msg]
      BY <2>3 DEF WriteRows, LocksDevice
    <3> QED BY <3>1, <3>2
  <2>4. ASSUME NEW c \in Conns, Commit(c)
        PROVE  EventInv'
    <3>1. \A d \in Conns \ {c} : pc[d] = "commit" => job[d].msg # job[c].msg
      BY <2>4 DEF Commit
    <3>2. \A e \in events' \ events : job[c].fresh /\ e.msg = job[c].msg
      BY <2>4 DEF Commit
    <3>3. FreshIsNew'
      BY <2>4, <3>1, <3>2 DEF Commit
    <3>4. OneEventPerMessage'
      BY <2>4 DEF Commit
    <3> QED BY <2>4, <3>3, <3>4 DEF Commit
  <2>5. ASSUME NEW c \in Conns,
               PublishAndNotify(c) \/ Answer(c) \/ Fail(c) \/ ConnectionLost(c)
        PROVE  EventInv'
    BY <2>5 DEF PublishAndNotify, Answer, Fail, ConnectionLost
  <2>6. CASE Restart
    BY <2>6 DEF Restart
  <2>7. CASE Tick
    BY <2>7 DEF Tick
  <2>8. CASE UNCHANGED vars
    BY <2>8 DEF vars
  <2> QED
    BY <2>1, <2>2, <2>3, <2>4, <2>5, <2>6, <2>7, <2>8 DEF Next, Handle
<1>3. EventInv => OneEventPerMessage
  BY DEF EventInv
<1> QED BY <1>1, <1>2, <1>3, TypeCorrect, PTL DEF Spec
-----------------------------------------------------------------------------
(***************************************************************************)
(* The uuids of a delivery are its own: nobody else works under them, and  *)
(* no event has them before the delivery itself has committed one.         *)
(***************************************************************************)
Unwritten(c) == pc[c] \in InTransaction \/ (pc[c] = "publish" /\ ~job[c].fresh)

IdInv ==
    /\ \A c \in Conns : pc[c] # "idle" => job[c].id[2] <= attempts[job[c].id[1]]
    /\ \A c, d \in Conns : c # d /\ pc[c] # "idle" /\ pc[d] # "idle" => job[c].id # job[d].id
    /\ \A e \in events : e.id[2] <= attempts[e.id[1]]
    /\ \A c \in Conns : Unwritten(c) => \A e \in events : e.id # job[c].id

LEMMA IdsAreOwn == Spec => []IdInv
<1>1. Init => IdInv
  BY DEF Init, IdInv, Unwritten, InTransaction
<1>2. TypeOK /\ IdInv /\ [Next]_vars => IdInv'
  <2> SUFFICES ASSUME TypeOK, IdInv, [Next]_vars
               PROVE  IdInv'
    OBVIOUS
  <2>0. \A c \in Conns : job[c].id \in Id
    BY DEF TypeOK, Job
  <2>1. ASSUME NEW c \in Conns, NEW m \in Messages, Deliver(c, m)
        PROVE  IdInv'
    <3>1. /\ pc'[c] = "context" /\ job'[c].id = <<m, attempts[m] + 1>>
          /\ \A d \in Conns \ {c} : pc'[d] = pc[d] /\ job'[d] = job[d]
          /\ events' = events
      BY <2>1 DEF Deliver, GoTo, NewJob, TypeOK, rows
    <3>2. /\ attempts'[m] = attempts[m] + 1 /\ attempts[m] \in Nat
          /\ \A n \in Messages : attempts[n] <= attempts'[n] /\ attempts[n] \in Nat /\ attempts'[n] \in Nat
      BY <2>1 DEF Deliver, TypeOK
    <3>3. \A id \in Id : id[2] <= attempts[id[1]] => id[2] <= attempts'[id[1]] /\ id # <<m, attempts[m] + 1>>
      BY <3>2 DEF Id
    <3>4. \A e \in events : e.id \in Id /\ e.id[2] <= attempts[e.id[1]]
      BY DEF IdInv, TypeOK, EventRow
    <3>5. \A d \in Conns : pc[d] # "idle" => job[d].id \in Id /\ job[d].id[2] <= attempts[job[d].id[1]]
      BY <2>0 DEF IdInv
    <3>6. job'[c].id[2] <= attempts'[job'[c].id[1]]
      BY <3>1, <3>2
    <3>7. \A d \in Conns : pc'[d] # "idle" => job'[d].id[2] <= attempts'[job'[d].id[1]]
      BY <3>1, <3>3, <3>5, <3>6
    <3>8. \A d \in Conns \ {c} : pc'[d] # "idle" => job'[d].id # job'[c].id
      BY <3>1, <3>3, <3>5
    <3>9. \A d, e \in Conns : d # e /\ pc'[d] # "idle" /\ pc'[e] # "idle" => job'[d].id # job'[e].id
      BY <3>1, <3>8 DEF IdInv
    <3>10. \A e \in events' : e.id[2] <= attempts'[e.id[1]]
      BY <3>1, <3>3, <3>4
    <3>11. \A d \in Conns : Unwritten(d)' => \A e \in events' : e.id # job'[d].id
      BY <3>1, <3>3, <3>4 DEF IdInv, Unwritten
    <3> QED BY <3>7, <3>9, <3>10, <3>11 DEF IdInv
  <2>2. ASSUME NEW c \in Conns, Commit(c)
        PROVE  IdInv'
    <3>1. /\ pc[c] = "commit" /\ pc'[c] = "publish" /\ job' = job /\ attempts' = attempts
          /\ \A d \in Conns \ {c} : pc'[d] = pc[d]
      BY <2>2 DEF Commit, GoTo, TypeOK, sender
    <3>2. \A e \in events' : e \in events \/ (job[c].fresh /\ e.id = job[c].id)
      BY <2>2 DEF Commit
    <3>3. \A d \in Conns : Unwritten(d)' => Unwritten(d) /\ (d = c => ~job[c].fresh)
      BY <3>1 DEF Unwritten, InTransaction
    <3>4. \A d \in Conns : Unwritten(d) => pc[d] # "idle"
      BY DEF Unwritten, InTransaction
    <3>5. \A d \in Conns : Unwritten(d)' => \A e \in events' : e.id # job'[d].id
      BY <3>1, <3>2, <3>3, <3>4 DEF IdInv
    <3> QED BY <3>1, <3>2, <3>5 DEF IdInv
  <2>3. ASSUME UNCHANGED <<events, attempts>>,
               \A d \in Conns : \/ pc'[d] = "idle"
                               \/ /\ pc[d] # "idle" /\ job'[d].id = job[d].id
                                  /\ Unwritten(d)' => Unwritten(d)
        PROVE  IdInv'
    <3>1. \A d \in Conns : pc'[d] = "idle" => ~Unwritten(d)'
      BY DEF Unwritten, InTransaction
    <3> QED BY <2>3, <3>1 DEF IdInv
  <2> USE DEF GoTo, Finish, rows, sender
  <2>4. ASSUME NEW c \in Conns, UNCHANGED <<events, attempts>>,
               \A d \in Conns \ {c} : pc'[d] = pc[d] /\ job'[d] = job[d],
               \/ pc'[c] = "idle"
               \/ /\ pc[c] \in InTransaction \cup {"publish"}
                  /\ job'[c].id = job[c].id
                  /\ pc'[c] = "answer" \/ (pc[c] \in InTransaction /\ pc'[c] \in InTransaction)
        PROVE  IdInv'
    <3>1. \A d \in Conns \ {c} : Unwritten(d)' = Unwritten(d)
      BY <2>4 DEF Unwritten
    <3>2. pc'[c] = "answer" \/ (pc[c] \in InTransaction /\ pc'[c] \in InTransaction)
          => (Unwritten(c)' => Unwritten(c))
      BY DEF Unwritten, InTransaction
    <3> QED BY <2>3, <2>4, <3>1, <3>2 DEF InTransaction
  <2>5. ASSUME NEW c \in Conns,
               DeviceGone(c) \/ Process(c) \/ LookupAndUpload(c) \/ SelectMessage(c)
                 \/ InsertMessage(c) \/ TouchHeartbeat(c) \/ WriteRows(c)
        PROVE  IdInv'
    <3>1. CASE DeviceGone(c)
      <4>1. /\ UNCHANGED <<events, attempts>>
            /\ \A d \in Conns \ {c} : pc'[d] = pc[d] /\ job'[d] = job[d]
        BY <3>1 DEF DeviceGone, TypeOK
      <4>2. job'[c].id = job[c].id \/ pc'[c] = "idle"
        BY <3>1 DEF DeviceGone, TypeOK, Job
      <4>3. /\ pc[c] \in InTransaction
            /\ pc'[c] \in InTransaction \cup {"answer", "idle"}
        BY <3>1 DEF DeviceGone, TypeOK, InTransaction
      <4> QED BY <2>4, <4>1, <4>2, <4>3
    <3>2. CASE Process(c)
      <4>1. /\ UNCHANGED <<events, attempts>>
            /\ \A d \in Conns \ {c} : pc'[d] = pc[d] /\ job'[d] = job[d]
        BY <3>2 DEF Process, TypeOK
      <4>2. job'[c].id = job[c].id \/ pc'[c] = "idle"
        BY <3>2 DEF Process, TypeOK, Job
      <4>3. /\ pc[c] \in InTransaction
            /\ pc'[c] \in InTransaction \cup {"answer", "idle"}
        BY <3>2 DEF Process, TypeOK, InTransaction
      <4> QED BY <2>4, <4>1, <4>2, <4>3
    <3>3. CASE LookupAndUpload(c)
      <4>1. /\ UNCHANGED <<events, attempts>>
            /\ \A d \in Conns \ {c} : pc'[d] = pc[d] /\ job'[d] = job[d]
        BY <3>3 DEF LookupAndUpload, TypeOK
      <4>2. job'[c].id = job[c].id \/ pc'[c] = "idle"
        BY <3>3 DEF LookupAndUpload, TypeOK, Job
      <4>3. /\ pc[c] \in InTransaction
            /\ pc'[c] \in InTransaction \cup {"answer", "idle"}
        BY <3>3 DEF LookupAndUpload, TypeOK, InTransaction
      <4> QED BY <2>4, <4>1, <4>2, <4>3
    <3>4. CASE SelectMessage(c)
      <4>1. /\ UNCHANGED <<events, attempts>>
            /\ \A d \in Conns \ {c} : pc'[d] = pc[d] /\ job'[d] = job[d]
        BY <3>4 DEF SelectMessage, TypeOK
      <4>2. job'[c].id = job[c].id \/ pc'[c] = "idle"
        BY <3>4 DEF SelectMessage, TypeOK, Job
      <4>3. /\ pc[c] \in InTransaction
            /\ pc'[c] \in InTransaction \cup {"answer", "idle"}
        BY <3>4 DEF SelectMessage, TypeOK, InTransaction
      <4> QED BY <2>4, <4>1, <4>2, <4>3
    <3>5. CASE InsertMessage(c)
      <4>1. /\ UNCHANGED <<events, attempts>>
            /\ \A d \in Conns \ {c} : pc'[d] = pc[d] /\ job'[d] = job[d]
        BY <3>5 DEF InsertMessage, TypeOK
      <4>2. job'[c].id = job[c].id \/ pc'[c] = "idle"
        BY <3>5 DEF InsertMessage, TypeOK, Job
      <4>3. /\ pc[c] \in InTransaction
            /\ pc'[c] \in InTransaction \cup {"answer", "idle"}
        BY <3>5 DEF InsertMessage, TypeOK, InTransaction
      <4> QED BY <2>4, <4>1, <4>2, <4>3
    <3>6. CASE TouchHeartbeat(c)
      <4>1. /\ UNCHANGED <<events, attempts>>
            /\ \A d \in Conns \ {c} : pc'[d] = pc[d] /\ job'[d] = job[d]
        BY <3>6 DEF TouchHeartbeat, TypeOK
      <4>2. job'[c].id = job[c].id \/ pc'[c] = "idle"
        BY <3>6 DEF TouchHeartbeat, TypeOK, Job
      <4>3. /\ pc[c] \in InTransaction
            /\ pc'[c] \in InTransaction \cup {"answer", "idle"}
        BY <3>6 DEF TouchHeartbeat, TypeOK, InTransaction
      <4> QED BY <2>4, <4>1, <4>2, <4>3
    <3>7. CASE WriteRows(c)
      <4>1. /\ UNCHANGED <<events, attempts>>
            /\ \A d \in Conns \ {c} : pc'[d] = pc[d] /\ job'[d] = job[d]
        BY <3>7 DEF WriteRows, TypeOK
      <4>2. job'[c].id = job[c].id \/ pc'[c] = "idle"
        BY <3>7 DEF WriteRows, TypeOK, Job
      <4>3. /\ pc[c] \in InTransaction
            /\ pc'[c] \in InTransaction \cup {"answer", "idle"}
        BY <3>7 DEF WriteRows, TypeOK, InTransaction
      <4> QED BY <2>4, <4>1, <4>2, <4>3
    <3> QED BY <2>5, <3>1, <3>2, <3>3, <3>4, <3>5, <3>6, <3>7
  <2>6. ASSUME NEW c \in Conns, PublishAndNotify(c) \/ Answer(c) \/ Fail(c) \/ ConnectionLost(c)
        PROVE  IdInv'
    BY <2>4, <2>6 DEF PublishAndNotify, Answer, Fail, ConnectionLost, TypeOK, InTransaction
  <2>7. CASE Restart
    BY <2>3, <2>7 DEF Restart
  <2>8. CASE Tick \/ UNCHANGED vars
    BY <2>8 DEF Tick, vars, IdInv, Unwritten
  <2> QED
    BY <2>1, <2>2, <2>5, <2>6, <2>7, <2>8 DEF Next, Handle
<1> QED BY <1>1, <1>2, TypeCorrect, PTL DEF Spec

(***************************************************************************)
(* What one step of a handler does to its own locals, and leaves alone of  *)
(* the others'.                                                            *)
(***************************************************************************)

\* No step takes a row or an object back: a failed handler rolls back only
\* what it had not committed.
LEMMA RowsOnlyGrow ==
  TypeOK /\ [Next]_vars => /\ emails \subseteq emails'
                          /\ events \subseteq events'
                          /\ alarms \subseteq alarms'
                          /\ heard \subseteq heard'
                          /\ objects \subseteq objects'
  BY DEF Next, vars, rows, Handle, Deliver, DeviceGone, Process, LookupAndUpload, SelectMessage,
         InsertMessage, TouchHeartbeat, WriteRows, Commit, PublishAndNotify, Answer, Fail,
         ConnectionLost, Restart, Tick

\* process(): only a face alarm is blocked and it leaves the window alone; any
\* other mail moves its key's window, and raises an alarm only if it opens it.
LEMMA ProcessEffect ==
  ASSUME TypeOK, NEW c \in Conns, Process(c)
  PROVE  LET m == job[c].msg IN
         /\ job'[c].msg = m /\ job'[c].id = job[c].id /\ job'[c].at = job[c].at
         /\ job'[c].stored = job[c].stored /\ job'[c].fresh = job[c].fresh
         /\ job'[c].inserted = job[c].inserted
         /\ Kind[m] # "orphan"
         /\ job'[c].stage = "blocked" <=> Kind[m] = "face"
         /\ pc'[c] \in {"record", "lookup"}
         /\ pc'[c] = "lookup" => Kind[m] # "face"
         /\ Kind[m] = "face" => dedup' = dedup
         /\ Kind[m] # "face" => dedup' = [dedup EXCEPT ![Key[m]] = Check(dedup[Key[m]], job[c].at)]
         /\ job'[c].stage = "alarmed" =>
              Kind[m] # "face" /\ OpensWindow(dedup[Key[m]], job[c].at)
         /\ \A d \in Conns \ {c} : pc'[d] = pc[d] /\ job'[d] = job[d]
  <1> DEFINE m == job[c].msg
             stage == Stage(m, job[c].at)
             entry == Check(dedup[Key[m]], job[c].at)
             n == IF stage = "duplicate" THEN entry.count ELSE 1
  <1>1. /\ stage = "blocked" <=> Kind[m] = "face"
        /\ stage = "alarmed" => Kind[m] # "face" /\ OpensWindow(dedup[Key[m]], job[c].at)
    <2>1. CASE Kind[m] = "face"
      BY <2>1 DEF Stage
    <2>2. CASE Kind[m] # "face" /\ ~OpensWindow(dedup[Key[m]], job[c].at)
      BY <2>2 DEF Stage
    <2>3. CASE Kind[m] # "face" /\ OpensWindow(dedup[Key[m]], job[c].at)
      <3>1. CASE Kind[m] = "no_match"
        BY <2>3, <3>1 DEF Stage
      <3>2. CASE Kind[m] # "no_match"
        BY <2>3, <3>2 DEF Stage
      <3> QED BY <3>1, <3>2
    <2> QED BY <2>1, <2>2, <2>3
  <1>2. /\ dedup' = IF stage = "blocked" THEN dedup ELSE [dedup EXCEPT ![Key[m]] = entry]
        /\ job' = [job EXCEPT ![c] = [job[c] EXCEPT !.stage = stage, !.count = n]]
        /\ pc' = [pc EXCEPT ![c] = IF stage = "blocked" THEN "record" ELSE "lookup"]
        /\ Kind[m] # "orphan"
    BY DEF Process, GoTo
  <1> HIDE DEF stage, n
  <1>3. job[c] \in Job /\ pc \in [Conns -> PCs] /\ job \in [Conns -> Job]
    BY DEF TypeOK
  <1>4. job'[c] = [job[c] EXCEPT !.stage = stage, !.count = n]
    BY <1>2, <1>3
  <1>5. /\ job'[c].msg = m /\ job'[c].id = job[c].id /\ job'[c].at = job[c].at
        /\ job'[c].stored = job[c].stored /\ job'[c].fresh = job[c].fresh
        /\ job'[c].inserted = job[c].inserted /\ job'[c].stage = stage
    BY <1>3, <1>4 DEF Job
  <1>6. \A d \in Conns \ {c} : pc'[d] = pc[d] /\ job'[d] = job[d]
    BY <1>2, <1>3
  <1>7. pc'[c] = IF stage = "blocked" THEN "record" ELSE "lookup"
    BY <1>2, <1>3
  <1> QED BY <1>1, <1>2, <1>5, <1>6, <1>7
-----------------------------------------------------------------------------
(***************************************************************************)
(* What a handler has done by each program counter.  It is the bridge from *)
(* the rows to the answer and the push: each of the four properties below  *)
(* speaks of a set that only grows and of rows written several awaits      *)
(* earlier, so it is inductive only with the handler's own locals in       *)
(* between.                                                                *)
(***************************************************************************)
AfterFlow == {"lookup", "record", "insert", "touch", "write", "commit", "publish"}

\* The mail's delivery row, heartbeat and, unless it is a face, event exist.
OnRecord(m) ==
    /\ m \in emails
    /\ Device[m] \in heard
    /\ Kind[m] # "face" => EventsOf(m) # {}

\* The uuids are the delivery's own and a stored snapshot is in the store.
LocalsAreOwn(c) ==
    /\ job[c].id[1] = job[c].msg
    /\ job[c].stored => job[c].id \in objects

\* The stage says whether the mail was a face; only other mails get an upload.
StageIsKnown(c) ==
    /\ pc[c] \in AfterFlow =>
         /\ Kind[job[c].msg] # "orphan"
         /\ job[c].stage = "blocked" <=> Kind[job[c].msg] = "face"
    /\ pc[c] = "lookup" => Kind[job[c].msg] # "face"

\* The open transaction has, or will commit, the delivery row and an event.
TransactionIsWhole(c) ==
    /\ pc[c] \in {"touch", "write", "commit"} => job[c].inserted \/ job[c].msg \in emails
    /\ pc[c] = "commit" =>
         /\ job[c].fresh => job[c].stage # "blocked"
         /\ job[c].stage = "blocked" \/ job[c].fresh \/ EventsOf(job[c].msg) # {}

\* After the commit everything the broadcast, the push and the answer name is
\* there.
CommittedIsThere(c) ==
    /\ pc[c] \in {"publish", "answer"} /\ Kind[job[c].msg] # "orphan" => OnRecord(job[c].msg)
    /\ pc[c] = "publish" /\ job[c].fresh =>
         /\ \E e \in events : e.id = job[c].id
         /\ job[c].stage = "alarmed" => \E a \in alarms : a.id = job[c].id

HandlerInv(c) ==
    LocalsAreOwn(c) /\ StageIsKnown(c) /\ TransactionIsWhole(c) /\ CommittedIsThere(c)

\* Neither the object store, nor the events, nor a dedup window knows a face.
NoFaceStored ==
    /\ \A id \in objects : Kind[id[1]] # "face"
    /\ \A e \in events : Kind[e.msg] # "face"
    /\ \A k \in Keys : dedup[k] # NoEntry => \E n \in Messages : Key[n] = k /\ Kind[n] # "face"

IntakeInv ==
    /\ \A c \in Conns : HandlerInv(c)
    /\ NoFaceStored
    /\ AcceptedIsStored
    /\ RowsBeforePush
    /\ MediaRowsBacked

\* A handler's invariant outlives the other handlers' steps: rows and objects
\* are never taken back.
LEMMA OthersKeepTheirs ==
  ASSUME TypeOK, [Next]_vars, NEW d \in Conns, HandlerInv(d),
         pc'[d] = pc[d], job'[d] = job[d]
  PROVE  HandlerInv(d)'
  BY RowsOnlyGrow
     DEF TypeOK, HandlerInv, LocalsAreOwn, StageIsKnown, TransactionIsWhole, CommittedIsThere,
         OnRecord, EventsOf

\* A handler that has ended owes nothing.
LEMMA IdleOwesNothing ==
  ASSUME NEW c \in Conns, pc'[c] = "idle", job'[c] = Idle
  PROVE  HandlerInv(c)'
  BY DEF HandlerInv, LocalsAreOwn, StageIsKnown, TransactionIsWhole, CommittedIsThere,
         AfterFlow, Idle, NewJob

LEMMA IntakeInvariant == Spec => []IntakeInv
<1>1. Init => IntakeInv
  BY DEF Init, IntakeInv, HandlerInv, LocalsAreOwn, StageIsKnown, TransactionIsWhole,
         CommittedIsThere, AfterFlow, Idle, NewJob, NoFaceStored, AcceptedIsStored,
         RowsBeforePush, MediaRowsBacked
<1>2. TypeOK /\ IdInv /\ IntakeInv /\ [Next]_vars => IntakeInv'
  <2> SUFFICES ASSUME TypeOK, IdInv, IntakeInv, [Next]_vars
               PROVE  IntakeInv'
    OBVIOUS
  <2>0. /\ emails \subseteq emails' /\ events \subseteq events' /\ alarms \subseteq alarms'
        /\ heard \subseteq heard' /\ objects \subseteq objects'
    BY RowsOnlyGrow
  <2>a. ASSUME NEW c \in Conns, \A d \in Conns \ {c} : pc'[d] = pc[d] /\ job'[d] = job[d],
               HandlerInv(c)'
        PROVE  \A d \in Conns : HandlerInv(d)'
    BY <2>a, OthersKeepTheirs DEF IntakeInv
  <2>b. ASSUME UNCHANGED <<objects, events, dedup, alarms, frames, pushes, accepted, emails, heard>>
        PROVE  (NoFaceStored /\ AcceptedIsStored /\ RowsBeforePush /\ MediaRowsBacked)'
    BY <2>b DEF IntakeInv, NoFaceStored, AcceptedIsStored, RowsBeforePush, MediaRowsBacked, EventsOf
  <2> USE DEF GoTo, Finish, rows, sender
  <2>1. ASSUME NEW c \in Conns, NEW m \in Messages, Deliver(c, m)
        PROVE  IntakeInv'
    <3>1. /\ pc'[c] = "context"
          /\ job'[c] = NewJob(m, clock, <<m, attempts'[m]>>)
          /\ \A d \in Conns \ {c} : pc'[d] = pc[d] /\ job'[d] = job[d]
      BY <2>1 DEF Deliver, TypeOK
    <3>2. HandlerInv(c)'
      BY <3>1 DEF HandlerInv, LocalsAreOwn, StageIsKnown, TransactionIsWhole, CommittedIsThere,
                  AfterFlow, NewJob
    <3> QED BY <2>1, <2>a, <2>b, <3>1, <3>2 DEF Deliver, IntakeInv
  <2>2. ASSUME NEW c \in Conns, DeviceGone(c)
        PROVE  IntakeInv'
    <3>1. /\ pc'[c] = "answer" /\ job'[c] = job[c] /\ Kind[job[c].msg] = "orphan"
          /\ \A d \in Conns \ {c} : pc'[d] = pc[d] /\ job'[d] = job[d]
      BY <2>2 DEF DeviceGone, TypeOK
    <3>2. HandlerInv(c)'
      BY <2>0, <3>1 DEF IntakeInv, HandlerInv, LocalsAreOwn, StageIsKnown, TransactionIsWhole,
                  CommittedIsThere, AfterFlow
    <3> QED BY <2>2, <2>a, <2>b, <3>1, <3>2 DEF DeviceGone, IntakeInv
  <2>3. ASSUME NEW c \in Conns, Process(c)
        PROVE  IntakeInv'
    <3>1. HandlerInv(c)'
      BY <2>0, <2>3, ProcessEffect
         DEF IntakeInv, HandlerInv, LocalsAreOwn, StageIsKnown, TransactionIsWhole,
             CommittedIsThere, AfterFlow
    <3>2. NoFaceStored'
      <4>1. job[c].msg \in Messages
        BY DEF TypeOK, Job
      <4>2. \A k \in Keys : dedup'[k] # dedup[k] => k = Key[job[c].msg] /\ Kind[job[c].msg] # "face"
        BY <2>3, ProcessEffect DEF TypeOK
      <4> QED BY <2>3, <4>1, <4>2 DEF Process, IntakeInv, NoFaceStored
    <3>3. (AcceptedIsStored /\ RowsBeforePush /\ MediaRowsBacked)'
      BY <2>3 DEF Process, IntakeInv, AcceptedIsStored, RowsBeforePush, MediaRowsBacked, EventsOf
    <3> QED BY <2>3, <2>a, <3>1, <3>2, <3>3, ProcessEffect DEF IntakeInv
  <2>4. ASSUME NEW c \in Conns, LookupAndUpload(c)
        PROVE  IntakeInv'
    <3>1. /\ pc[c] = "lookup" /\ pc'[c] = "record"
          /\ job'[c].msg = job[c].msg /\ job'[c].id = job[c].id /\ job'[c].stage = job[c].stage
          /\ job'[c].stored => job[c].id \in objects'
          /\ objects' \subseteq objects \cup {job[c].id}
          /\ \A d \in Conns \ {c} : pc'[d] = pc[d] /\ job'[d] = job[d]
      BY <2>4 DEF LookupAndUpload, TypeOK, Job
    <3>2. HandlerInv(c)'
      BY <3>1 DEF IntakeInv, HandlerInv, LocalsAreOwn, StageIsKnown, TransactionIsWhole,
                  CommittedIsThere, AfterFlow
    <3>3. NoFaceStored'
      BY <2>4, <3>1 DEF LookupAndUpload, IntakeInv, NoFaceStored, HandlerInv, LocalsAreOwn, StageIsKnown
    <3>4. (AcceptedIsStored /\ RowsBeforePush /\ MediaRowsBacked)'
      BY <2>0, <2>4 DEF LookupAndUpload, IntakeInv, AcceptedIsStored, RowsBeforePush,
                        MediaRowsBacked, EventsOf
    <3> QED BY <2>a, <3>1, <3>2, <3>3, <3>4 DEF IntakeInv
  <2>5. ASSUME NEW c \in Conns, SelectMessage(c)
        PROVE  IntakeInv'
    <3>1. /\ pc[c] = "record" /\ job'[c] = job[c]
          /\ pc'[c] = IF job[c].msg \in emails THEN "touch" ELSE "insert"
          /\ \A d \in Conns \ {c} : pc'[d] = pc[d] /\ job'[d] = job[d]
      BY <2>5 DEF SelectMessage, TypeOK
    <3>2. HandlerInv(c)'
      BY <2>0, <3>1 DEF IntakeInv, HandlerInv, LocalsAreOwn, StageIsKnown, TransactionIsWhole,
                        CommittedIsThere, AfterFlow
    <3> QED BY <2>5, <2>a, <2>b, <3>1, <3>2 DEF SelectMessage, IntakeInv
  <2>6. ASSUME NEW c \in Conns, InsertMessage(c)
        PROVE  IntakeInv'
    <3>1. \A d \in Conns \ {c} : pc'[d] = pc[d] /\ job'[d] = job[d]
      BY <2>6 DEF InsertMessage, TypeOK
    <3>2. HandlerInv(c)'
      <4>1. CASE Finish(c)
        BY <4>1, IdleOwesNothing DEF TypeOK
      <4>2. CASE job' = [job EXCEPT ![c].inserted = TRUE] /\ GoTo(c, "touch")
        <5>1. /\ pc[c] = "insert" /\ pc'[c] = "touch"
              /\ job'[c].msg = job[c].msg /\ job'[c].id = job[c].id
              /\ job'[c].stage = job[c].stage /\ job'[c].stored = job[c].stored
              /\ job'[c].inserted
          BY <2>6, <4>2 DEF InsertMessage, TypeOK, Job
        <5> QED BY <2>0, <5>1 DEF IntakeInv, HandlerInv, LocalsAreOwn, StageIsKnown,
                             TransactionIsWhole, CommittedIsThere, AfterFlow
      <4> QED BY <2>6, <4>1, <4>2 DEF InsertMessage
    <3> QED BY <2>6, <2>a, <2>b, <3>1, <3>2 DEF InsertMessage, IntakeInv
  <2>7. ASSUME NEW c \in Conns, TouchHeartbeat(c)
        PROVE  IntakeInv'
    <3>1. /\ pc[c] = "touch" /\ pc'[c] = "write"
          /\ job'[c].msg = job[c].msg /\ job'[c].id = job[c].id
          /\ job'[c].stage = job[c].stage /\ job'[c].stored = job[c].stored
          /\ job'[c].inserted = job[c].inserted
          /\ \A d \in Conns \ {c} : pc'[d] = pc[d] /\ job'[d] = job[d]
      BY <2>7 DEF TouchHeartbeat, TypeOK, Job
    <3>2. HandlerInv(c)'
      BY <2>0, <3>1 DEF IntakeInv, HandlerInv, LocalsAreOwn, StageIsKnown, TransactionIsWhole,
                        CommittedIsThere, AfterFlow
    <3> QED BY <2>7, <2>a, <2>b, <3>1, <3>2 DEF TouchHeartbeat, IntakeInv
  <2>8. ASSUME NEW c \in Conns, WriteRows(c)
        PROVE  IntakeInv'
    <3> DEFINE new == job[c].stage # "blocked" /\ EventsOf(job[c].msg) = {}
    <3>0. /\ pc[c] = "write"
          /\ \/ Finish(c)
             \/ job' = [job EXCEPT ![c].fresh = new] /\ GoTo(c, "commit")
          /\ UNCHANGED <<objects, events, dedup, alarms, frames, pushes, accepted, emails, heard>>
      BY <2>8 DEF WriteRows
    <3>n. /\ new => job[c].stage # "blocked"
          /\ job[c].stage = "blocked" \/ new \/ EventsOf(job[c].msg) # {}
          /\ new \in BOOLEAN
      OBVIOUS
    <3> HIDE DEF new
    <3>1. \A d \in Conns \ {c} : pc'[d] = pc[d] /\ job'[d] = job[d]
      BY <3>0 DEF TypeOK
    <3>2. HandlerInv(c)'
      <4>1. CASE Finish(c)
        BY <4>1, IdleOwesNothing DEF TypeOK
      <4>2. CASE job' = [job EXCEPT ![c].fresh = new] /\ GoTo(c, "commit")
        <5>1. /\ pc'[c] = "commit"
              /\ job'[c].msg = job[c].msg /\ job'[c].id = job[c].id
              /\ job'[c].stage = job[c].stage /\ job'[c].stored = job[c].stored
              /\ job'[c].inserted = job[c].inserted /\ job'[c].fresh = new
          BY <4>2 DEF TypeOK, Job
        <5>2. (LocalsAreOwn(c) /\ StageIsKnown(c) /\ CommittedIsThere(c))'
          BY <2>0, <3>0, <5>1 DEF IntakeInv, HandlerInv, LocalsAreOwn, StageIsKnown,
                             CommittedIsThere, AfterFlow
        <5>3. TransactionIsWhole(c)'
          BY <2>0, <3>0, <3>n, <5>1 DEF IntakeInv, HandlerInv, TransactionIsWhole, EventsOf
        <5> QED BY <5>2, <5>3 DEF HandlerInv
      <4> QED BY <3>0, <4>1, <4>2
    <3> QED BY <3>0, <2>a, <2>b, <3>1, <3>2 DEF IntakeInv
  <2>9. ASSUME NEW c \in Conns, Commit(c)
        PROVE  IntakeInv'
    <3> DEFINE j == job[c]
               e == [id |-> j.id, msg |-> j.msg, stage |-> j.stage, count |-> j.count,
                     media |-> j.stored]
               a == [id |-> j.id, msg |-> j.msg, at |-> j.at, epoch |-> epoch]
    <3>0. /\ pc[c] = "commit" /\ pc'[c] = "publish" /\ job'[c] = j
          /\ \A d \in Conns \ {c} : pc'[d] = pc[d] /\ job'[d] = job[d]
      BY <2>9 DEF Commit, TypeOK
    <3>1. /\ j.inserted => j.msg \in emails'
          /\ Device[j.msg] \in heard'
          /\ events' = IF j.fresh THEN events \cup {e} ELSE events
          /\ j.fresh /\ j.stage = "alarmed" => a \in alarms'
          /\ UNCHANGED <<objects, dedup, frames, pushes, accepted>>
      BY <2>9 DEF Commit, PersistedAlarm
    <3>2. e.id = j.id /\ e.msg = j.msg /\ e.media = j.stored /\ a.id = j.id
      OBVIOUS
    <3>3. HandlerInv(c)
      BY DEF IntakeInv
    <3> HIDE DEF e, a
    <3>4. HandlerInv(c)'
      <4>1. OnRecord(j.msg)'
        BY <2>0, <3>0, <3>1, <3>2, <3>3
           DEF OnRecord, HandlerInv, StageIsKnown, TransactionIsWhole, AfterFlow, EventsOf
      <4>2. (LocalsAreOwn(c) /\ StageIsKnown(c) /\ TransactionIsWhole(c))'
        BY <2>0, <3>0, <3>3 DEF HandlerInv, LocalsAreOwn, StageIsKnown, TransactionIsWhole, AfterFlow
      <4>3. CommittedIsThere(c)'
        BY <3>0, <3>1, <3>2, <4>1 DEF CommittedIsThere
      <4> QED BY <4>2, <4>3 DEF HandlerInv
    <3>5. NoFaceStored'
      BY <3>0, <3>1, <3>2, <3>3 DEF IntakeInv, NoFaceStored, HandlerInv, StageIsKnown,
                              TransactionIsWhole, AfterFlow
    <3>6. AcceptedIsStored'
      BY <2>0, <3>1 DEF IntakeInv, AcceptedIsStored, EventsOf
    <3>7. RowsBeforePush'
      BY <2>0, <3>1 DEF IntakeInv, RowsBeforePush
    <3>8. MediaRowsBacked'
      BY <3>1, <3>2, <3>3 DEF IntakeInv, MediaRowsBacked, HandlerInv, LocalsAreOwn
    <3> QED BY <2>a, <3>0, <3>4, <3>5, <3>6, <3>7, <3>8 DEF IntakeInv
  <2>10. ASSUME NEW c \in Conns, PublishAndNotify(c)
         PROVE  IntakeInv'
    <3> DEFINE frame == [type |-> IF HasPush(c) THEN "alarm" ELSE "event",
                         id |-> job[c].id, event |-> PersistedEvent(c)]
    <3>0. /\ pc[c] = "publish" /\ pc'[c] = "answer" /\ job'[c] = job[c]
          /\ \A d \in Conns \ {c} : pc'[d] = pc[d] /\ job'[d] = job[d]
      BY <2>10 DEF PublishAndNotify, TypeOK
    <3>1. /\ frames' = IF job[c].stage = "blocked" THEN frames ELSE frames \cup {frame}
          /\ UNCHANGED <<objects, events, alarms, emails, heard, dedup, accepted>>
      BY <2>10 DEF PublishAndNotify
    <3>2. HandlerInv(c)
      BY DEF IntakeInv
    <3>3. HandlerInv(c)'
      BY <2>0, <3>0, <3>1, <3>2 DEF HandlerInv, LocalsAreOwn, StageIsKnown, TransactionIsWhole,
                                    CommittedIsThere, AfterFlow, OnRecord, EventsOf
    <3>4. RowsBeforePush'
      <4>1. \A id \in pushes' : \E a \in alarms' : a.id = id
        BY <2>10, <3>0, <3>1, <3>2
           DEF PublishAndNotify, Notifies, PersistedAlarm, IntakeInv, RowsBeforePush, HandlerInv,
               CommittedIsThere
      <4>2. job[c].stage # "blocked" => \E e \in events : e.id = PersistedEvent(c)
        <5>1. CASE job[c].fresh
          BY <3>0, <3>2, <5>1 DEF HandlerInv, CommittedIsThere, PersistedEvent
        <5>2. CASE ~job[c].fresh /\ job[c].stage # "blocked"
          <6>1. EventsOf(job[c].msg) # {}
            BY <3>0, <3>2, <5>2 DEF HandlerInv, StageIsKnown, CommittedIsThere, OnRecord, AfterFlow
          <6> QED BY <5>2, <6>1 DEF PersistedEvent, EventsOf
        <5> QED BY <5>1, <5>2
      <4>3. frame.event = PersistedEvent(c)
        OBVIOUS
      <4>4. frame.id = job[c].id /\ (frame.type = "alarm" => job[c].stage = "alarmed")
        BY DEF HasPush
      <4> HIDE DEF frame
      <4>5. \A f \in frames' : \E e \in events' : e.id = f.event
        BY <3>1, <4>2, <4>3 DEF IntakeInv, RowsBeforePush
      <4>6. job[c].stage # "blocked" /\ ~job[c].fresh => frame.event # job[c].id
        BY <3>0, <4>2, <4>3 DEF IdInv, Unwritten
      <4>7. frame.type = "alarm" /\ frame.id = frame.event /\ job[c].stage # "blocked"
            => \E a \in alarms : a.id = frame.id
        BY <3>0, <3>2, <4>6, <4>4 DEF HandlerInv, CommittedIsThere
      <4>8. \A f \in frames' : f.type = "alarm" /\ f.id = f.event => \E a \in alarms' : a.id = f.id
        BY <3>1, <4>7 DEF IntakeInv, RowsBeforePush
      <4> QED BY <4>1, <4>5, <4>8 DEF RowsBeforePush
    <3>5. (NoFaceStored /\ AcceptedIsStored /\ MediaRowsBacked)'
      BY <3>1 DEF IntakeInv, NoFaceStored, AcceptedIsStored, MediaRowsBacked, EventsOf
    <3> QED BY <2>a, <3>0, <3>3, <3>4, <3>5 DEF IntakeInv
  <2>11. ASSUME NEW c \in Conns, Answer(c)
         PROVE  IntakeInv'
    <3>1. /\ pc'[c] = "idle" /\ job'[c] = Idle
          /\ \A d \in Conns \ {c} : pc'[d] = pc[d] /\ job'[d] = job[d]
      BY <2>11 DEF Answer, TypeOK
    <3>2. HandlerInv(c)'
      BY <3>1, IdleOwesNothing
    <3>3. AcceptedIsStored'
      BY <2>11 DEF Answer, IntakeInv, AcceptedIsStored, HandlerInv, CommittedIsThere, OnRecord, EventsOf
    <3>4. (NoFaceStored /\ RowsBeforePush /\ MediaRowsBacked)'
      BY <2>11 DEF Answer, IntakeInv, NoFaceStored, RowsBeforePush, MediaRowsBacked
    <3> QED BY <2>a, <3>1, <3>2, <3>3, <3>4 DEF IntakeInv
  <2>12. ASSUME NEW c \in Conns, Fail(c) \/ ConnectionLost(c)
         PROVE  IntakeInv'
    <3>1. /\ pc'[c] = "idle" /\ job'[c] = Idle
          /\ \A d \in Conns \ {c} : pc'[d] = pc[d] /\ job'[d] = job[d]
          /\ UNCHANGED <<objects, events, dedup, alarms, frames, pushes, accepted, emails, heard>>
      BY <2>12 DEF Fail, ConnectionLost, TypeOK
    <3> QED BY <2>a, <2>b, <3>1, IdleOwesNothing DEF IntakeInv
  <2>13. CASE Restart
    <3>1. \A c \in Conns : pc'[c] = "idle" /\ job'[c] = Idle
      BY <2>13 DEF Restart
    <3>2. (NoFaceStored /\ AcceptedIsStored /\ RowsBeforePush /\ MediaRowsBacked)'
      BY <2>13 DEF Restart, IntakeInv, NoFaceStored, AcceptedIsStored, RowsBeforePush,
                   MediaRowsBacked, EventsOf
    <3> QED BY <3>1, <3>2, IdleOwesNothing DEF IntakeInv
  <2>14. CASE Tick
    BY <2>14, <2>b, OthersKeepTheirs DEF Tick, IntakeInv
  <2>15. CASE UNCHANGED vars
    BY <2>15, <2>b, OthersKeepTheirs DEF vars, IntakeInv
  <2> QED
    BY <2>1, <2>2, <2>3, <2>4, <2>5, <2>6, <2>7, <2>8, <2>9, <2>10, <2>11, <2>12,
       <2>13, <2>14, <2>15 DEF Next, Handle
<1> QED BY <1>1, <1>2, TypeCorrect, IdsAreOwn, PTL DEF Spec

\* A 250 means that the rows are there, whatever failed, was repeated or ran
\* beside it (handle_DATA, MailIntake.handle).
THEOREM AcceptedStored == Spec => []AcceptedIsStored
  BY IntakeInvariant, PTL DEF IntakeInv

\* A push names a committed alarm, a frame a committed event, and an alarm frame
\* a committed alarm unless it repeats a delivery that has an event already
\* (MailIntake.handle publishes after session_scope has committed).
THEOREM RowsThenPush == Spec => []RowsBeforePush
  BY IntakeInvariant, PTL DEF IntakeInv

\* A media row is backed by an object (_upload_snapshot before persist_flow).
THEOREM MediaBacked == Spec => []MediaRowsBacked
  BY IntakeInvariant, PTL DEF IntakeInv

\* A face alarm leaves its delivery record and nothing else (process, intake).
THEOREM NoFaceTrace == Spec => []FaceLeavesNoTrace
<1>1. TypeOK /\ IntakeInv => FaceLeavesNoTrace
  <2> SUFFICES ASSUME TypeOK, IntakeInv, NEW m \in Messages, Kind[m] = "face"
               PROVE  /\ EventsOf(m) = {}
                      /\ \A c \in Conns : job[c].msg = m => job[c].id \notin objects
                      /\ (\A n \in Messages : Key[n] = Key[m] => Kind[n] = "face")
                            => dedup[Key[m]] = NoEntry
    BY DEF FaceLeavesNoTrace
  <2>1. EventsOf(m) = {}
    BY DEF IntakeInv, NoFaceStored, EventsOf
  <2>2. \A c \in Conns : job[c].msg = m => job[c].id \notin objects
    BY DEF IntakeInv, NoFaceStored, HandlerInv, LocalsAreOwn
  <2>3. Key[m] \in Keys
    BY DEF Keys
  <2> QED BY <2>1, <2>2, <2>3 DEF IntakeInv, NoFaceStored
<1> QED BY <1>1, TypeCorrect, IntakeInvariant, PTL
-----------------------------------------------------------------------------
(***************************************************************************)
(* One alarm per window.  An opening is an alarm of the living process or  *)
(* a handler that will write one.  The handlers commit in any order and    *)
(* their received_at need not be in the order in which process() ran, so   *)
(* what is inductive is: no opening of a key is later than its window's    *)
(* first sighting, and any two are a window apart.                         *)
(***************************************************************************)
Pending(c) ==
    /\ pc[c] \in {"lookup", "record", "insert", "touch", "write", "commit"}
    /\ job[c].stage = "alarmed"

Apart(s, t) == s - t >= Window \/ t - s >= Window

NotAfterFirst(m, at) == dedup[Key[m]].count > 0 /\ at <= dedup[Key[m]].first

PendingInWindow ==
    \A c \in Conns : Pending(c) => NotAfterFirst(job[c].msg, job[c].at)

AlarmsInWindow ==
    \A a \in alarms : a.epoch <= epoch /\ (a.epoch = epoch => NotAfterFirst(a.msg, a.at))

PendingApart ==
    \A c, d \in Conns :
        (c # d /\ Pending(c) /\ Pending(d) /\ Key[job[c].msg] = Key[job[d].msg])
            => Apart(job[c].at, job[d].at)

PendingFromAlarms ==
    \A c \in Conns, a \in alarms :
        (Pending(c) /\ a.epoch = epoch /\ Key[job[c].msg] = Key[a.msg]) => Apart(job[c].at, a.at)

WindowInv ==
    PendingInWindow /\ AlarmsInWindow /\ PendingApart /\ PendingFromAlarms /\ OneAlarmPerWindow

\* A check never moves a window back, and opens one only a full window after
\* the last (DedupWindow.check).
LEMMA CheckMovesOn ==
  ASSUME NEW entry \in [first : Nat, count : Nat], NEW at \in Nat
  PROVE  /\ Check(entry, at).count > 0
         /\ entry.count > 0 => entry.first <= Check(entry, at).first
         /\ OpensWindow(entry, at) =>
              /\ Check(entry, at).first = at
              /\ entry.count > 0 => at - entry.first >= Window
  <1>1. CASE OpensWindow(entry, at)
    BY <1>1, IntakeAssumption DEF Check, OpensWindow
  <1>2. CASE ~OpensWindow(entry, at)
    <2>1. Check(entry, at) = [entry EXCEPT !.count = entry.count + 1]
      BY <1>2 DEF Check
    <2>2. Check(entry, at).count = entry.count + 1 /\ Check(entry, at).first = entry.first
      BY <2>1
    <2> QED BY <1>2, <2>2
  <1> QED BY <1>1, <1>2

\* Two alarms of one dedup key and one life of the process were received at
\* least a window apart, in whatever order the handlers ran (dedup.py).
THEOREM OneAlarm == Spec => []OneAlarmPerWindow
<1>1. Init => WindowInv
  BY DEF Init, WindowInv, PendingInWindow, AlarmsInWindow, PendingApart, PendingFromAlarms,
         OneAlarmPerWindow, Pending
<1>2. TypeOK /\ WindowInv /\ [Next]_vars => WindowInv'
  <2> SUFFICES ASSUME TypeOK, WindowInv, [Next]_vars
               PROVE  WindowInv'
    OBVIOUS
  <2> USE DEF GoTo, Finish, rows, sender
  <2>a. ASSUME UNCHANGED <<dedup, alarms, epoch>>,
               \A c \in Conns : Pending(c)' =>
                  Pending(c) /\ job'[c].msg = job[c].msg /\ job'[c].at = job[c].at
        PROVE  WindowInv'
    BY <2>a DEF WindowInv, PendingInWindow, AlarmsInWindow, PendingApart, PendingFromAlarms,
                OneAlarmPerWindow, NotAfterFirst
  <2>1. ASSUME NEW c \in Conns, NEW m \in Messages, Deliver(c, m)
        PROVE  WindowInv'
    BY <2>1, <2>a DEF Deliver, TypeOK, Pending
  <2>2. ASSUME NEW c \in Conns, DeviceGone(c) \/ SelectMessage(c)
        PROVE  WindowInv'
    BY <2>2, <2>a DEF DeviceGone, SelectMessage, TypeOK, Pending
  <2>3. ASSUME NEW c \in Conns, Process(c)
        PROVE  WindowInv'
    <3> DEFINE m == job[c].msg
               at == job[c].at
               k == Key[m]
    <3>1. /\ m \in Messages /\ at \in Nat /\ k \in Keys
          /\ dedup[k] \in [first : Nat, count : Nat]
      BY DEF TypeOK, Job, Keys
    <3>2. CASE Kind[m] = "face"
      <4>1. ~Pending(c)'
        BY <2>3, <3>2, ProcessEffect DEF Pending
      <4>2. UNCHANGED <<dedup, alarms, epoch>>
        BY <2>3, <3>2, ProcessEffect DEF Process
      <4> QED BY <2>3, <2>a, <4>1, <4>2, ProcessEffect DEF Pending
    <3>3. CASE Kind[m] # "face"
      <4>1. /\ dedup' = [dedup EXCEPT ![k] = Check(dedup[k], at)]
            /\ UNCHANGED <<alarms, epoch>>
            /\ job'[c].msg = m /\ job'[c].at = at
            /\ \A d \in Conns \ {c} : pc'[d] = pc[d] /\ job'[d] = job[d]
        BY <2>3, <3>3, ProcessEffect DEF Process
      <4>2. /\ dedup'[k] = Check(dedup[k], at)
            /\ \A l \in Keys \ {k} : dedup'[l] = dedup[l]
        BY <3>1, <4>1 DEF TypeOK
      <4>3. /\ dedup'[k].count > 0
            /\ dedup[k].count > 0 => dedup[k].first <= dedup'[k].first
            /\ dedup'[k].first \in Nat
        BY <3>1, <4>2, CheckMovesOn, CheckType
      <4>4. \A n \in Messages, t \in Nat : NotAfterFirst(n, t) => NotAfterFirst(n, t)'
        BY <3>1, <4>2, <4>3 DEF NotAfterFirst, Keys, TypeOK
      <4>5. Pending(c)' =>
              /\ at = dedup'[k].first
              /\ dedup[k].count > 0 => at - dedup[k].first >= Window
        <5> SUFFICES ASSUME Pending(c)'
                     PROVE  /\ at = dedup'[k].first
                            /\ dedup[k].count > 0 => at - dedup[k].first >= Window
          OBVIOUS
        <5>1. OpensWindow(dedup[k], at)
          BY <2>3, ProcessEffect DEF Pending
        <5> QED BY <3>1, <4>2, <5>1, CheckMovesOn
      <4>6. \A n \in Messages, t \in Nat :
              Pending(c)' /\ Key[n] = k /\ NotAfterFirst(n, t) => Apart(at, t) /\ Apart(t, at)
        BY <3>1, <4>5, IntakeAssumption DEF NotAfterFirst, Apart
      <4> HIDE DEF m, at, k
      <4>7. \A d \in Conns \ {c} : Pending(d)' <=> Pending(d)
        BY <4>1 DEF Pending
      <4>8. \A d \in Conns : job[d].msg \in Messages /\ job[d].at \in Nat
        BY DEF TypeOK, Job
      <4>9. \A a \in alarms : a.msg \in Messages /\ a.at \in Nat
        BY DEF TypeOK, AlarmRow
      <4>10. PendingInWindow'
        <5>1. Pending(c)' => dedup'[k].count > 0 /\ at <= dedup'[k].first
          BY <3>1, <4>3, <4>5
        <5>2. \A d \in Conns \ {c} : Pending(d)' => NotAfterFirst(job[d].msg, job[d].at)'
          <6> TAKE d \in Conns \ {c}
          <6> HAVE Pending(d)'
          <6>1. NotAfterFirst(job[d].msg, job[d].at)
            BY <4>7 DEF WindowInv, PendingInWindow
          <6>2. job'[d] = job[d]
            BY <4>1
          <6> QED BY <4>4, <4>8, <6>1, <6>2 DEF NotAfterFirst
        <5>3. Pending(c)' => NotAfterFirst(job[c].msg, job[c].at)'
          BY <4>1, <5>1 DEF NotAfterFirst, k
        <5> QED BY <5>2, <5>3 DEF PendingInWindow
      <4>11. AlarmsInWindow'
        <5> SUFFICES ASSUME NEW a \in alarms
                     PROVE  a.epoch <= epoch /\ (a.epoch = epoch => NotAfterFirst(a.msg, a.at)')
          BY <4>1 DEF AlarmsInWindow, NotAfterFirst
        <5> QED BY <4>4, <4>9 DEF WindowInv, AlarmsInWindow
      <4>12. PendingApart'
        <5>1. \A d \in Conns \ {c} :
                (Pending(c)' /\ Pending(d)' /\ k = Key[job[d].msg])
                   => Apart(at, job[d].at) /\ Apart(job[d].at, at)
          BY <4>6, <4>7, <4>8 DEF WindowInv, PendingInWindow
        <5> QED BY <4>1, <4>7, <5>1 DEF WindowInv, PendingApart, k
      <4>13. PendingFromAlarms'
        <5>1. \A a \in alarms :
                (Pending(c)' /\ a.epoch = epoch /\ k = Key[a.msg]) => Apart(at, a.at)
          BY <4>6, <4>9 DEF WindowInv, AlarmsInWindow
        <5> QED BY <4>1, <4>7, <5>1 DEF WindowInv, PendingFromAlarms, k
      <4>14. OneAlarmPerWindow'
        BY <4>1 DEF WindowInv, OneAlarmPerWindow
      <4> QED BY <4>10, <4>11, <4>12, <4>13, <4>14 DEF WindowInv
    <3> QED BY <3>2, <3>3
  <2>4. ASSUME NEW c \in Conns, LookupAndUpload(c)
        PROVE  WindowInv'
    <3>1. /\ pc[c] = "lookup"
          /\ job'[c].msg = job[c].msg /\ job'[c].at = job[c].at /\ job'[c].stage = job[c].stage
          /\ \A d \in Conns \ {c} : pc'[d] = pc[d] /\ job'[d] = job[d]
          /\ UNCHANGED <<dedup, alarms, epoch>>
      BY <2>4 DEF LookupAndUpload, TypeOK, Job
    <3> QED BY <2>a, <3>1 DEF Pending
  <2>5. ASSUME NEW c \in Conns, InsertMessage(c)
        PROVE  WindowInv'
    <3>1. /\ pc[c] = "insert"
          /\ pc'[c] # "idle" => /\ job'[c].msg = job[c].msg /\ job'[c].at = job[c].at
                                /\ job'[c].stage = job[c].stage
          /\ \A d \in Conns \ {c} : pc'[d] = pc[d] /\ job'[d] = job[d]
          /\ UNCHANGED <<dedup, alarms, epoch>>
      BY <2>5 DEF InsertMessage, TypeOK, Job
    <3> QED BY <2>a, <3>1 DEF Pending
  <2>6. ASSUME NEW c \in Conns, TouchHeartbeat(c)
        PROVE  WindowInv'
    <3>1. /\ pc[c] = "touch"
          /\ job'[c].msg = job[c].msg /\ job'[c].at = job[c].at /\ job'[c].stage = job[c].stage
          /\ \A d \in Conns \ {c} : pc'[d] = pc[d] /\ job'[d] = job[d]
          /\ UNCHANGED <<dedup, alarms, epoch>>
      BY <2>6 DEF TouchHeartbeat, TypeOK, Job
    <3> QED BY <2>a, <3>1 DEF Pending
  <2>7. ASSUME NEW c \in Conns, WriteRows(c)
        PROVE  WindowInv'
    <3> DEFINE new == job[c].stage # "blocked" /\ EventsOf(job[c].msg) = {}
    <3>1. /\ pc[c] = "write"
          /\ \/ Finish(c)
             \/ job' = [job EXCEPT ![c].fresh = new] /\ GoTo(c, "commit")
          /\ UNCHANGED <<dedup, alarms, epoch>>
      BY <2>7 DEF WriteRows
    <3> HIDE DEF new
    <3>2. /\ pc'[c] # "idle" => /\ job'[c].msg = job[c].msg /\ job'[c].at = job[c].at
                                /\ job'[c].stage = job[c].stage
          /\ \A d \in Conns \ {c} : pc'[d] = pc[d] /\ job'[d] = job[d]
      BY <3>1 DEF TypeOK, Job
    <3> QED BY <2>a, <3>1, <3>2 DEF Pending
  <2>8. ASSUME NEW c \in Conns, Commit(c)
        PROVE  WindowInv'
    <3> DEFINE j == job[c]
               b == [id |-> j.id, msg |-> j.msg, at |-> j.at, epoch |-> epoch]
    <3>1. /\ pc[c] = "commit" /\ ~Pending(c)' /\ UNCHANGED <<dedup, epoch, job>>
          /\ \A d \in Conns \ {c} : pc'[d] = pc[d]
          /\ \A a \in alarms' \ alarms : a = b /\ j.stage = "alarmed"
          /\ alarms \subseteq alarms'
      BY <2>8 DEF Commit, PersistedAlarm, TypeOK, Pending
    <3>2. b.msg = j.msg /\ b.at = j.at /\ b.epoch = epoch
      OBVIOUS
    <3>3. j.msg \in Messages /\ j.at \in Nat /\ epoch \in Nat
      BY DEF TypeOK, Job
    <3> HIDE DEF b
    <3>4. \A d \in Conns : Pending(d)' => Pending(d) /\ d # c
      BY <3>1 DEF Pending
    <3>5. PendingInWindow' /\ PendingApart'
      BY <3>1, <3>4 DEF WindowInv, PendingInWindow, PendingApart, NotAfterFirst
    <3>6. alarms' \ alarms # {} => Pending(c)
      BY <3>1 DEF Pending
    <3>7. \A a \in alarms' \ alarms : a.msg = j.msg /\ a.at = j.at /\ a.epoch = epoch
      BY <3>1, <3>2
    <3>8. AlarmsInWindow'
      <4>1. \A a \in alarms' \ alarms : a.epoch <= epoch /\ NotAfterFirst(a.msg, a.at)
        BY <3>3, <3>6, <3>7 DEF WindowInv, PendingInWindow
      <4> QED BY <3>1, <4>1 DEF WindowInv, AlarmsInWindow, NotAfterFirst
    <3>9. PendingFromAlarms'
      <4>1. \A d \in Conns, a \in alarms' \ alarms :
              Pending(d)' /\ Key[job[d].msg] = Key[a.msg] => Apart(job[d].at, a.at)
        BY <3>4, <3>6, <3>7 DEF WindowInv, PendingApart
      <4> QED BY <3>1, <3>4, <4>1 DEF WindowInv, PendingFromAlarms
    <3>10. OneAlarmPerWindow'
      <4>1. \A a \in alarms' \ alarms, x \in alarms :
              Key[a.msg] = Key[x.msg] /\ a.epoch = x.epoch => Apart(a.at, x.at)
        BY <3>6, <3>7 DEF WindowInv, PendingFromAlarms
      <4>2. \A a, x \in alarms' \ alarms : a = x
        BY <3>1
      <4> QED BY <3>1, <4>1, <4>2 DEF WindowInv, OneAlarmPerWindow, Apart
    <3> QED BY <3>5, <3>8, <3>9, <3>10 DEF WindowInv
  <2>9. ASSUME NEW c \in Conns,
               PublishAndNotify(c) \/ Answer(c) \/ Fail(c) \/ ConnectionLost(c)
        PROVE  WindowInv'
    <3>1. /\ ~Pending(c)' /\ UNCHANGED <<dedup, alarms, epoch>>
          /\ \A d \in Conns \ {c} : pc'[d] = pc[d] /\ job'[d] = job[d]
      BY <2>9 DEF PublishAndNotify, Answer, Fail, ConnectionLost, TypeOK, Pending
    <3> QED BY <2>a, <3>1 DEF Pending
  <2>10. CASE Restart
    <3>1. \A c \in Conns : ~Pending(c)'
      BY <2>10 DEF Restart, Pending
    <3>2. AlarmsInWindow'
      <4>1. \A a \in alarms : a.epoch \in Nat /\ epoch \in Nat
        BY DEF TypeOK, AlarmRow
      <4> QED BY <2>10, <4>1 DEF Restart, WindowInv, AlarmsInWindow
    <3> QED BY <2>10, <3>1, <3>2 DEF Restart, WindowInv, PendingInWindow, PendingApart,
                                    PendingFromAlarms, OneAlarmPerWindow
  <2>11. CASE Tick
    BY <2>11, <2>a DEF Tick, Pending
  <2>12. CASE UNCHANGED vars
    BY <2>12, <2>a DEF vars, Pending
  <2> QED
    BY <2>1, <2>2, <2>3, <2>4, <2>5, <2>6, <2>7, <2>8, <2>9, <2>10, <2>11, <2>12
       DEF Next, Handle
<1> QED BY <1>1, <1>2, TypeCorrect, PTL DEF Spec, WindowInv
=============================================================================
