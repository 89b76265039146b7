------------------------- MODULE AlarmConsoleProofs -------------------------
(***************************************************************************)
(* Proofs about the alarm desk and the consoles that follow it, for any    *)
(* number of people who answer one alarm at the same time, any number of   *)
(* failing requests, consoles and reconnections, and any length of the     *)
(* queues.                                                                 *)
(***************************************************************************)
EXTENDS AlarmConsole, TLAPS

(***************************************************************************)
(* The alarm desk.                                                         *)
(***************************************************************************)

\* A request that resolves carries a resolution code.
LEMMA ResolveHasCode ==
  ASSUME NEW r \in Requests, ~Acknowledges(r)
  PROVE  Ask[r] \in ResolutionCodes
  BY DeskAssumption DEF Acknowledges

\* The rows, the audit log and the requests keep their types.
THEOREM TypeCorrect == Spec => []TypeOK
<1>1. Init => TypeOK
  BY DeskAssumption DEF Init, TypeOK, AlarmStatuses, Ended
<1>2. TypeOK /\ [Next]_vars => TypeOK'
  <2> SUFFICES ASSUME TypeOK, [Next]_vars PROVE TypeOK'
    OBVIOUS
  <2> USE DeskAssumption DEF TypeOK, GoTo, Ended
  <2>1. ASSUME NEW r \in Requests, Acknowledge(r) PROVE TypeOK'
    <3>1. frames' \subseteq [status : AlarmStatuses, actor : Requests]
      BY <2>1 DEF Acknowledge, AlarmStatuses
    <3>2. pc' \in [Requests -> {"new", "loaded", "committing"} \cup Ended]
      BY <2>1 DEF Acknowledge
    <3> QED BY <2>1, <3>1, <3>2 DEF Acknowledge
  <2>2. ASSUME NEW r \in Requests, Resolve(r) PROVE TypeOK'
    BY <2>2 DEF Resolve
  <2>3. ASSUME NEW r \in Requests, ResolveEvent(r) PROVE TypeOK'
    BY <2>3 DEF ResolveEvent, AlarmStatuses
  <2>4. ASSUME NEW r \in Requests, Commit(r) PROVE TypeOK'
    <3>1. AuditRows(r) \subseteq [actor : Requests, code : ResolutionCodes \cup {None}]
      BY ResolveHasCode DEF AuditRows
    <3>2. CASE Acknowledges(r)
      BY <2>4, <3>1, <3>2 DEF Commit, AcknowledgedRow, AlarmStatuses
    <3>3. CASE ~Acknowledges(r)
      <4>1. EventStatus(Ask[r]) \in {"RESOLVED", "FALSE_POSITIVE"}
        BY DEF EventStatus
      <4> QED BY <2>4, <3>1, <3>3, <4>1, ResolveHasCode DEF Commit, ResolvedRow, AlarmStatuses
    <3> QED BY <3>2, <3>3
  <2>5. ASSUME NEW r \in Requests, Fail(r) PROVE TypeOK'
    BY <2>5 DEF Fail
  <2>6. CASE UNCHANGED vars
    BY <2>6 DEF vars
  <2> QED BY <2>1, <2>2, <2>3, <2>4, <2>5, <2>6 DEF Next, Step
<1> QED BY <1>1, <1>2, PTL DEF Spec

(***************************************************************************)
(* A resolve that does not backfill the acknowledgement has seen one, and  *)
(* no request takes an acknowledgement away, so it is still there when the *)
(* resolve commits.                                                        *)
(***************************************************************************)
SawAcknowledgement ==
    \A r \in Requests :
        pc[r] \in {"loaded", "committing"} /\ ~Acknowledges(r) /\ ~backfill[r]
            => alarm.acknowledged_by # None

DeskInv == SawAcknowledgement /\ AuditExplainsRow /\ ResolvedIsAcknowledged /\ EventMatchesCode

\* Whoever the row names is in the audit log, a resolved alarm is acknowledged,
\* and the event's status belongs to the code on the alarm, however the
\* requests overlap (acknowledge, resolve).
LEMMA DeskInvariant == Spec => []DeskInv
<1>1. Init => DeskInv
  BY DeskAssumption DEF Init, DeskInv, SawAcknowledgement, AuditExplainsRow,
     ResolvedIsAcknowledged, EventMatchesCode
<1>2. TypeOK /\ DeskInv /\ [Next]_vars => DeskInv'
  <2> SUFFICES ASSUME TypeOK, DeskInv, [Next]_vars PROVE DeskInv'
    OBVIOUS
  <2> USE DeskAssumption DEF DeskInv, TypeOK
  <2>1. ASSUME UNCHANGED <<alarm, event, audit>>
        PROVE  (AuditExplainsRow /\ ResolvedIsAcknowledged /\ EventMatchesCode)'
    BY <2>1 DEF AuditExplainsRow, ResolvedIsAcknowledged, EventMatchesCode
  <2>2. ASSUME NEW r \in Requests, Acknowledge(r) PROVE DeskInv'
    <3>1. SawAcknowledgement'
      BY <2>2 DEF Acknowledge, SawAcknowledgement, GoTo, Acknowledges
    <3> QED BY <2>1, <2>2, <3>1 DEF Acknowledge
  <2>3. ASSUME NEW r \in Requests, Resolve(r) PROVE DeskInv'
    <3>1. SawAcknowledgement'
      BY <2>3 DEF Resolve, SawAcknowledgement, GoTo, Acknowledges
    <3> QED BY <2>1, <2>3, <3>1 DEF Resolve
  <2>4. ASSUME NEW r \in Requests, ResolveEvent(r) PROVE DeskInv'
    <3>1. SawAcknowledgement'
      BY <2>4 DEF ResolveEvent, SawAcknowledgement, GoTo, Acknowledges
    <3> QED BY <2>1, <2>4, <3>1 DEF ResolveEvent
  <2>5. ASSUME NEW r \in Requests, Commit(r) PROVE DeskInv'
    <3>1. pc[r] = "committing" /\ pc' = [pc EXCEPT ![r] = "ok"] /\ UNCHANGED backfill
          /\ audit' = audit \cup AuditRows(r) /\ r # None
      BY <2>5 DEF Commit, GoTo
    <3>2. CASE Acknowledges(r)
      <4>1. /\ alarm'.acknowledged_by = r
            /\ alarm'.resolved_by = alarm.resolved_by
            /\ alarm'.resolution_code = alarm.resolution_code
            /\ event' = event
        BY <2>5, <3>2 DEF Commit, AcknowledgedRow
      <4>2. [actor |-> r, code |-> None] \in audit'
        BY <3>1, <3>2 DEF AuditRows
      <4>3. SawAcknowledgement'
        BY <3>1, <4>1 DEF SawAcknowledgement
      <4>4. AuditExplainsRow'
        BY <3>1, <4>1, <4>2 DEF AuditExplainsRow
      <4>5. ResolvedIsAcknowledged'
        BY <3>1, <4>1 DEF ResolvedIsAcknowledged
      <4>6. EventMatchesCode'
        BY <4>1 DEF EventMatchesCode
      <4> QED BY <4>3, <4>4, <4>5, <4>6
    <3>3. CASE ~Acknowledges(r)
      <4>1. /\ alarm'.acknowledged_by = IF backfill[r] THEN r ELSE alarm.acknowledged_by
            /\ alarm'.resolved_by = r
            /\ alarm'.resolution_code = Ask[r]
            /\ event' = EventStatus(Ask[r])
        BY <2>5, <3>3 DEF Commit, ResolvedRow
      <4>2. [actor |-> r, code |-> Ask[r]] \in audit'
        BY <3>1, <3>3 DEF AuditRows
      <4>3. alarm'.acknowledged_by # None
        BY <3>1, <3>3, <4>1 DEF SawAcknowledgement
      <4>4. SawAcknowledgement'
        BY <4>3 DEF SawAcknowledgement
      <4>5. AuditExplainsRow'
        BY <3>1, <4>1, <4>2 DEF AuditExplainsRow
      <4>6. ResolvedIsAcknowledged'
        BY <4>3 DEF ResolvedIsAcknowledged
      <4>7. EventMatchesCode'
        BY <4>1 DEF EventMatchesCode, EventStatus
      <4> QED BY <4>4, <4>5, <4>6, <4>7
    <3> QED BY <3>2, <3>3
  <2>6. ASSUME NEW r \in Requests, Fail(r) PROVE DeskInv'
    <3>1. SawAcknowledgement'
      BY <2>6 DEF Fail, SawAcknowledgement, GoTo, Acknowledges
    <3> QED BY <2>1, <2>6, <3>1 DEF Fail
  <2>7. CASE UNCHANGED vars
    BY <2>7 DEF vars, SawAcknowledgement, AuditExplainsRow, ResolvedIsAcknowledged, EventMatchesCode
  <2> QED BY <2>2, <2>3, <2>4, <2>5, <2>6, <2>7 DEF Next, Step
<1> QED BY <1>1, <1>2, TypeCorrect, PTL DEF Spec

\* The audit log explains the row: nobody is named on the alarm who did not
\* log it, and the code on the row is the one that person logged (_audit).
THEOREM RowIsExplained == Spec => []AuditExplainsRow
BY DeskInvariant, PTL DEF DeskInv

\* A resolved alarm is an acknowledged one, also when the acknowledgement was
\* made between resolve's load and its commit.
THEOREM ResolvedAndAcknowledged == Spec => []ResolvedIsAcknowledged
BY DeskInvariant, PTL DEF DeskInv

\* The event's status and the resolution code come from the same resolve.
THEOREM EventAndCodeAgree == Spec => []EventMatchesCode
BY DeskInvariant, PTL DEF DeskInv

(***************************************************************************)
(* The API process runs the desk: what is proved of it holds here.         *)
(***************************************************************************)

\* A step of the API process is a step of one request or none of the desk's
\* business.
LEMMA DeskSteps ==
  ASSUME [ConsoleNext]_consoleVars
  PROVE  [Next]_vars
<1>1. CASE Raise
  BY <1>1 DEF Raise
<1>2. ASSUME NEW r \in Requests, Desk(r)
      PROVE  Next
  BY <1>2 DEF Desk, Next, Step
<1>3. ASSUME NEW r \in Requests, DeskFails(r)
      PROVE  Next
  BY <1>3 DEF DeskFails, Next
<1>4. ASSUME NEW c \in Consoles,
             Connect(c) \/ ListAlarms(c) \/ Refetch(c) \/ Serve(c) \/ SendTimesOut(c) \/ Leave(c)
      PROVE  UNCHANGED vars
  BY <1>4 DEF Connect, ListAlarms, Refetch, Serve, Get, Heartbeat, Sent, SendTimesOut, Leave
<1>5. CASE UNCHANGED consoleVars
  BY <1>5 DEF consoleVars
<1> QED
  BY <1>1, <1>2, <1>3, <1>4, <1>5 DEF ConsoleNext

\* The consoles do not disturb the alarm desk: every behaviour of the API
\* process is, seen from the rows, one of AlarmDesk.
THEOREM ConsoleRunsTheDesk == ConsoleSpec => Spec
<1>1. ConsoleInit => Init
  BY DEF ConsoleInit
<1>2. [ConsoleNext]_consoleVars => [Next]_vars
  BY DeskSteps
<1> QED
  BY <1>1, <1>2, PTL DEF ConsoleSpec, Spec

(***************************************************************************)
(* The inductive invariant.  Unless two requests overlap, one status at a  *)
(* time is on its way to the row; for a connection that has lost nothing,  *)
(* it is in the last frame still pending, or the app already shows it.     *)
(***************************************************************************)
HubTypeOK ==
    /\ link \in [Consoles -> {"closed", "waiting", "heartbeat"} \cup AlarmStatuses]
    /\ queue \in [Consoles -> Seq(AlarmStatuses)]
    /\ \A c \in Consoles : Len(queue[c]) <= QUEUE_LIMIT
    /\ view \in [Consoles -> AlarmStatuses \cup {None}]
    /\ dropped \in [Consoles -> BOOLEAN]
    /\ refetch \in [Consoles -> {"asked", "empty", "done"} \cup AlarmStatuses]
    /\ stale \in [Consoles -> BOOLEAN]
    /\ gone \in [Consoles -> BOOLEAN]
    /\ reordered \in BOOLEAN

StatusOf(r) == IF Acknowledges(r) THEN "ACKNOWLEDGED" ELSE "RESOLVED"

\* s is the status of the row once the request that has published it commits.
Announced(s) ==
    /\ \A r \in Requests : pc[r] = "committing" => s = StatusOf(r)
    /\ ~Unsettled => s = alarm.status

OneAtATime ==
    ~reordered =>
        \A q, r \in Requests : pc[q] = "committing" /\ pc[r] = "committing" => q = r

Pending(c) == queue[c] # <<>> \/ link[c] \in AlarmStatuses

\* The last frame c has not shown carries the status announced last.
LastFrame(c) ==
    /\ queue[c] # <<>> => Announced(queue[c][Len(queue[c])])
    /\ queue[c] = <<>> /\ link[c] \in AlarmStatuses => Announced(link[c])

\* Nothing pending: the app shows it, or the answer it waits for says it.
ShowsIt(c) ==
    ~Pending(c) /\ ~stale[c] =>
        /\ refetch[c] = "done" /\ view[c] # None => Announced(view[c])
        /\ refetch[c] \in AlarmStatuses => Announced(refetch[c])

\* A read that is due and would come too early is followed by a frame.
FrameFollows(c) == refetch[c] = "asked" /\ ~stale[c] /\ Unsettled => Pending(c)

InTouch(c) == link[c] # "closed" /\ ~dropped[c] /\ ~reordered

ConsoleOK(c) == InTouch(c) => LastFrame(c) /\ ShowsIt(c) /\ FrameFollows(c)

ConsoleInv ==
    /\ HubTypeOK
    /\ OneAtATime
    /\ \A c \in Consoles : ConsoleOK(c)

\* No request publishes, commits or fails after it has published.
QuietDesk ==
    /\ alarm' = alarm
    /\ \A r \in Requests : pc'[r] = "committing" <=> pc[r] = "committing"

\* A console keeps its part of the invariant when nothing happens to it.
LEMMA NothingHappens ==
  ASSUME QuietDesk, reordered' = reordered, NEW c \in Consoles, ConsoleOK(c),
         link'[c] = link[c], queue'[c] = queue[c], dropped'[c] = dropped[c],
         refetch'[c] = refetch[c], view'[c] = view[c], stale'[c] = stale[c]
  PROVE  ConsoleOK(c)'
  BY DEF QuietDesk, ConsoleOK, InTouch, LastFrame, ShowsIt, FrameFollows, Pending, Announced,
         Unsettled, StatusOf, Acknowledges

\* The queue without its first frame ends as it did.
LEMMA Shortened ==
  ASSUME NEW S, NEW q \in Seq(S), q # <<>>
  PROVE  /\ Head(q) \in S /\ Tail(q) \in Seq(S)
         /\ Len(Tail(q)) = Len(q) - 1 /\ Len(q) \in Nat /\ Head(q) = q[1]
         /\ Tail(q) # <<>> => Tail(q)[Len(Tail(q))] = q[Len(q)]
         /\ Tail(q) = <<>> => Len(q) = 1
<1>1. Len(q) \in Nat /\ Len(q) > 0
  OBVIOUS
<1>2. Head(q) \in S /\ Tail(q) \in Seq(S) /\ Len(Tail(q)) = Len(q) - 1 /\ Head(q) = q[1]
  BY <1>1
<1>3. Tail(q) # <<>> => Len(Tail(q)) > 0
  BY <1>2
<1>4. \A i \in 1..Len(Tail(q)) : Tail(q)[i] = q[i + 1]
  BY <1>1, <1>2
<1>5. Tail(q) # <<>> => Tail(q)[Len(Tail(q))] = q[Len(q)]
  BY <1>1, <1>2, <1>3, <1>4
<1>6. Tail(q) = <<>> => Len(q) = 1
  <2> SUFFICES ASSUME Tail(q) = <<>>
               PROVE  Len(q) = 1
    OBVIOUS
  <2>1. Len(<<>>) = 0
    OBVIOUS
  <2>2. Len(Tail(q)) = Len(<<>>)
    BY Zenon
  <2>3. Len(q) - 1 = 0
    BY <1>2, <2>1, <2>2, Zenon
  <2> DEFINE n == Len(q)
  <2>4. n \in Nat /\ n - 1 = 0
    BY <1>1, <2>3
  <2> HIDE DEF n
  <2>5. n = 1
    BY <2>4
  <2> QED BY <2>5 DEF n
<1> QED
  BY <1>1, <1>2, <1>5, <1>6

\* Connections, refetches and sends: one console at a time, and no row changes.
LEMMA SocketStep ==
  ASSUME ConsoleInv, TypeOK, NEW c \in Consoles,
         Connect(c) \/ ListAlarms(c) \/ Refetch(c) \/ Serve(c) \/ SendTimesOut(c) \/ Leave(c)
  PROVE  ConsoleInv'
<1> USE ConsoleAssumption DEF Set
<1>1. HubTypeOK /\ OneAtATime /\ ConsoleOK(c) /\ \A d \in Consoles : ConsoleOK(d)
  BY DEF ConsoleInv
<1>2. QuietDesk /\ reordered' = reordered
  BY DEF Connect, ListAlarms, Refetch, Serve, Get, Heartbeat, Sent, SendTimesOut, Leave, vars,
     QuietDesk
<1>3. \A d \in Consoles \ {c} :
          /\ link'[d] = link[d] /\ queue'[d] = queue[d] /\ dropped'[d] = dropped[d]
          /\ refetch'[d] = refetch[d] /\ view'[d] = view[d] /\ stale'[d] = stale[d]
  BY <1>1 DEF HubTypeOK, Connect, ListAlarms, Refetch, Serve, Get, Heartbeat, Sent, Shows,
     SendTimesOut, Leave
<1>4. OneAtATime'
  BY <1>1, <1>2 DEF OneAtATime, QuietDesk
<1>5. Unsettled' <=> Unsettled
  BY <1>2 DEF QuietDesk, Unsettled
<1>6. CASE Connect(c)
  <2>1. HubTypeOK'
    BY <1>1, <1>6 DEF HubTypeOK, Connect, Unsettled
  <2>2. queue'[c] = <<>> /\ link'[c] = "waiting" /\ refetch'[c] = "asked"
        /\ (stale'[c] <=> Unsettled)
    BY <1>1, <1>6 DEF HubTypeOK, Connect
  <2>3. ConsoleOK(c)'
    BY <1>5, <2>2 DEF ConsoleOK, LastFrame, ShowsIt, FrameFollows, Pending, AlarmStatuses
  <2> QED BY <1>1, <1>2, <1>3, <1>4, <2>1, <2>3, NothingHappens DEF ConsoleInv
<1>7. CASE ListAlarms(c)
  <2>1. HubTypeOK'
    BY <1>1, <1>7 DEF HubTypeOK, ListAlarms, TypeOK
  <2>2. /\ queue'[c] = queue[c] /\ link'[c] = link[c] /\ dropped'[c] = dropped[c]
        /\ refetch[c] = "asked" /\ refetch'[c] \in {"empty", alarm.status}
        /\ stale'[c] <=> stale[c] /\ Unsettled
    BY <1>1, <1>7 DEF HubTypeOK, ListAlarms
  <2>3. ConsoleOK(c)'
    <3> SUFFICES ASSUME InTouch(c)'
                 PROVE  LastFrame(c)' /\ ShowsIt(c)' /\ FrameFollows(c)'
      BY DEF ConsoleOK
    <3>1. LastFrame(c) /\ FrameFollows(c)
      BY <1>1, <1>2, <2>2 DEF InTouch, ConsoleOK
    <3>2. LastFrame(c)'
      BY <1>2, <2>2, <3>1 DEF LastFrame, Announced, QuietDesk, Unsettled, StatusOf
    <3>3. refetch'[c] # "done" /\ refetch'[c] # "asked"
      BY <2>2 DEF TypeOK, AlarmStatuses
    <3>4. ShowsIt(c)'
      <4> SUFFICES ASSUME ~Pending(c)', ~stale'[c], refetch'[c] \in AlarmStatuses
                   PROVE  Announced(refetch[c])'
        BY <3>3 DEF ShowsIt
      <4>1. ~Unsettled
        BY <2>2, <3>1 DEF FrameFollows, Pending
      <4>2. refetch'[c] = alarm'.status
        BY <1>2, <2>2 DEF QuietDesk, AlarmStatuses
      <4> QED BY <1>5, <4>1, <4>2 DEF Announced, Unsettled
    <3>5. FrameFollows(c)'
      BY <3>3 DEF FrameFollows
    <3> QED BY <3>2, <3>4, <3>5
  <2> QED BY <1>1, <1>2, <1>3, <1>4, <2>1, <2>3, NothingHappens DEF ConsoleInv
<1>13. CASE Refetch(c)
  <2>1. HubTypeOK'
    BY <1>1, <1>13 DEF HubTypeOK, Refetch
  <2>2. /\ queue'[c] = queue[c] /\ link'[c] = link[c] /\ dropped'[c] = dropped[c]
        /\ refetch'[c] = "done" /\ refetch[c] \in AlarmStatuses \cup {"empty"}
        /\ view'[c] = IF refetch[c] = "empty" THEN None ELSE refetch[c]
        /\ stale'[c] = stale[c]
    BY <1>1, <1>13 DEF HubTypeOK, Refetch
  <2>3. ConsoleOK(c)'
    <3> SUFFICES ASSUME InTouch(c)'
                 PROVE  LastFrame(c)' /\ ShowsIt(c)' /\ FrameFollows(c)'
      BY DEF ConsoleOK
    <3>1. LastFrame(c) /\ ShowsIt(c)
      BY <1>1, <1>2, <2>2 DEF InTouch, ConsoleOK
    <3>2. LastFrame(c)'
      BY <1>2, <2>2, <3>1 DEF LastFrame, Announced, QuietDesk, Unsettled, StatusOf
    <3>3. ShowsIt(c)'
      <4> SUFFICES ASSUME ~Pending(c), ~stale[c], view'[c] # None
                   PROVE  Announced(view[c])'
        BY <2>2 DEF ShowsIt, Pending, AlarmStatuses
      <4>1. refetch[c] \in AlarmStatuses /\ view'[c] = refetch[c]
        BY <2>2 DEF AlarmStatuses
      <4>2. Announced(view'[c])
        BY <3>1, <4>1 DEF ShowsIt
      <4> QED BY <1>2, <4>2 DEF Announced, QuietDesk, Unsettled, StatusOf
    <3>4. FrameFollows(c)'
      BY <2>2 DEF FrameFollows
    <3> QED BY <3>2, <3>3, <3>4
  <2> QED BY <1>1, <1>2, <1>3, <1>4, <2>1, <2>3, NothingHappens DEF ConsoleInv
<1>8. CASE Get(c)
  <2> DEFINE q == queue[c]
  <2>1. q \in Seq(AlarmStatuses) /\ q # <<>> /\ Len(q) <= QUEUE_LIMIT
    BY <1>1, <1>8 DEF HubTypeOK, Get
  <2>2. /\ Head(q) \in AlarmStatuses /\ Tail(q) \in Seq(AlarmStatuses)
        /\ Len(Tail(q)) = Len(q) - 1 /\ Len(q) \in Nat /\ Head(q) = q[1]
        /\ Tail(q) # <<>> => Tail(q)[Len(Tail(q))] = q[Len(q)]
        /\ Tail(q) = <<>> => Len(q) = 1
    BY <2>1, Shortened
  <2>3. /\ queue'[c] = Tail(q) /\ queue' \in [Consoles -> Seq(AlarmStatuses)]
        /\ link'[c] = IF gone[c] THEN "closed" ELSE Head(q)
        /\ UNCHANGED <<refetch, view, stale, dropped>>
    BY <1>1, <1>8, <2>2 DEF HubTypeOK, Get
  <2>4. HubTypeOK'
    <3>1. ASSUME NEW d \in Consoles
          PROVE  Len(queue'[d]) <= QUEUE_LIMIT
      <4>1. CASE d = c
        <5>1. Len(Tail(q)) <= QUEUE_LIMIT
          BY <2>1, <2>2
        <5> QED BY <2>3, <4>1, <5>1
      <4>2. CASE d # c
        BY <1>1, <1>3, <4>2 DEF HubTypeOK
      <4> QED BY <4>1, <4>2
    <3> QED BY <1>1, <1>8, <2>2, <2>3, <3>1 DEF HubTypeOK, Get
  <2>5. ConsoleOK(c)'
    <3> SUFFICES ASSUME InTouch(c)'
                 PROVE  LastFrame(c)' /\ ShowsIt(c)' /\ FrameFollows(c)'
      BY DEF ConsoleOK
    <3>1. LastFrame(c) /\ link'[c] = Head(q)
      BY <1>1, <1>2, <1>8, <2>3 DEF InTouch, ConsoleOK, Get
    <3>2. Announced(q[Len(q)])
      BY <2>1, <3>1 DEF LastFrame
    <3>3. LastFrame(c)'
      BY <1>2, <2>2, <2>3, <3>1, <3>2 DEF LastFrame, Announced, QuietDesk, Unsettled, StatusOf
    <3>4. Pending(c)'
      BY <2>2, <3>1 DEF Pending
    <3> QED BY <3>3, <3>4 DEF ShowsIt, FrameFollows
  <2> QED BY <1>1, <1>2, <1>3, <1>4, <2>4, <2>5, NothingHappens DEF ConsoleInv
<1>9. CASE Heartbeat(c)
  <2>1. HubTypeOK'
    BY <1>1, <1>9 DEF HubTypeOK, Heartbeat
  <2>2. /\ queue' = queue /\ queue[c] = <<>> /\ link[c] = "waiting"
        /\ link'[c] \in {"closed", "heartbeat"}
        /\ UNCHANGED <<refetch, view, stale, dropped>>
    BY <1>1, <1>9 DEF HubTypeOK, Heartbeat
  <2>3. ConsoleOK(c)'
    BY <1>1, <1>2, <2>2 DEF ConsoleOK, InTouch, LastFrame, ShowsIt, FrameFollows, Pending,
       Announced, QuietDesk, Unsettled, StatusOf, AlarmStatuses
  <2> QED BY <1>1, <1>2, <1>3, <1>4, <2>1, <2>3, NothingHappens DEF ConsoleInv
<1>10. CASE Sent(c)
  <2> DEFINE shown == link[c] \in AlarmStatuses /\ ~gone[c]
  <2>1. HubTypeOK'
    <3>1. stale' \in [Consoles -> BOOLEAN] /\ view' \in [Consoles -> AlarmStatuses \cup {None}]
      BY <1>1, <1>10 DEF HubTypeOK, Sent, Shows, Unsettled
    <3> QED BY <1>1, <1>10, <3>1 DEF HubTypeOK, Sent
  <2>2. /\ queue' = queue /\ link[c] \notin {"closed", "waiting"}
        /\ link'[c] = IF gone[c] THEN "closed" ELSE "waiting"
        /\ UNCHANGED <<refetch, dropped>>
    BY <1>1, <1>10 DEF HubTypeOK, Sent
  <2>3. ~shown => view'[c] = view[c] /\ stale'[c] = stale[c]
    BY <1>1, <1>10 DEF HubTypeOK, Sent
  <2>4. shown => /\ view'[c] = link[c]
                 /\ refetch[c] = "asked" => (stale'[c] <=> stale[c] \/ Unsettled)
                 /\ refetch[c] \notin {"done", "asked"} => (stale'[c] <=> refetch[c] # link[c])
    BY <1>1, <1>10 DEF HubTypeOK, Sent, Shows
  <2>5. ConsoleOK(c)'
    <3> SUFFICES ASSUME InTouch(c)'
                 PROVE  LastFrame(c)' /\ ShowsIt(c)' /\ FrameFollows(c)'
      BY DEF ConsoleOK
    <3>1. LastFrame(c) /\ ShowsIt(c) /\ FrameFollows(c) /\ ~gone[c] /\ link'[c] = "waiting"
      BY <1>1, <1>2, <2>2 DEF InTouch, ConsoleOK
    <3>2. "waiting" \notin AlarmStatuses /\ "asked" \notin AlarmStatuses
          /\ "done" \notin AlarmStatuses
      BY DEF AlarmStatuses
    <3>3. LastFrame(c)'
      BY <1>2, <2>2, <3>1, <3>2 DEF LastFrame, Announced, QuietDesk, Unsettled, StatusOf
    <3>4. ShowsIt(c)'
      <4> SUFFICES ASSUME queue[c] = <<>>, ~stale'[c]
                   PROVE  /\ refetch[c] = "done" /\ view'[c] # None => Announced(view'[c])
                          /\ refetch[c] \in AlarmStatuses => Announced(refetch[c])
        BY <1>2, <2>2, <3>1 DEF ShowsIt, Pending, Announced, QuietDesk, Unsettled, StatusOf
      <4>1. CASE shown
        <5>1. Announced(link[c]) /\ view'[c] = link[c]
          BY <2>4, <3>1, <4>1 DEF LastFrame
        <5>2. refetch[c] \in AlarmStatuses => refetch[c] = link[c]
          BY <2>4, <3>2, <4>1
        <5> QED BY <5>1, <5>2
      <4>2. CASE ~shown
        BY <2>3, <3>1, <4>2 DEF ShowsIt, Pending
      <4> QED BY <4>1, <4>2
    <3>5. FrameFollows(c)'
      BY <1>5, <2>2, <2>3, <2>4, <3>1 DEF FrameFollows, Pending
    <3> QED BY <3>3, <3>4, <3>5
  <2> QED BY <1>1, <1>2, <1>3, <1>4, <2>1, <2>5, NothingHappens DEF ConsoleInv
<1>11. CASE SendTimesOut(c)
  <2>1. HubTypeOK' /\ link'[c] = "closed"
    BY <1>1, <1>11 DEF HubTypeOK, SendTimesOut
  <2>2. ConsoleOK(c)'
    BY <2>1 DEF ConsoleOK, InTouch
  <2> QED BY <1>1, <1>2, <1>3, <1>4, <2>1, <2>2, NothingHappens DEF ConsoleInv
<1>12. CASE Leave(c)
  <2>1. HubTypeOK' /\ UNCHANGED <<link, queue, dropped, refetch, view, stale>>
    BY <1>1, <1>12 DEF HubTypeOK, Leave
  <2> QED BY <1>1, <1>2, <1>3, <1>4, <2>1, NothingHappens DEF ConsoleInv
<1> QED
  BY <1>6, <1>7, <1>8, <1>9, <1>10, <1>11, <1>12, <1>13 DEF Serve

\* A frame that is not dropped is the last one of the queue.
LEMMA Offered ==
  ASSUME NEW S, NEW q \in Seq(S), NEW s \in S, Len(q) <= QUEUE_LIMIT
  PROVE  /\ Offer(q, s) \in Seq(S) /\ Len(Offer(q, s)) <= QUEUE_LIMIT
         /\ Len(q) # QUEUE_LIMIT => Offer(q, s) # <<>> /\ Offer(q, s)[Len(Offer(q, s))] = s
<1>1. QUEUE_LIMIT \in Nat /\ Len(q) \in Nat
  BY ConsoleAssumption
<1>2. CASE Len(q) < QUEUE_LIMIT
  <2>1. Offer(q, s) = Append(q, s)
    BY <1>2 DEF Offer
  <2>2. /\ Append(q, s) \in Seq(S) /\ Len(Append(q, s)) = Len(q) + 1
        /\ Append(q, s)[Len(q) + 1] = s
    OBVIOUS
  <2>3. Append(q, s) # <<>>
    BY <1>1, <2>2
  <2> QED BY <1>1, <1>2, <2>1, <2>2, <2>3
<1>3. CASE Len(q) = QUEUE_LIMIT
  BY <1>1, <1>3 DEF Offer
<1> QED
  BY <1>1, <1>2, <1>3

\* A publication reaches every connection, or is dropped for it.
LEMMA PublishStep ==
  ASSUME ConsoleInv, TypeOK, NEW r \in Requests, pc[r] # "committing",
         pc' = [pc EXCEPT ![r] = "committing"], alarm' = alarm, Publish(StatusOf(r))
  PROVE  ConsoleInv'
<1>1. HubTypeOK /\ OneAtATime /\ \A d \in Consoles : ConsoleOK(d)
  BY DEF ConsoleInv
<1>2. StatusOf(r) \in AlarmStatuses
  BY DEF StatusOf, AlarmStatuses
<1>3. /\ pc'[r] = "committing" /\ \A q \in Requests \ {r} : pc'[q] = pc[q]
      /\ Unsettled'
  BY DEF TypeOK, Unsettled
<1>4. /\ UNCHANGED <<link, refetch, gone, view, stale>>
      /\ reordered' <=> reordered \/ Unsettled
      /\ reordered' \in BOOLEAN
      /\ \A c \in Consoles :
             /\ queue'[c] = IF Subscribed(c) THEN Offer(queue[c], StatusOf(r)) ELSE queue[c]
             /\ dropped'[c] <=> dropped[c] \/ (Subscribed(c) /\ Len(queue[c]) = QUEUE_LIMIT)
      /\ dropped' \in [Consoles -> BOOLEAN]
  BY <1>1 DEF Publish, HubTypeOK
<1>5. ASSUME NEW c \in Consoles
      PROVE  queue'[c] \in Seq(AlarmStatuses) /\ Len(queue'[c]) <= QUEUE_LIMIT
  <2>1. queue[c] \in Seq(AlarmStatuses) /\ Len(queue[c]) <= QUEUE_LIMIT
    BY <1>1 DEF HubTypeOK
  <2>2. /\ Offer(queue[c], StatusOf(r)) \in Seq(AlarmStatuses)
        /\ Len(Offer(queue[c], StatusOf(r))) <= QUEUE_LIMIT
    BY <1>2, <2>1, Offered
  <2> QED BY <1>4, <2>1, <2>2
<1>6. HubTypeOK'
  <2>1. queue' \in [Consoles -> Seq(AlarmStatuses)]
    BY <1>5 DEF Publish
  <2> QED BY <1>1, <1>4, <1>5, <2>1 DEF HubTypeOK
<1>7. OneAtATime'
  BY <1>3, <1>4 DEF OneAtATime, Unsettled
<1>8. ASSUME NEW c \in Consoles
      PROVE  ConsoleOK(c)'
  <2> SUFFICES ASSUME InTouch(c)'
               PROVE  LastFrame(c)' /\ ShowsIt(c)' /\ FrameFollows(c)'
    BY DEF ConsoleOK
  <2>1. Subscribed(c) /\ ~Unsettled /\ Len(queue[c]) # QUEUE_LIMIT
    BY <1>4 DEF InTouch, Subscribed
  <2>2. queue'[c] # <<>> /\ queue'[c][Len(queue'[c])] = StatusOf(r)
    <3>1. queue'[c] = Offer(queue[c], StatusOf(r))
      BY <1>4, <2>1
    <3>2. queue[c] \in Seq(AlarmStatuses) /\ Len(queue[c]) <= QUEUE_LIMIT
      BY <1>1 DEF HubTypeOK
    <3> DEFINE q == queue[c]
               s == StatusOf(r)
    <3>3. Offer(q, s) # <<>> /\ Offer(q, s)[Len(Offer(q, s))] = s
      <4> HIDE DEF q, s
      <4>1. q \in Seq(AlarmStatuses) /\ Len(q) <= QUEUE_LIMIT /\ Len(q) # QUEUE_LIMIT
        BY <2>1, <3>2 DEF q
      <4>2. s \in AlarmStatuses
        BY <1>2 DEF s
      <4> QED BY <4>1, <4>2, Offered
    <3> QED BY <3>1, <3>3, Zenon
  <2>3. \A q \in Requests : pc'[q] = "committing" => q = r
    BY <1>3, <2>1 DEF Unsettled
  <2>4. LastFrame(c)'
    BY <1>3, <2>2, <2>3 DEF LastFrame, Announced, StatusOf
  <2>5. Pending(c)'
    BY <2>2 DEF Pending
  <2> QED BY <2>4, <2>5 DEF ShowsIt, FrameFollows
<1> QED
  BY <1>6, <1>7, <1>8 DEF ConsoleInv

\* A commit makes the status that was published the row's.
LEMMA CommitStep ==
  ASSUME ConsoleInv, TypeOK, NEW r \in Requests, Commit(r), UNCHANGED hubVars
  PROVE  ConsoleInv'
<1>1. HubTypeOK /\ OneAtATime /\ \A d \in Consoles : ConsoleOK(d)
  BY DEF ConsoleInv
<1>2. /\ pc[r] = "committing" /\ pc'[r] = "ok" /\ \A q \in Requests \ {r} : pc'[q] = pc[q]
      /\ alarm'.status = StatusOf(r)
  BY DEF TypeOK, Commit, GoTo, AcknowledgedRow, ResolvedRow, StatusOf
<1>3. HubTypeOK'
  BY <1>1 DEF HubTypeOK, hubVars
<1>4. OneAtATime'
  BY <1>1, <1>2 DEF OneAtATime, hubVars
<1>5. ASSUME NEW c \in Consoles
      PROVE  ConsoleOK(c)'
  <2> SUFFICES ASSUME InTouch(c)'
               PROVE  LastFrame(c)' /\ ShowsIt(c)' /\ FrameFollows(c)'
    BY DEF ConsoleOK
  <2>1. LastFrame(c) /\ ShowsIt(c) /\ ~reordered
    BY <1>1 DEF ConsoleOK, InTouch, hubVars
  <2>2. \A q \in Requests : pc'[q] # "committing"
    BY <1>1, <1>2, <2>1 DEF OneAtATime
  <2>3. ~Unsettled'
    BY <2>2 DEF Unsettled
  <2>4. \A s : Announced(s) => s = alarm'.status
    BY <1>2 DEF Announced
  <2>5. LastFrame(c)'
    BY <2>1, <2>2, <2>3, <2>4 DEF LastFrame, Announced, hubVars
  <2>6. ShowsIt(c)'
    BY <2>1, <2>2, <2>3, <2>4 DEF ShowsIt, Pending, Announced, hubVars
  <2> QED BY <2>3, <2>5, <2>6 DEF FrameFollows
<1> QED
  BY <1>3, <1>4, <1>5 DEF ConsoleInv

LEMMA ConsoleInvariant == ConsoleSpec => []ConsoleInv
<1>1. ConsoleInit => ConsoleInv
  <2> SUFFICES ASSUME ConsoleInit
               PROVE  ConsoleInv
    OBVIOUS
  <2>1. HubTypeOK
    <3>1. <<>> \in Seq(AlarmStatuses) /\ Len(<<>>) = 0
      OBVIOUS
    <3>2. \A c \in Consoles : queue[c] = <<>>
      BY DEF ConsoleInit
    <3>3. \A c \in Consoles : Len(queue[c]) <= QUEUE_LIMIT
      BY <3>1, <3>2, ConsoleAssumption
    <3> QED BY <3>1, <3>3 DEF ConsoleInit, HubTypeOK
  <2>2. OneAtATime /\ \A c \in Consoles : link[c] = "closed"
    BY DEF ConsoleInit, Init, OneAtATime
  <2> QED BY <2>1, <2>2 DEF ConsoleInv, ConsoleOK, InTouch
<1>2. ASSUME ConsoleInv, TypeOK, [ConsoleNext]_consoleVars
      PROVE  ConsoleInv'
  <2> USE DEF ConsoleInv
  <2>1. ASSUME QuietDesk, reordered' = reordered,
               UNCHANGED <<link, queue, dropped, refetch, gone, view, stale>>
        PROVE  ConsoleInv'
    <3>1. HubTypeOK' /\ OneAtATime'
      BY <1>2, <2>1 DEF HubTypeOK, OneAtATime, QuietDesk
    <3> QED BY <1>2, <2>1, <3>1, NothingHappens
  <2>2. CASE Raise
    BY <2>1, <2>2 DEF Raise, vars, QuietDesk
  <2>3. ASSUME NEW r \in Requests, Desk(r)
        PROVE  ConsoleInv'
    <3>1. CASE (Acknowledge(r) \/ ResolveEvent(r)) /\ pc'[r] = "committing"
      <4>1. /\ pc[r] # "committing" /\ pc' = [pc EXCEPT ![r] = "committing"]
            /\ alarm' = alarm
        <5>1. CASE Acknowledge(r)
          BY <1>2, <3>1, <5>1 DEF Acknowledge, GoTo, TypeOK
        <5>2. CASE ResolveEvent(r)
          BY <1>2, <3>1, <5>2 DEF ResolveEvent, GoTo, TypeOK
        <5> QED BY <3>1, <5>1, <5>2
      <4>2. Publish(StatusOf(r))
        BY <2>3, <3>1, <4>1 DEF Desk, Resolve, Commit, GoTo, Acknowledge, ResolveEvent, StatusOf,
           TypeOK
      <4> QED BY <1>2, <4>1, <4>2, PublishStep
    <3>2. CASE Acknowledge(r) /\ pc'[r] # "committing" /\ UNCHANGED hubVars
      BY <1>2, <2>1, <3>2 DEF Acknowledge, GoTo, TypeOK, hubVars, QuietDesk
    <3>3. CASE Resolve(r) /\ UNCHANGED hubVars
      BY <1>2, <2>1, <3>3 DEF Resolve, GoTo, TypeOK, hubVars, QuietDesk
    <3>4. CASE Commit(r) /\ UNCHANGED hubVars
      BY <1>2, <3>4, CommitStep
    <3>5. CASE ResolveEvent(r) /\ pc'[r] # "committing"
      BY <1>2, <3>5 DEF ResolveEvent, GoTo, TypeOK
    <3> QED BY <2>3, <3>1, <3>2, <3>3, <3>4, <3>5 DEF Desk
  <2>4. ASSUME NEW r \in Requests, DeskFails(r)
        PROVE  ConsoleInv'
    <3>1. CASE pc[r] = "committing"
      <4>1. reordered' /\ HubTypeOK'
        BY <1>2, <2>4, <3>1 DEF DeskFails, HubTypeOK
      <4> QED BY <4>1 DEF OneAtATime, ConsoleOK, InTouch
    <3>2. CASE pc[r] # "committing"
      <4>1. reordered' = reordered
        BY <1>2, <2>4, <3>2 DEF DeskFails, HubTypeOK
      <4>2. QuietDesk
        BY <1>2, <2>4, <3>2 DEF DeskFails, Fail, GoTo, TypeOK, QuietDesk
      <4> QED BY <2>1, <2>4, <4>1, <4>2 DEF DeskFails
    <3> QED BY <3>1, <3>2
  <2>5. ASSUME NEW c \in Consoles,
               Connect(c) \/ ListAlarms(c) \/ Refetch(c) \/ Serve(c) \/ SendTimesOut(c) \/ Leave(c)
        PROVE  ConsoleInv'
    BY <1>2, <2>5, SocketStep
  <2>6. CASE UNCHANGED consoleVars
    BY <2>1, <2>6 DEF consoleVars, vars, hubVars, QuietDesk
  <2> QED BY <1>2, <2>2, <2>3, <2>4, <2>5, <2>6 DEF ConsoleNext
<1>3. ConsoleSpec => []TypeOK
  BY ConsoleRunsTheDesk, TypeCorrect, PTL
<1> QED
  BY <1>1, <1>2, <1>3, PTL DEF ConsoleSpec

\* An open console that lost no frame, and whose refetch was not older than what it
\* had been told, shows the committed status, however often it reconnects and
\* whatever it missed in between: the connection joins the hub before hello asks
\* the app to refetch (realtime, list_alarms, Hub.publish).
THEOREM ConsoleFollows == ConsoleSpec => []FollowsTheDesk
<1>1. ConsoleInv => FollowsTheDesk
  <2> SUFFICES ASSUME ConsoleInv, NEW c \in Consoles, CaughtUp(c), view[c] # None, ~dropped[c],
                      ~stale[c], ~reordered, ~Unsettled
               PROVE  view[c] = alarm.status
    BY DEF FollowsTheDesk
  <2>1. InTouch(c) /\ ~Pending(c) /\ refetch[c] = "done"
    BY DEF CaughtUp, InTouch, Pending, AlarmStatuses
  <2> QED BY <2>1 DEF ConsoleInv, ConsoleOK, ShowsIt, Announced
<1> QED
  BY <1>1, ConsoleInvariant, PTL
=============================================================================
