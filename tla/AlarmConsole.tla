---------------------------- MODULE AlarmConsole ----------------------------
(***************************************************************************)
(* The API process: the alarm desk, the realtime hub and the sockets of    *)
(* open consoles, all on one event loop.  A request of AlarmDesk publishes *)
(* its status frame to the hub of this process before it commits.  Each    *)
(* console has a handler coroutine and a bounded queue in the hub.  Alarms *)
(* are raised by the mail worker, a process with a hub of its own.         *)
(***************************************************************************)
EXTENDS AlarmDesk, Sequences, SequencesExt, Rbac

CONSTANTS
    Consoles,     \* open apps
    RoleOf,       \* RoleOf[c]: the role in the access token of console c
    QUEUE_LIMIT,  \* frames a console may fall behind by
    MaxConnects   \* bound: connections made, all consoles together

ASSUME ConsoleAssumption ==
    /\ RoleOf \in [Consoles -> STRING]
    /\ QUEUE_LIMIT \in Nat \ {0}
    /\ MaxConnects \in Nat

VARIABLES
    raised,     \* the alarm has been committed by the mail worker
    link,       \* link[c]: the handler of c's socket waits for a frame, or sends this one
    queue,      \* queue[c]: Subscriber.queue, the statuses in its frames
    dropped,    \* dropped[c]: Subscriber.dropped > 0
    refetch,    \* refetch[c]: the app has "asked" for the alarms, its answer is on the way
                \* (a status, or "empty"), or "done"
    gone,       \* gone[c]: the client closed the socket, _drain has ended
    view,       \* view[c]: the status the app shows, None if it has no alarm
    connects,
    stale,      \* history: stale[c], the answer to the refetch is older than what c was told
    reordered   \* history: two requests overlapped, or one failed after publishing

hubVars == <<raised, link, queue, dropped, refetch, gone, view, connects, stale, reordered>>
consoleVars == <<vars, hubVars>>

ConsoleTypeOK ==
    /\ raised \in BOOLEAN
    /\ link \in [Consoles -> {"closed", "waiting", "heartbeat"} \cup AlarmStatuses]
    /\ queue \in [Consoles -> BoundedSeq(AlarmStatuses, QUEUE_LIMIT)]
    /\ view \in [Consoles -> AlarmStatuses \cup {None}]
    /\ refetch \in [Consoles -> {"asked", "empty", "done"} \cup AlarmStatuses]
    /\ {dropped, gone, stale} \subseteq [Consoles -> BOOLEAN]
    /\ connects \in 0..MaxConnects
    /\ reordered \in BOOLEAN

ConsoleInit ==
    /\ Init
    /\ raised = FALSE
    /\ link = [c \in Consoles |-> "closed"]
    /\ queue = [c \in Consoles |-> <<>>]
    /\ view = [c \in Consoles |-> None]
    /\ dropped = [c \in Consoles |-> FALSE]
    /\ refetch = [c \in Consoles |-> "done"]
    /\ gone = [c \in Consoles |-> FALSE]
    /\ stale = [c \in Consoles |-> FALSE]
    /\ connects = 0
    /\ reordered = FALSE
-----------------------------------------------------------------------------
Set(f, c, v) == [f EXCEPT ![c] = v]

\* A request has published its status and not committed yet.
Unsettled == \E r \in Requests : pc[r] = "committing"

\* Mutant: a connection joins the hub only after the app has refetched.
SubscribedOnceReady(c) == link[c] # "closed" /\ refetch[c] = "done"

\* The connection is registered for the life of the with block.
Subscribed(c) == link[c] # "closed"

\* put_nowait: a full queue keeps what it has.
Offer(q, status) == IF Len(q) < QUEUE_LIMIT THEN Append(q, status) ELSE q

\* Hub.publish: offered to every connection, waited for by none.
Publish(status) ==
    /\ queue' = [c \in Consoles |-> IF Subscribed(c) THEN Offer(queue[c], status) ELSE queue[c]]
    /\ dropped' = [c \in Consoles |->
                      dropped[c] \/ (Subscribed(c) /\ Len(queue[c]) = QUEUE_LIMIT)]
    /\ reordered' = (reordered \/ Unsettled)
    /\ UNCHANGED <<raised, link, refetch, gone, view, connects, stale>>

\* The mail worker commits the alarm and publishes it: to its own hub, which
\* has no connections.
Raise ==
    /\ ~raised
    /\ raised' = TRUE
    /\ UNCHANGED <<vars, link, queue, dropped, refetch, gone, view, connects, stale, reordered>>

\* One step of a request; the alarm exists once it is raised.
Desk(r) ==
    /\ raised
    /\ \/ /\ Acknowledge(r) \/ ResolveEvent(r)
          /\ IF pc'[r] = "committing"
             THEN Publish(IF Acknowledges(r) THEN "ACKNOWLEDGED" ELSE "RESOLVED")
             ELSE UNCHANGED hubVars
       \/ /\ Resolve(r) \/ Commit(r)
          /\ UNCHANGED hubVars

DeskFails(r) ==
    /\ Fail(r)
    /\ reordered' = (reordered \/ pc[r] = "committing")
    /\ UNCHANGED <<raised, link, queue, dropped, refetch, gone, view, connects, stale>>
-----------------------------------------------------------------------------
(***************************************************************************)
(* The socket of console c.                                                *)
(***************************************************************************)

\* realtime(): a role without alarms.view is turned away; the connection joins
\* the hub before the hello frame asks the app to refetch.  The app forgets an
\* answer it still waits for.
Connect(c) ==
    /\ connects < MaxConnects
    /\ connects' = connects + 1
    /\ link[c] = "closed"
    /\ "alarms.view" \in permissions_for(RoleOf[c])
    /\ link' = Set(link, c, "waiting")
    /\ queue' = Set(queue, c, <<>>)
    /\ dropped' = Set(dropped, c, FALSE)
    /\ gone' = Set(gone, c, FALSE)
    /\ refetch' = Set(refetch, c, "asked")
    /\ stale' = Set(stale, c, Unsettled)
    /\ UNCHANGED <<vars, raised, view, reordered>>

\* The app answers hello by asking for /v1/alarms, and list_alarms reads the
\* row.  A publication whose commit is still to come is not in it.
ListAlarms(c) ==
    /\ refetch[c] = "asked" /\ ~gone[c]
    /\ refetch' = Set(refetch, c, IF raised THEN alarm.status ELSE "empty")
    /\ stale' = Set(stale, c, stale[c] /\ Unsettled)
    /\ UNCHANGED <<vars, raised, link, queue, dropped, gone, view, connects, reordered>>

\* The answer arrives and is shown, whatever frames came in the meantime.
Refetch(c) ==
    /\ refetch[c] \in AlarmStatuses \cup {"empty"} /\ ~gone[c]
    /\ refetch' = Set(refetch, c, "done")
    /\ view' = Set(view, c, IF refetch[c] = "empty" THEN None ELSE refetch[c])
    /\ UNCHANGED <<vars, raised, link, queue, dropped, gone, connects, stale, reordered>>

\* frames() yields the next frame; the loop ends if the client is gone.
Get(c) ==
    /\ link[c] = "waiting" /\ queue[c] # <<>>
    /\ link' = Set(link, c, IF gone[c] THEN "closed" ELSE Head(queue[c]))
    /\ queue' = Set(queue, c, Tail(queue[c]))
    /\ UNCHANGED <<vars, raised, dropped, refetch, gone, view, connects, stale, reordered>>

\* Mutant: a quiet connection is left alone.
NoHeartbeat(c) ==
    /\ link[c] = "waiting" /\ queue[c] = <<>> /\ ~gone[c]
    /\ link' = Set(link, c, "heartbeat")
    /\ UNCHANGED <<vars, raised, queue, dropped, refetch, gone, view, connects, stale, reordered>>

\* The timeout of queue.get: a heartbeat frame, or the loop notices that the
\* client is gone.
Heartbeat(c) ==
    /\ link[c] = "waiting" /\ queue[c] = <<>>
    /\ link' = Set(link, c, IF gone[c] THEN "closed" ELSE "heartbeat")
    /\ UNCHANGED <<vars, raised, queue, dropped, refetch, gone, view, connects, stale, reordered>>

\* The app shows a frame.  The answer still to come is older if it was read, or
\* may yet be read, before the row was what the frame says.
Shows(c, status) ==
    /\ view' = Set(view, c, status)
    /\ stale' = Set(stale, c, CASE refetch[c] = "done" -> FALSE
                               [] refetch[c] = "asked" -> stale[c] \/ Unsettled
                               [] OTHER -> refetch[c] # status)

\* send_json returns and the app shows what the frame says; on a socket that
\* has closed underneath it raises, and the handler ends.
Sent(c) ==
    /\ link[c] \notin {"closed", "waiting"}
    /\ link' = Set(link, c, IF gone[c] THEN "closed" ELSE "waiting")
    /\ IF link[c] \in AlarmStatuses /\ ~gone[c]
       THEN Shows(c, link[c])
       ELSE UNCHANGED <<view, stale>>
    /\ UNCHANGED <<vars, raised, queue, dropped, refetch, gone, connects, reordered>>

\* frames() yields inside its timeout, so the timer that began with queue.get
\* also runs during a send: it cancels the handler of a client that reads too
\* slowly, and the socket closes.
SendTimesOut(c) ==
    /\ link[c] \in AlarmStatuses
    /\ link' = Set(link, c, "closed")
    /\ gone' = Set(gone, c, TRUE)
    /\ UNCHANGED <<vars, raised, queue, dropped, refetch, view, connects, stale, reordered>>

\* The client goes away; _drain ends, the handler learns of it later.
Leave(c) ==
    /\ link[c] # "closed" /\ ~gone[c]
    /\ gone' = Set(gone, c, TRUE)
    /\ UNCHANGED <<vars, raised, link, queue, dropped, refetch, view, connects, stale, reordered>>
-----------------------------------------------------------------------------
Serve(c) == Get(c) \/ Heartbeat(c) \/ Sent(c)

ConsoleNext ==
    \/ Raise
    \/ \E r \in Requests : Desk(r) \/ DeskFails(r)
    \/ \E c \in Consoles :
          \/ Connect(c) \/ ListAlarms(c) \/ Refetch(c)
          \/ Serve(c) \/ SendTimesOut(c) \/ Leave(c)

\* The event loop resumes every request and every socket handler that is
\* ready; the mail worker raises the alarm.  Nothing is assumed of people.
ConsoleSpec ==
    /\ ConsoleInit /\ [][ConsoleNext]_consoleVars
    /\ WF_consoleVars(Raise)
    /\ \A r \in Requests : WF_consoleVars(Desk(r))
    /\ \A c \in Consoles : WF_consoleVars(Serve(c))
-----------------------------------------------------------------------------
(***************************************************************************)
(* Properties.                                                             *)
(***************************************************************************)

\* The app on console c has caught up with everything the hub gave it.
CaughtUp(c) == link[c] = "waiting" /\ queue[c] = <<>> /\ refetch[c] = "done" /\ ~gone[c]

\* An open console that knows the alarm shows its committed status, whatever
\* it missed before it reconnected.  What can break this is a frame dropped for
\* it; a refetch that is older than what it was told, because the row was read
\* before the commit of a publication it missed or had shown already, or because
\* a newer frame overtook the answer; and requests that overlap or fail after
\* they have published.  Nothing is lost between the hello frame and the
\* refetch, because the connection joins the hub first.
FollowsTheDesk ==
    \A c \in Consoles :
        CaughtUp(c) /\ view[c] # None /\ ~dropped[c] /\ ~stale[c] /\ ~reordered /\ ~Unsettled
            => view[c] = alarm.status

\* The hub forgets a console that went away, although its handler only looks
\* after a frame: a quiet night must not keep dead connections (_drain).
GoneIsForgotten == \A c \in Consoles : gone[c] ~> link[c] = "closed" \/ ~gone[c]

(***************************************************************************)
(* Stated by the code's comments and not true of it.                       *)
(***************************************************************************)

\* "the app is already open on the guard's screen, and the new alarm has to
\* appear without a poll": a console that is open and caught up shows a raised
\* alarm.
NewAlarmAppears ==
    \A c \in Consoles : raised /\ CaughtUp(c) /\ ~dropped[c] => view[c] # None

\* "Slow clients are dropped, not waited for ... It reconnects and refetches":
\* a connection that has lost a frame ends.  The frame is dropped and the
\* connection kept, so the app is never told to refetch.
SlowClientsAreDropped == \A c \in Consoles : dropped[c] ~> link[c] = "closed"
=============================================================================
