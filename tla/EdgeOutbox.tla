----------------------------- MODULE EdgeOutbox -----------------------------
(***************************************************************************)
(* SqliteOutbox: the queue of events and media on the edge gateway.  It    *)
(* has a single writer, so its methods do not overlap, but every statement *)
(* commits by itself: a crash may come between any two, and what the       *)
(* worker has in memory is gone then.  The worker that drains the queue is *)
(* external: it claims, uploads and marks.                                 *)
(***************************************************************************)
EXTENDS Naturals, Sequences, SequencesExt, FiniteSetsExt

CONSTANTS
    Incidents,   \* events to enqueue, numbered by occurred_at
    ClaimLimit,  \* limit of claim_events
    Quota,       \* target_bytes of evict_media
    MaxMedia,    \* bound: media files
    MaxCrashes   \* bound

ASSUME OutboxAssumption ==
    /\ Incidents \subseteq Nat
    /\ {ClaimLimit, Quota, MaxMedia, MaxCrashes} \subseteq Nat

VARIABLES
    state,     \* state[e] of the row of event e, "none" if there is no row
    due,       \* rows whose next_attempt_at has come
    selected,  \* rows claim_events has read and not yet updated, in order
    held,      \* rows the worker has claimed
    media,     \* rows of outbox_media
    rows,      \* rows evict_media has read and not come to
    created,   \* media created so far; ids follow created_at
    crashes

outboxVars == <<state, due, selected, held, media, rows, created, crashes>>

OutboxState == {"PENDING", "UPLOADING", "DONE", "FAILED_RETRYABLE", "FAILED_PERMANENT"}
Medium == [id : 1..MaxMedia, priority : {50, 100}, size_bytes : {1, 2}]

OutboxInit ==
    /\ state = [e \in Incidents |-> "none"]
    /\ due = {}
    /\ selected = <<>> /\ held = {}
    /\ media = {} /\ rows = {} /\ created = 0
    /\ crashes = 0
-----------------------------------------------------------------------------
\* No method of the outbox is under way.
Free == selected = <<>> /\ rows = {}
Idle == Free /\ held = {}

\* Idempotent on edge_event_id.
enqueue_event(e) ==
    /\ Free
    /\ state' = IF state[e] = "none" THEN [state EXCEPT ![e] = "PENDING"] ELSE state
    /\ due' = IF state[e] = "none" THEN due \cup {e} ELSE due
    /\ UNCHANGED <<selected, held, media, rows, created, crashes>>

\* Mutant: what failed once is not claimed again.
NeverTried == {e \in due : state[e] = "PENDING"}

Claimable == {e \in due : state[e] \in {"PENDING", "FAILED_RETRYABLE"}}

\* claim_events reads the oldest rows ...
ClaimSelect ==
    /\ Idle
    /\ Claimable # {}
    /\ LET oldest == SetToSortSeq(Claimable, <)
       IN  selected' = SubSeq(oldest, 1, IF Len(oldest) < ClaimLimit THEN Len(oldest) ELSE ClaimLimit)
    /\ UNCHANGED <<state, due, held, media, rows, created, crashes>>

\* ... and marks them one by one.
ClaimUpdate ==
    /\ selected # <<>>
    /\ state' = [state EXCEPT ![Head(selected)] = "UPLOADING"]
    /\ held' = held \cup {Head(selected)}
    /\ selected' = Tail(selected)
    /\ UNCHANGED <<due, media, rows, created, crashes>>

\* mark_event after an upload; a failure that may be retried has a next_attempt_at.
mark_event(e, outcome) ==
    /\ Free /\ e \in held
    /\ state' = [state EXCEPT ![e] = outcome]
    /\ due' = IF outcome = "FAILED_RETRYABLE" THEN due \ {e} ELSE due
    /\ held' = held \ {e}
    /\ UNCHANGED <<selected, media, rows, created, crashes>>

RetryComesDue(e) ==
    /\ state[e] = "FAILED_RETRYABLE" /\ e \notin due
    /\ due' = due \cup {e}
    /\ UNCHANGED <<state, selected, held, media, rows, created, crashes>>

enqueue_media ==
    /\ Free
    /\ created < MaxMedia
    /\ created' = created + 1
    /\ \E m \in Medium : m.id = created + 1 /\ media' = media \cup {m}
    /\ UNCHANGED <<state, due, selected, held, rows, crashes>>

\* Nothing ever marks a medium DONE, so all of them count.
spool_bytes(files) == MapThenSumSet(LAMBDA m : m.size_bytes, files)

Fits(files) == spool_bytes(files) <= Quota

\* Mutant: the files that matter most go first.
BestFirst(a, b) == a.priority < b.priority \/ (a.priority = b.priority /\ a.id < b.id)

\* ORDER BY priority DESC, created_at ASC
GoesBefore(a, b) == a.priority > b.priority \/ (a.priority = b.priority /\ a.id < b.id)

\* evict_media reads the rows, if they are too much for the quota ...
evict_media ==
    /\ Free
    /\ ~Fits(media)
    /\ rows' = media
    /\ UNCHANGED <<state, due, selected, held, media, created, crashes>>

\* ... and deletes one after the other, until those it has not come to (whose
\* size is the running total) fit.
EvictRow ==
    /\ \E m \in rows :
           /\ \A n \in rows \ {m} : GoesBefore(m, n)
           /\ media' = media \ {m}
           /\ rows' = IF Fits(rows \ {m}) THEN {} ELSE rows \ {m}
    /\ UNCHANGED <<state, due, selected, held, created, crashes>>

Crash ==
    /\ ~Idle
    /\ crashes < MaxCrashes
    /\ crashes' = crashes + 1
    /\ selected' = <<>> /\ held' = {} /\ rows' = {}
    /\ UNCHANGED <<state, due, media, created>>

Outcomes == {"DONE", "FAILED_RETRYABLE", "FAILED_PERMANENT"}

OutboxNext ==
    \/ ClaimSelect \/ ClaimUpdate \/ enqueue_media \/ evict_media \/ EvictRow \/ Crash
    \/ \E e \in Incidents :
           \/ enqueue_event(e) \/ RetryComesDue(e)
           \/ \E outcome \in Outcomes : mark_event(e, outcome)

\* The worker keeps going and time passes; the uplink comes back in the end.
OutboxFairness ==
    /\ WF_outboxVars(ClaimSelect) /\ WF_outboxVars(ClaimUpdate) /\ WF_outboxVars(EvictRow)
    /\ \A e \in Incidents :
           /\ WF_outboxVars(RetryComesDue(e))
           /\ WF_outboxVars(\E outcome \in Outcomes : mark_event(e, outcome))
           /\ SF_outboxVars(mark_event(e, "DONE"))
-----------------------------------------------------------------------------
\* Claimed by a worker that crashed before it could mark them.
Stranded == {e \in Incidents : state[e] = "UPLOADING" /\ e \notin held}

\* No event is lost in an outage: whatever is enqueued is uploaded or refused
\* for good in the end, unless a crash came between its claim and its mark.
Drains ==
    \A e \in Incidents :
        state[e] = "PENDING" ~> (state[e] \in {"DONE", "FAILED_PERMANENT"} \/ e \in Stranded)

\* When the disk quota is reached, no file goes while one that matters less
\* stays or while the rest already fits, also if a crash cuts an eviction short
\* and a later one takes over; and an eviction that is not cut short brings the
\* spool below the quota (evict_media).
EvictsTheLeast ==
    [][/\ \A gone \in media \ media' :
              /\ ~Fits(media)
              /\ \A kept \in media' : \/ kept.priority < gone.priority
                                      \/ kept.priority = gone.priority /\ kept.id > gone.id
       /\ rows # {} /\ rows' = {} /\ crashes' = crashes => Fits(media')]_<<media, rows>>
=============================================================================
