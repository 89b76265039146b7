------------------------------ MODULE Sessions ------------------------------
(***************************************************************************)
(* POST /auth/login, /refresh and /logout over the refresh_tokens table.   *)
(* Requests overlap: each has a session of its own, reads rows without a   *)
(* lock, and its changes are seen by the others when it commits.  Updates  *)
(* set revoked_at whatever the row holds by then, so two that wait for     *)
(* each other's row lock both take effect.                                 *)
(***************************************************************************)
EXTENDS TokenStore, FiniteSets

CONSTANTS
    Requests,    \* requests handled at the same time
    MaxChanges   \* bound: accounts switched off or on

ASSUME SessionsAssumption == MaxChanges \in Nat

VARIABLES
    is_active,  \* users.is_active of the one user
    changes,
    job,        \* job[r]: where request r is and what it has read
    tainted,    \* history: tokens from a rotation that another commit overtook
    burned      \* history: families revoked by a reuse that nothing overtook

sessionVars == <<storeVars, is_active, changes, job, tainted, burned>>

Labels == {"idle", "user", "rotate", "expire", "reuse", "revoke", "logout"}

\* token: the row looked up; loaded: what _revoke_family selected; at: now in
\* refresh; overtaken: another request has committed to the family since.
Job == [pc : Labels, token : Ids, loaded : SUBSET Ids, at : 0..MaxTime, overtaken : BOOLEAN]
Idle == [pc |-> "idle", token |-> 1, loaded |-> {}, at |-> 0, overtaken |-> FALSE]

SessionsTypeOK ==
    /\ family \in [Ids -> 0..MaxTokens]
    /\ revoked \subseteq Rows
    /\ expires \in [Ids -> 0..MaxTime + RefreshTTL]
    /\ now \in 0..MaxTime
    /\ is_active \in BOOLEAN /\ changes \in 0..MaxChanges
    /\ job \in [Requests -> Job]
    /\ tainted \subseteq Rows
    /\ burned \subseteq Ids

SessionsInit ==
    /\ Init
    /\ is_active = TRUE
    /\ changes = 0
    /\ job = [r \in Requests |-> Idle]
    /\ tainted = {}
    /\ burned = {}
-----------------------------------------------------------------------------
GoTo(r, label) == job' = [job EXCEPT ![r].pc = label]
Family(r) == family[job[r].token]

\* r is answered after its commit, which overtakes the requests that have read
\* the same family.
Committed(r) ==
    job' = [q \in Requests |->
               IF q = r THEN Idle
               ELSE IF job[q].pc # "idle" /\ Family(q) = Family(r)
                    THEN [job[q] EXCEPT !.overtaken = TRUE] ELSE job[q]]

Unchanged == UNCHANGED <<storeVars, is_active, changes, tainted, burned>>

\* login: a wrong password or an inactive user gets 401.
LogIn ==
    /\ is_active
    /\ Login
    /\ UNCHANGED <<is_active, changes, job, tainted, burned>>

\* The lookup by token hash finds a row; an unknown token gets 401.
Found(t) == t \in Rows

\* Mutant: an expired token is rotated like any other.
LabelOfToken(t) == IF t \in revoked THEN "reuse" ELSE "user"

\* What refresh decides on the row it has read.
Verdict(t) ==
    IF t \in revoked THEN "reuse" ELSE IF expires[t] <= now THEN "expire" ELSE "user"

\* refresh, up to the lookup of the row.
Refresh(r, t) ==
    /\ job[r].pc = "idle"
    /\ Found(t)
    /\ job' = [job EXCEPT ![r] = [pc |-> Verdict(t), token |-> t, loaded |-> {},
                                  at |-> now, overtaken |-> FALSE]]
    /\ Unchanged

LoadUser(r) ==
    /\ job[r].pc = "user"
    /\ job' = [job EXCEPT ![r] = IF is_active THEN [job[r] EXCEPT !.pc = "rotate"] ELSE Idle]
    /\ Unchanged

\* Mutant: the presented token is not retired.
KeepsThePresented(r) == {}

Retired(r) == {job[r].token}

\* issue_tokens in the same family, _store_refresh, and get_session's commit.
RotateCommit(r) ==
    /\ job[r].pc = "rotate"
    /\ revoked' = revoked \cup Retired(r)
    /\ \E new \in Ids :
           /\ Add(new, Family(r), job[r].at)
           /\ tainted' = IF job[r].overtaken \/ job[r].token \in tainted
                         THEN tainted \cup {new} ELSE tainted
    /\ Committed(r)
    /\ UNCHANGED <<now, is_active, changes, burned>>

ExpireCommit(r) ==
    /\ job[r].pc = "expire"
    /\ revoked' = revoked \cup {job[r].token}
    /\ Committed(r)
    /\ UNCHANGED <<family, expires, now, is_active, changes, tainted, burned>>

\* _revoke_family selects the active rows of the family ...
ReuseLoad(r) ==
    /\ job[r].pc = "reuse"
    /\ job' = [job EXCEPT ![r] = [job[r] EXCEPT !.pc = "revoke", !.loaded = Active(Family(r)),
                                                !.overtaken = FALSE]]
    /\ Unchanged

\* Mutant: raising 401 rolls the revocation back.
RolledBack(r) == {}

Revoked(r) == job[r].loaded

\* ... and the handler commits before it raises.
ReuseCommit(r) ==
    /\ job[r].pc = "revoke"
    /\ revoked' = revoked \cup Revoked(r)
    /\ burned' = IF job[r].overtaken THEN burned ELSE burned \cup {Family(r)}
    /\ Committed(r)
    /\ UNCHANGED <<family, expires, now, is_active, changes, tainted>>

Logout(r, t) ==
    /\ job[r].pc = "idle"
    /\ Found(t) /\ t \notin revoked
    /\ job' = [job EXCEPT ![r] = [Idle EXCEPT !.pc = "logout", !.token = t]]
    /\ Unchanged

LogoutCommit(r) ==
    /\ job[r].pc = "logout"
    /\ revoked' = revoked \cup {job[r].token}
    /\ Committed(r)
    /\ UNCHANGED <<family, expires, now, is_active, changes, tainted, burned>>

\* A statement or the commit fails: rolled back, nothing is issued.
Fails(r) ==
    /\ job[r].pc # "idle"
    /\ job' = [job EXCEPT ![r] = Idle]
    /\ Unchanged

\* An administrator switches the account off or on in the database.
SwitchAccount ==
    /\ changes < MaxChanges
    /\ changes' = changes + 1
    /\ is_active' = ~is_active
    /\ UNCHANGED <<storeVars, job, tainted, burned>>

Clock == Tick /\ UNCHANGED <<is_active, changes, job, tainted, burned>>
-----------------------------------------------------------------------------
Commit(r) == RotateCommit(r) \/ ExpireCommit(r) \/ ReuseCommit(r) \/ LogoutCommit(r)

SessionsNext ==
    \/ LogIn \/ SwitchAccount \/ Clock
    \/ \E r \in Requests :
           \/ LoadUser(r) \/ ReuseLoad(r) \/ Commit(r) \/ Fails(r)
           \/ \E t \in Ids : Refresh(r, t) \/ Logout(r, t)

SessionsSpec == SessionsInit /\ [][SessionsNext]_sessionVars
-----------------------------------------------------------------------------
(***************************************************************************)
(* Properties.                                                             *)
(***************************************************************************)

\* Each refresh rotates: a family has one live token, apart from those that
\* come from a refresh another commit has overtaken.
OneLiveToken ==
    \A f \in Ids : \A s, t \in Active(f) \ tainted : s = t

\* A retired token that comes back ends its family for good: whoever holds a
\* token of it cannot refresh again, unless a refresh was under way.
ReuseEndsTheFamily == \A f \in burned : Active(f) \subseteq tainted

\* "The database implementation keeps the same rules" as the in-memory store:
\* every commit that no other has overtaken is a step of TokenStore, so the
\* endpoints implement it as long as requests on one family do not overlap.
Store == INSTANCE TokenStore WITH family <- family, revoked <- revoked, expires <- expires, now <- now
KeepsTheRules ==
    [][(\E r \in Requests : job[r].overtaken /\ job'[r] = Idle) \/ Store!Next]_storeVars
=============================================================================
