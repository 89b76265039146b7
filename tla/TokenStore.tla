----------------------------- MODULE TokenStore -----------------------------
(***************************************************************************)
(* TokenFamilyStore: the rules of refresh tokens, one call at a time.  A   *)
(* row is never the token itself; Ids stand for both.  The session         *)
(* endpoints keep these rules over the database (module Sessions).         *)
(***************************************************************************)
EXTENDS Naturals

CONSTANTS
    MaxTokens,  \* bound: rows ever added
    RefreshTTL, \* lifetime of a refresh token
    MaxTime     \* bound: the clock

Ids == 1..MaxTokens

ASSUME StoreAssumption == MaxTokens \in Nat \ {0} /\ RefreshTTL \in Nat /\ MaxTime \in Nat

VARIABLES
    family,   \* family[t]: family_id of the row, 0 if there is no row
    revoked,  \* rows with a revoked_at
    expires,  \* expires[t]: expires_at
    now

storeVars == <<family, revoked, expires, now>>

Init ==
    /\ family = [t \in Ids |-> 0]
    /\ revoked = {}
    /\ expires = [t \in Ids |-> 0]
    /\ now = 0

Rows == {t \in Ids : family[t] # 0}
Active(f) == {t \in Rows : family[t] = f} \ revoked

\* The row of issue_tokens; ids are taken in order.
Add(t, f, moment) ==
    /\ t \in Ids \ Rows
    /\ \A s \in Ids \ Rows : t <= s
    /\ family' = [family EXCEPT ![t] = f]
    /\ expires' = [expires EXCEPT ![t] = moment + RefreshTTL]

\* Logging in starts a family.
Login == \E t \in Ids : Add(t, t, now) /\ UNCHANGED <<revoked, now>>

\* rotate(): a retired token revokes its family, an expired one is retired, an
\* active one is exchanged.
Rotate(t, moment) ==
    /\ t \in Rows
    /\ \/ /\ t \in revoked
          /\ revoked' = revoked \cup Active(family[t])
          /\ UNCHANGED <<family, expires>>
       \/ /\ t \notin revoked
          /\ expires[t] <= moment
          /\ revoked' = revoked \cup {t}
          /\ UNCHANGED <<family, expires>>
       \/ /\ t \notin revoked
          /\ moment < expires[t]
          /\ revoked' = revoked \cup {t}
          /\ \E new \in Ids : Add(new, family[t], moment)
    /\ UNCHANGED now

\* revoke(): log out one session.
Revoke(t) ==
    /\ t \in Rows
    /\ revoked' = revoked \cup {t}
    /\ UNCHANGED <<family, expires, now>>

purge_expired ==
    /\ LET stale == {t \in Rows : expires[t] <= now}
       IN  /\ family' = [t \in Ids |-> IF t \in stale THEN 0 ELSE family[t]]
           /\ revoked' = revoked \ stale
           /\ expires' = [t \in Ids |-> IF t \in stale THEN 0 ELSE expires[t]]
    /\ UNCHANGED now

Tick ==
    /\ now < MaxTime
    /\ now' = now + 1
    /\ UNCHANGED <<family, revoked, expires>>

Next ==
    \/ Login \/ purge_expired \/ Tick
    \/ \E t \in Ids : Revoke(t) \/ \E moment \in 0..now : Rotate(t, moment)

Spec == Init /\ [][Next]_storeVars
=============================================================================
