--------------------------- MODULE SessionsProofs ---------------------------
(***************************************************************************)
(* Proofs about Sessions for any number of requests, tokens and switches   *)
(* of the account: rotation, reuse and the rules of TokenFamilyStore.      *)
(***************************************************************************)
EXTENDS Sessions, TLAPS

(***************************************************************************)
(* The inductive invariant.  A request acts on a row it read before other  *)
(* requests committed, so the invariant says what is left of each reading  *)
(* when the request acts on it, depending on whether it was overtaken.     *)
(***************************************************************************)

\* A family is named after its first row, which stays.
FamiliesAreRows == \A t \in Rows : family[t] \in Rows

InFamily(f) == {t \in Rows : family[t] = f}

\* What was read and cannot have changed: the row, its expiry, a revocation.
ReadForGood(r) ==
    /\ job[r].token \in Rows
    /\ job[r].at <= now
    /\ job[r].pc \in {"user", "rotate"} => job[r].at < expires[job[r].token]
    /\ job[r].pc = "expire" => expires[job[r].token] <= job[r].at
    /\ job[r].pc \in {"reuse", "revoke"} => job[r].token \in revoked
    /\ job[r].pc = "revoke" => job[r].loaded \subseteq InFamily(Family(r))

\* What holds until another commit overtakes the request.
ReadForNow(r) ==
    ~job[r].overtaken =>
        /\ job[r].pc \in {"user", "rotate", "expire"} => job[r].token \notin revoked
        /\ job[r].pc = "revoke" => Active(Family(r)) \subseteq job[r].loaded

RequestInv(r) == job[r].pc # "idle" => ReadForGood(r) /\ ReadForNow(r)

SessionsInv ==
    /\ SessionsTypeOK
    /\ FamiliesAreRows
    /\ burned \subseteq Rows
    /\ \A r \in Requests : RequestInv(r)
    /\ OneLiveToken
    /\ ReuseEndsTheFamily

\* A row is added in the family it is given, under an id no row had.
LEMMA AddEffect ==
  ASSUME SessionsTypeOK, NEW t \in Ids, NEW f \in Ids, NEW moment \in 0..MaxTime,
         Add(t, f, moment)
  PROVE  /\ t \notin Rows
         /\ Rows' = Rows \cup {t}
         /\ family' \in [Ids -> 0..MaxTokens]
         /\ expires' \in [Ids -> 0..MaxTime + RefreshTTL]
         /\ family'[t] = f
         /\ \A s \in Rows : family'[s] = family[s] /\ expires'[s] = expires[s]
  BY StoreAssumption DEF SessionsTypeOK, Add, Rows, Ids

\* A request's record changes a few fields at a time.
LEMMA JobUpdate ==
  ASSUME NEW j \in Job, NEW S \in SUBSET Ids, NEW t \in Ids
  PROVE  /\ [j EXCEPT !.pc = "revoke", !.loaded = S, !.overtaken = FALSE] \in Job
         /\ [j EXCEPT !.pc = "logout", !.token = t] \in Job
  BY DEF Job, Labels

\* A commit ends its own request and marks those that had read the family.
LEMMA CommittedEffect ==
  ASSUME SessionsTypeOK, NEW r \in Requests, Committed(r)
  PROVE  /\ job' \in [Requests -> Job]
         /\ job'[r] = Idle
         /\ \A q \in Requests \ {r} :
              /\ job'[q].pc = job[q].pc /\ job'[q].token = job[q].token
              /\ job'[q].at = job[q].at /\ job'[q].loaded = job[q].loaded
              /\ job[q].pc # "idle" /\ ~job'[q].overtaken =>
                   Family(q) # Family(r) /\ ~job[q].overtaken
  <1>1. Idle \in Job
    BY StoreAssumption DEF Idle, Job, Labels, Ids
  <1>2. ASSUME NEW q \in Requests
        PROVE  [job[q] EXCEPT !.overtaken = TRUE] \in Job
    BY DEF SessionsTypeOK, Job
  <1>3. job' \in [Requests -> Job]
    BY <1>1, <1>2 DEF SessionsTypeOK, Committed
  <1>4. job'[r] = Idle
    BY DEF Committed
  <1>5. ASSUME NEW q \in Requests \ {r}
        PROVE  /\ job'[q].pc = job[q].pc /\ job'[q].token = job[q].token
               /\ job'[q].at = job[q].at /\ job'[q].loaded = job[q].loaded
               /\ job[q].pc # "idle" /\ ~job'[q].overtaken =>
                    Family(q) # Family(r) /\ ~job[q].overtaken
    BY DEF SessionsTypeOK, Committed, Job
  <1> QED BY <1>3, <1>4, <1>5

\* A commit to one family leaves the readings of the others alone, and what a
\* request of the same family still relies on cannot have changed.
LEMMA OthersKeepTheirReadings ==
  ASSUME SessionsTypeOK, NEW r \in Requests, NEW q \in Requests \ {r}, RequestInv(q),
         Committed(r), now' = now, revoked \subseteq revoked', Rows \subseteq Rows',
         \A t \in Rows : family'[t] = family[t] /\ expires'[t] = expires[t],
         \A t \in revoked' \ revoked : t \in InFamily(Family(r)),
         \A t \in Rows' \ Rows : family'[t] = Family(r)
  PROVE  RequestInv(q)'
  <1> SUFFICES ASSUME job[q].pc # "idle"
               PROVE  ReadForGood(q)' /\ ReadForNow(q)'
    BY CommittedEffect DEF RequestInv
  <1>1. ReadForGood(q) /\ ReadForNow(q)
    BY DEF RequestInv
  <1>2. Family(q)' = Family(q)
    BY <1>1, CommittedEffect DEF Family, ReadForGood
  <1>3. ReadForGood(q)'
    BY <1>1, <1>2, CommittedEffect DEF ReadForGood, InFamily
  <1>4. ReadForNow(q)'
    <2> SUFFICES ASSUME ~job'[q].overtaken
                 PROVE  /\ job[q].pc \in {"user", "rotate", "expire"} => job[q].token \notin revoked'
                        /\ job[q].pc = "revoke" => Active(Family(q))' \subseteq job[q].loaded
      BY CommittedEffect DEF ReadForNow
    <2>1. Family(q) # Family(r) /\ ~job[q].overtaken
      BY CommittedEffect
    <2>2. job[q].token \notin InFamily(Family(r))
      BY <2>1 DEF InFamily, Family
    <2>3. \A t \in Active(Family(q))' : t \in Rows /\ family[t] = Family(q) /\ t \notin revoked
      BY <1>2, <2>1 DEF Active
    <2>4. Active(Family(q))' \subseteq Active(Family(q))
      BY <2>3 DEF Active
    <2> QED BY <1>1, <2>1, <2>2, <2>4 DEF ReadForNow
  <1> QED BY <1>3, <1>4

LEMMA SessionsInvariant == SessionsSpec => []SessionsInv
<1>0. Idle \in Job
  BY StoreAssumption DEF Idle, Job, Labels, Ids
<1>1. SessionsInit => SessionsInv
  <2> SUFFICES ASSUME SessionsInit
               PROVE  SessionsInv
    OBVIOUS
  <2>1. Rows = {}
    BY DEF SessionsInit, Init, Rows
  <2>2. SessionsTypeOK
    BY <1>0, <2>1, StoreAssumption, SessionsAssumption DEF SessionsInit, Init, SessionsTypeOK, Ids
  <2> QED BY <2>1, <2>2 DEF SessionsInit, SessionsInv, FamiliesAreRows, RequestInv, Idle,
                         OneLiveToken, ReuseEndsTheFamily, Active
<1>2. SessionsInv /\ [SessionsNext]_sessionVars => SessionsInv'
  <2> SUFFICES ASSUME SessionsInv, [SessionsNext]_sessionVars
               PROVE  SessionsInv'
    OBVIOUS
  <2>0. SessionsTypeOK /\ \A r \in Requests : RequestInv(r)
    BY DEF SessionsInv
  <2>r. \A t \in Rows : family[t] \in Ids /\ t \in Ids
    BY <2>0, StoreAssumption DEF SessionsTypeOK, Rows, Ids
  \* A step that leaves the table alone.
  <2>a. ASSUME UNCHANGED <<family, revoked, expires, tainted, burned>>, SessionsTypeOK',
               \A r \in Requests : RequestInv(r)'
        PROVE  SessionsInv'
    BY <2>a DEF SessionsInv, FamiliesAreRows, OneLiveToken, ReuseEndsTheFamily, Rows, Active
  \* A step of one request that leaves the table alone.
  <2>b. ASSUME NEW r \in Requests, NEW j \in Job, Unchanged, job' = [job EXCEPT ![r] = j],
               RequestInv(r)'
        PROVE  SessionsInv'
    <3>1. SessionsTypeOK'
      BY <2>0, <2>b DEF SessionsTypeOK, Unchanged, storeVars, Rows
    <3>2. \A q \in Requests \ {r} : RequestInv(q)'
      BY <2>0, <2>b DEF SessionsTypeOK, Unchanged, storeVars, RequestInv, ReadForGood, ReadForNow,
                        InFamily, Family, Active, Rows
    <3> QED BY <2>a, <2>b, <3>1, <3>2 DEF Unchanged, storeVars
  <2>1. CASE LogIn
    <3>1. PICK t \in Ids : Add(t, t, now)
      BY <2>1 DEF LogIn, Login
    <3>2. /\ t \notin Rows /\ Rows' = Rows \cup {t}
          /\ family' \in [Ids -> 0..MaxTokens]
          /\ expires' \in [Ids -> 0..MaxTime + RefreshTTL]
          /\ family'[t] = t
          /\ \A s \in Rows : family'[s] = family[s] /\ expires'[s] = expires[s]
      BY <2>0, <3>1, AddEffect DEF SessionsTypeOK
    <3>3. UNCHANGED <<revoked, now, is_active, changes, job, tainted, burned>>
      BY <2>1 DEF LogIn, Login
    <3>4. SessionsTypeOK'
      BY <2>0, <3>2, <3>3 DEF SessionsTypeOK
    <3>5. FamiliesAreRows' /\ (burned \subseteq Rows)'
      BY <3>2, <3>3 DEF SessionsInv, FamiliesAreRows
    <3>6. \A s \in Rows : family'[s] # t
      BY <3>2 DEF SessionsInv, FamiliesAreRows
    <3>7. \A f \in Ids : Active(f)' = IF f = t THEN {t} ELSE Active(f)
      BY <2>0, <3>2, <3>3, <3>6 DEF SessionsTypeOK, Active
    <3>8. OneLiveToken' /\ ReuseEndsTheFamily'
      BY <2>0, <3>2, <3>3, <3>7 DEF SessionsInv, SessionsTypeOK, OneLiveToken, ReuseEndsTheFamily
    <3>9. ASSUME NEW r \in Requests
          PROVE  RequestInv(r)'
      <4> SUFFICES ASSUME job[r].pc # "idle"
                   PROVE  ReadForGood(r)' /\ ReadForNow(r)'
        BY <3>3 DEF RequestInv
      <4>1. ReadForGood(r) /\ ReadForNow(r)
        BY <2>0 DEF RequestInv
      <4>2. Family(r)' = Family(r) /\ Family(r) \in Rows /\ Family(r) \in Ids
        BY <2>r, <3>2, <3>3, <4>1 DEF ReadForGood, Family, SessionsInv, FamiliesAreRows
      <4>3. Active(Family(r))' = Active(Family(r))
        BY <3>2, <3>3, <3>7, <4>2 DEF Active
      <4>4. ReadForGood(r)'
        BY <3>2, <3>3, <4>1, <4>2 DEF ReadForGood, InFamily
      <4>5. ReadForNow(r)'
        BY <3>3, <4>1, <4>2, <4>3 DEF ReadForNow
      <4> QED BY <4>4, <4>5
    <3> QED BY <3>4, <3>5, <3>8, <3>9 DEF SessionsInv
  <2>2. CASE SwitchAccount
    <3>1. SessionsTypeOK'
      BY <2>0, <2>2, SessionsAssumption DEF SwitchAccount, SessionsTypeOK, storeVars, Rows
    <3> QED BY <2>0, <2>2, <2>a, <3>1
            DEF SwitchAccount, storeVars, RequestInv, ReadForGood, ReadForNow, InFamily, Family,
                Active, Rows
  <2>3. CASE Clock
    <3>1. SessionsTypeOK'
      BY <2>0, <2>3, StoreAssumption DEF Clock, Tick, SessionsTypeOK, Rows
    <3>2. \A r \in Requests : RequestInv(r)'
      <4>1. now <= now' /\ now \in Nat /\ now' \in Nat /\ \A r \in Requests : job[r].at \in Nat
        BY <2>0, <2>3, StoreAssumption DEF Clock, Tick, SessionsTypeOK, Job
      <4> QED BY <2>0, <2>3, <4>1 DEF Clock, Tick, RequestInv, ReadForGood, ReadForNow, InFamily,
                               Family, Active, Rows
    <3> QED BY <2>3, <2>a, <3>1, <3>2 DEF Clock, Tick
  <2>4. ASSUME NEW r \in Requests, NEW t \in Ids, Refresh(r, t)
        PROVE  SessionsInv'
    <3> DEFINE j == [pc |-> Verdict(t), token |-> t, loaded |-> {}, at |-> now,
                     overtaken |-> FALSE]
    <3>1. j \in Job /\ job' = [job EXCEPT ![r] = j] /\ Unchanged /\ t \in Rows
      BY <2>0, <2>4 DEF Refresh, Found, Verdict, Job, Labels, SessionsTypeOK
    <3>2. job'[r] = j
      BY <2>0, <3>1 DEF SessionsTypeOK
    <3>3. RequestInv(r)'
      BY <2>0, <3>1, <3>2, StoreAssumption
         DEF Verdict, Unchanged, storeVars, RequestInv, ReadForGood, ReadForNow, SessionsTypeOK,
             Rows, Ids
    <3> QED BY <2>b, <3>1, <3>3
  <2>5. ASSUME NEW r \in Requests, LoadUser(r)
        PROVE  SessionsInv'
    <3>1. CASE is_active
      <4> DEFINE j == [job[r] EXCEPT !.pc = "rotate"]
      <4>1. j \in Job /\ job' = [job EXCEPT ![r] = j] /\ Unchanged /\ job[r].pc = "user"
        BY <2>0, <2>5, <3>1 DEF LoadUser, SessionsTypeOK, Job, Labels
      <4>2. /\ job'[r].pc = "rotate" /\ job'[r].token = job[r].token /\ job'[r].at = job[r].at
            /\ job'[r].overtaken = job[r].overtaken
        BY <2>0, <4>1 DEF SessionsTypeOK, Job
      <4>3. RequestInv(r)'
        BY <2>0, <4>1, <4>2 DEF Unchanged, storeVars, RequestInv, ReadForGood, ReadForNow, Rows
      <4> QED BY <2>b, <4>1, <4>3
    <3>2. CASE ~is_active
      <4>1. job' = [job EXCEPT ![r] = Idle] /\ Unchanged
        BY <2>5, <3>2 DEF LoadUser
      <4>2. RequestInv(r)'
        BY <2>0, <4>1 DEF SessionsTypeOK, RequestInv, Idle
      <4> QED BY <1>0, <2>b, <4>1, <4>2
    <3> QED BY <3>1, <3>2
  <2>6. ASSUME NEW r \in Requests, ReuseLoad(r)
        PROVE  SessionsInv'
    <3> DEFINE j == [job[r] EXCEPT !.pc = "revoke", !.loaded = Active(Family(r)),
                                   !.overtaken = FALSE]
    <3>1. job' = [job EXCEPT ![r] = j] /\ Unchanged /\ job[r].pc = "reuse"
      BY <2>6 DEF ReuseLoad
    <3>2. Active(Family(r)) \in SUBSET Ids /\ Active(Family(r)) \subseteq InFamily(Family(r))
      BY DEF Active, Rows, InFamily
    <3>3. job[r] \in Job
      BY <2>0 DEF SessionsTypeOK
    <3>4. j \in Job
      BY <2>r, <3>2, <3>3, <2>0, JobUpdate DEF SessionsTypeOK, Job
    <3>5. /\ job'[r].pc = "revoke" /\ job'[r].token = job[r].token
          /\ job'[r].loaded = Active(Family(r)) /\ job'[r].at = job[r].at
      BY <2>0, <3>1, <3>3 DEF SessionsTypeOK, Job
    <3>6. RequestInv(r)'
      <4>1. UNCHANGED <<family, revoked, expires, now>>
        BY <3>1 DEF Unchanged, storeVars
      <4>2. Family(r)' = Family(r) /\ Active(Family(r))' = Active(Family(r))
            /\ InFamily(Family(r))' = InFamily(Family(r)) /\ Rows' = Rows
        BY <3>5, <4>1 DEF Family, Active, InFamily, Rows
      <4> QED BY <2>0, <3>1, <3>2, <3>5, <4>1, <4>2 DEF RequestInv, ReadForGood, ReadForNow
    <3> QED BY <2>b, <3>1, <3>4, <3>6
  <2>7. ASSUME NEW r \in Requests, NEW t \in Ids, Logout(r, t)
        PROVE  SessionsInv'
    <3> DEFINE j == [Idle EXCEPT !.pc = "logout", !.token = t]
    <3>1. job' = [job EXCEPT ![r] = j] /\ Unchanged /\ t \in Rows
      BY <2>7 DEF Logout, Found
    <3>2. j \in Job
      BY <1>0, JobUpdate
    <3>3. Idle.at = 0
      BY DEF Idle
    <3>4. job'[r].pc = "logout" /\ job'[r].token = t /\ job'[r].at = 0
      BY <1>0, <2>0, <3>1, <3>3 DEF SessionsTypeOK, Job
    <3>5. RequestInv(r)'
      BY <2>0, <3>1, <3>4, StoreAssumption
         DEF Unchanged, storeVars, RequestInv, ReadForGood, ReadForNow, Rows, SessionsTypeOK
    <3> QED BY <2>b, <3>1, <3>2, <3>5
  <2>8. ASSUME NEW r \in Requests, Fails(r)
        PROVE  SessionsInv'
    <3>1. job' = [job EXCEPT ![r] = Idle] /\ Unchanged
      BY <2>8 DEF Fails
    <3>2. RequestInv(r)'
      BY <2>0, <3>1 DEF SessionsTypeOK, RequestInv, Idle
    <3> QED BY <1>0, <2>b, <3>1, <3>2
  \* A commit that adds no row: it revokes rows of its family only.
  <2>c. ASSUME NEW r \in Requests, Committed(r), job[r].pc # "idle",
               UNCHANGED <<family, expires, now, is_active, changes, tainted>>,
               NEW S \in SUBSET InFamily(Family(r)), revoked' = revoked \cup S,
               burned' = burned \/ (burned' = burned \cup {Family(r)}
                                      /\ Active(Family(r)) \subseteq S)
        PROVE  SessionsInv'
    <3>1. Rows' = Rows /\ \A f \in Ids : Active(f)' = Active(f) \ S
      BY <2>c DEF Rows, Active
    <3>2. Family(r) \in Rows /\ Rows \subseteq Ids
      BY <2>0, <2>c DEF RequestInv, ReadForGood, Family, SessionsInv, FamiliesAreRows, Rows
    <3>3. SessionsTypeOK'
      <4>1. burned' \subseteq Ids /\ revoked' \subseteq Rows'
        BY <2>0, <2>c, <3>1, <3>2 DEF SessionsTypeOK, InFamily
      <4>2. job' \in [Requests -> Job]
        BY <2>0, <2>c, CommittedEffect
      <4> QED BY <2>0, <2>c, <3>1, <4>1, <4>2 DEF SessionsTypeOK
    <3>4. FamiliesAreRows' /\ (burned \subseteq Rows)'
      BY <2>c, <3>1, <3>2 DEF SessionsInv, FamiliesAreRows
    <3>5. OneLiveToken'
      BY <2>c, <3>1 DEF SessionsInv, OneLiveToken
    <3>6. ReuseEndsTheFamily'
      BY <2>0, <2>c, <3>1, <3>2 DEF SessionsInv, SessionsTypeOK, ReuseEndsTheFamily
    <3>7. \A q \in Requests \ {r} : RequestInv(q)'
      BY <2>0, <2>c, <3>1, OthersKeepTheirReadings
    <3>8. RequestInv(r)'
      BY <2>0, <2>c, CommittedEffect DEF RequestInv, Idle
    <3> QED BY <3>3, <3>4, <3>5, <3>6, <3>7, <3>8 DEF SessionsInv
  <2>9. ASSUME NEW r \in Requests, ExpireCommit(r) \/ LogoutCommit(r)
        PROVE  SessionsInv'
    <3>1. /\ Committed(r) /\ job[r].pc # "idle" /\ burned' = burned
          /\ revoked' = revoked \cup {job[r].token}
          /\ UNCHANGED <<family, expires, now, is_active, changes, tainted>>
      BY <2>9 DEF ExpireCommit, LogoutCommit
    <3>2. {job[r].token} \in SUBSET InFamily(Family(r))
      BY <2>0, <3>1 DEF RequestInv, ReadForGood, InFamily, Family
    <3> QED BY <2>c, <3>1, <3>2
  <2>10. ASSUME NEW r \in Requests, ReuseCommit(r)
         PROVE  SessionsInv'
    <3>1. /\ Committed(r) /\ job[r].pc = "revoke"
          /\ burned' = IF job[r].overtaken THEN burned ELSE burned \cup {Family(r)}
          /\ revoked' = revoked \cup job[r].loaded
          /\ UNCHANGED <<family, expires, now, is_active, changes, tainted>>
      BY <2>10 DEF ReuseCommit, Revoked
    <3>2. /\ job[r].loaded \in SUBSET InFamily(Family(r))
          /\ ~job[r].overtaken => Active(Family(r)) \subseteq job[r].loaded
      BY <2>0, <3>1 DEF RequestInv, ReadForGood, ReadForNow
    <3> QED BY <2>c, <3>1, <3>2
  <2>11. ASSUME NEW r \in Requests, RotateCommit(r)
         PROVE  SessionsInv'
    <3>0. PICK t \in Ids, f \in Ids : t = job[r].token /\ f = Family(r)
      <4>1. job[r].token \in Rows
        BY <2>0, <2>11 DEF RotateCommit, RequestInv, ReadForGood
      <4> QED BY <2>r, <4>1 DEF Family
    <3>1. PICK new \in Ids :
            /\ Add(new, f, job[r].at)
            /\ tainted' = IF job[r].overtaken \/ t \in tainted THEN tainted \cup {new} ELSE tainted
      BY <2>11, <3>0 DEF RotateCommit
    <3>2. /\ Committed(r) /\ job[r].pc = "rotate" /\ revoked' = revoked \cup {t}
          /\ UNCHANGED <<now, is_active, changes, burned>>
      BY <2>11, <3>0 DEF RotateCommit, Retired
    <3>3. /\ t \in InFamily(f) /\ t \in Rows /\ f \in Ids /\ f \in Rows
          /\ job[r].overtaken \/ t \notin revoked
      BY <2>0, <2>r, <3>0, <3>2
         DEF RequestInv, ReadForGood, ReadForNow, InFamily, Family, SessionsInv, FamiliesAreRows
    <3>4. job[r].at \in 0..MaxTime
      BY <2>0 DEF SessionsTypeOK, Job
    <3>5. /\ new \notin Rows /\ Rows' = Rows \cup {new}
          /\ family' \in [Ids -> 0..MaxTokens]
          /\ expires' \in [Ids -> 0..MaxTime + RefreshTTL]
          /\ family'[new] = f
          /\ \A s \in Rows : family'[s] = family[s] /\ expires'[s] = expires[s]
      BY <2>0, <3>1, <3>3, <3>4, AddEffect
    <3>6. SessionsTypeOK'
      <4>1. revoked' \subseteq Rows' /\ tainted' \subseteq Rows'
        BY <2>0, <3>1, <3>2, <3>3, <3>5 DEF SessionsTypeOK
      <4>2. job' \in [Requests -> Job]
        BY <2>0, <3>2, CommittedEffect
      <4> QED BY <2>0, <3>2, <3>5, <4>1, <4>2 DEF SessionsTypeOK
    <3>7. FamiliesAreRows' /\ (burned \subseteq Rows)'
      BY <3>2, <3>3, <3>5 DEF SessionsInv, FamiliesAreRows
    <3>8. \A g \in Ids : Active(g)' \ {new} = Active(g) \ {t}
      BY <2>0, <3>2, <3>5 DEF SessionsTypeOK, Active
    <3>9. \A g \in Ids \ {f} : new \notin Active(g)'
      BY <3>5 DEF Active
    <3>10. new \notin tainted' => t \in Active(f) /\ t \notin tainted
      BY <3>1, <3>3 DEF Active, InFamily
    <3>11. tainted \subseteq tainted' /\ tainted' \subseteq tainted \cup {new}
      BY <3>1
    <3>12. OneLiveToken'
      <4>1. new \notin tainted' => Active(f)' \ tainted' \subseteq {new}
        <5> SUFFICES ASSUME new \notin tainted', NEW s \in Active(f)' \ tainted', s # new
                     PROVE  FALSE
          OBVIOUS
        <5>1. s \in Active(f) \ {t} /\ s \notin tainted
          BY <3>3, <3>8, <3>11
        <5> QED BY <3>3, <3>10, <5>1 DEF SessionsInv, OneLiveToken
      <4>2. \A g \in Ids : (g # f \/ new \in tainted') => Active(g)' \ tainted' \subseteq Active(g) \ tainted
        BY <3>8, <3>9, <3>11
      <4> SUFFICES ASSUME NEW g \in Ids, NEW x \in Active(g)' \ tainted',
                          NEW y \in Active(g)' \ tainted'
                   PROVE  x = y
        BY DEF OneLiveToken
      <4>3. CASE g = f /\ new \notin tainted'
        BY <4>1, <4>3
      <4>4. CASE g # f \/ new \in tainted'
        BY <4>2, <4>4 DEF SessionsInv, OneLiveToken
      <4> QED BY <4>3, <4>4
    <3>13. ReuseEndsTheFamily'
      <4>1. f \in burned => new \in tainted'
        BY <3>10 DEF SessionsInv, ReuseEndsTheFamily
      <4>2. burned \subseteq Ids
        BY <2>0 DEF SessionsTypeOK
      <4> QED BY <3>2, <3>8, <3>9, <3>11, <4>1, <4>2 DEF SessionsInv, ReuseEndsTheFamily
    <3>14. \A q \in Requests \ {r} : RequestInv(q)'
      <4>1. \A s \in revoked' \ revoked : s \in InFamily(Family(r))
        BY <3>0, <3>2, <3>3
      <4>2. \A s \in Rows' \ Rows : family'[s] = Family(r)
        BY <3>0, <3>5
      <4> QED BY <2>0, <3>2, <3>5, <4>1, <4>2, OthersKeepTheirReadings
    <3>15. RequestInv(r)'
      BY <2>0, <3>2, CommittedEffect DEF RequestInv, Idle
    <3> QED BY <3>6, <3>7, <3>12, <3>13, <3>14, <3>15 DEF SessionsInv
  <2>12. CASE UNCHANGED sessionVars
    BY <2>0, <2>12, <2>a
       DEF sessionVars, storeVars, SessionsTypeOK, RequestInv, ReadForGood, ReadForNow, InFamily,
           Family, Active, Rows
  <2> QED
    BY <2>1, <2>2, <2>3, <2>4, <2>5, <2>6, <2>7, <2>8, <2>9, <2>10, <2>11, <2>12
       DEF SessionsNext, Commit
<1> QED BY <1>1, <1>2, PTL DEF SessionsSpec

\* The table, the requests and the histories are well typed; a revoked token is
\* a row (RefreshToken, issue_tokens).
THEOREM SessionsTypeCorrect == SessionsSpec => []SessionsTypeOK
  BY SessionsInvariant, PTL DEF SessionsInv

\* Rotation leaves one live token in a family, whatever overlaps, apart from
\* the tokens a refresh issued after another commit had overtaken it (refresh).
THEOREM OneLive == SessionsSpec => []OneLiveToken
  BY SessionsInvariant, PTL DEF SessionsInv

\* A reuse that nothing overtook leaves no live token that an overtaken refresh
\* did not issue, then and for ever after (_revoke_family).
THEOREM ReuseEnds == SessionsSpec => []ReuseEndsTheFamily
  BY SessionsInvariant, PTL DEF SessionsInv
-----------------------------------------------------------------------------
\* Every commit that no other has overtaken is a step of TokenFamilyStore: the
\* endpoints implement its rules step by step.
THEOREM RulesAreKept == SessionsSpec => KeepsTheRules
<1> DEFINE Overtaken == \E r \in Requests : job[r].overtaken /\ job'[r] = Idle
<1>1. SessionsInv /\ [SessionsNext]_sessionVars => [Overtaken \/ Store!Next]_storeVars
  <2> SUFFICES ASSUME SessionsInv, [SessionsNext]_sessionVars
               PROVE  [Overtaken \/ Store!Next]_storeVars
    OBVIOUS
  <2>0. SessionsTypeOK /\ \A r \in Requests : RequestInv(r)
    BY DEF SessionsInv
  <2>n. now \in Nat
    BY <2>0, StoreAssumption DEF SessionsTypeOK
  <2>1. CASE LogIn
    BY <2>1 DEF LogIn, Login, Add, Rows, Ids, Store!Next, Store!Login, Store!Add, Store!Rows,
                Store!Ids
  <2>2. CASE Clock
    BY <2>2 DEF Clock, Tick, Store!Next, Store!Tick
  <2>3. CASE SwitchAccount \/ UNCHANGED sessionVars
    BY <2>3 DEF SwitchAccount, sessionVars
  <2>4. ASSUME NEW r \in Requests, NEW t \in Ids,
               LoadUser(r) \/ ReuseLoad(r) \/ Fails(r) \/ Refresh(r, t) \/ Logout(r, t)
        PROVE  UNCHANGED storeVars
    BY <2>4 DEF LoadUser, ReuseLoad, Fails, Refresh, Logout, Unchanged
  <2>5. ASSUME NEW r \in Requests, Commit(r)
        PROVE  Overtaken \/ Store!Next
    <3>1. Committed(r) /\ job[r].pc # "idle"
      BY <2>5 DEF Commit, RotateCommit, ExpireCommit, ReuseCommit, LogoutCommit
    <3>2. job'[r] = Idle
      BY <2>0, <3>1, CommittedEffect
    <3>3. CASE job[r].overtaken
      BY <3>2, <3>3
    <3>4. CASE ~job[r].overtaken
      <4>0. PICK t \in Ids, moment \in 0..now : t = job[r].token /\ moment = job[r].at
        BY <2>0, <3>1, StoreAssumption DEF SessionsTypeOK, Job, RequestInv, ReadForGood
      <4>1. t \in Rows /\ ReadForGood(r) /\ ReadForNow(r)
        BY <2>0, <3>1, <4>0 DEF RequestInv, ReadForGood
      <4>2. CASE RotateCommit(r)
        <5>1. /\ t \notin revoked /\ moment < expires[t]
              /\ revoked' = revoked \cup {t} /\ now' = now
              /\ \E new \in Ids : Add(new, family[t], moment)
          BY <3>4, <4>0, <4>1, <4>2
             DEF RotateCommit, Retired, ReadForGood, ReadForNow, Family
        <5>2. Store!Rotate(t, moment)
          BY <4>1, <5>1 DEF Store!Rotate, Store!Add, Store!Rows, Store!Ids, Add, Rows, Ids
        <5> QED BY <4>0, <5>2 DEF Store!Next, Store!Ids, Ids
      <4>3. CASE ExpireCommit(r)
        <5>1. /\ t \notin revoked /\ expires[t] <= moment
              /\ revoked' = revoked \cup {t} /\ UNCHANGED <<family, expires, now>>
          BY <3>4, <4>0, <4>1, <4>3 DEF ExpireCommit, ReadForGood, ReadForNow
        <5>2. Store!Rotate(t, moment)
          BY <4>1, <5>1 DEF Store!Rotate, Store!Rows, Store!Ids, Rows, Ids
        <5> QED BY <4>0, <5>2 DEF Store!Next, Store!Ids, Ids
      <4>4. CASE ReuseCommit(r)
        <5>1. /\ t \in revoked /\ UNCHANGED <<family, expires, now>>
              /\ revoked' = revoked \cup job[r].loaded
              /\ job[r].loaded \subseteq InFamily(family[t])
              /\ Active(family[t]) \subseteq job[r].loaded
          BY <3>4, <4>0, <4>1, <4>4 DEF ReuseCommit, Revoked, ReadForGood, ReadForNow, Family
        <5>2. revoked' = revoked \cup Active(family[t])
          BY <5>1 DEF Active, InFamily
        <5>3. Store!Rotate(t, moment)
          BY <4>1, <5>1, <5>2 DEF Store!Rotate, Store!Active, Store!Rows, Store!Ids, Active, Rows, Ids
        <5> QED BY <4>0, <5>3 DEF Store!Next, Store!Ids, Ids
      <4>5. CASE LogoutCommit(r)
        <5>1. Store!Revoke(t)
          BY <4>0, <4>1, <4>5 DEF LogoutCommit, Store!Revoke, Store!Rows, Store!Ids, Rows, Ids
        <5> QED BY <4>0, <5>1 DEF Store!Next, Store!Ids, Ids
      <4> QED BY <2>5, <4>2, <4>3, <4>4, <4>5 DEF Commit
    <3> QED BY <3>3, <3>4
  <2> QED BY <2>1, <2>2, <2>3, <2>4, <2>5, StoreAssumption DEF SessionsNext, Ids
<1> QED BY <1>1, SessionsInvariant, PTL DEF SessionsSpec, KeepsTheRules
=============================================================================
