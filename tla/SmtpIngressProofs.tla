------------------------- MODULE SmtpIngressProofs -------------------------
(***************************************************************************)
(* Proofs about Commissioning and SmtpIngress for any number of users,     *)
(* phones, rows and overlapping requests: what a committed request meant   *)
(* is what is in force, and the pair last shown is the one that logs in.   *)
(***************************************************************************)
EXTENDS SmtpIngress, TLAPS

(***************************************************************************)
(* Types.                                                                  *)
(***************************************************************************)
Tenants == {FirstTenant, "none", "deleted"} \cup {Tenant[u] : u \in Users}

RowType == [tenant : Tenants, parent : Int, channel : Int, on : BOOLEAN]

Registration == [user : Users, id : Int]

Values == (SUBSET BOOLEAN) \cup (SUBSET Int) \cup (SUBSET Registration)

Pcs == {"idle", "update", "delete", "zones", "register", "unregister", "account"}

Job ==
    [pc : Pcs, user : Users \cup {""}, target : Targets, read : Values, value : Values,
     overtaken : BOOLEAN]

SetupTypeOK ==
    /\ made \in Nat
    /\ job \in [Requests -> Job]
    /\ rows \in [Tables -> [Ids -> RowType]]
    /\ zones \in [Ids -> SUBSET Int]
    /\ phones \in [Phones -> SUBSET Registration]
    /\ issued \in Nat
    /\ active \subseteq 1..issued
    /\ DOMAIN meant = Targets

(***************************************************************************)
(* The inductive invariant.  What a request read is still there when it    *)
(* commits, unless another commit overtook it; and a commit that was not   *)
(* overtaken leaves its target as the request meant it.                    *)
(***************************************************************************)
Kind(r) == job[r].target[1]
Of(r) == job[r].target[2]

\* A request is about one target of its own kind.
AboutItsKind(r) ==
    /\ job[r].pc = "update" => job[r].target \in Tables \X Ids /\ \E on \in BOOLEAN : job[r].value = {on}
    /\ job[r].pc = "delete" => job[r].target \in {"rule"} \X Ids
    /\ job[r].pc = "zones" =>
           job[r].target \in {"zones"} \X Ids /\ job[r].read \subseteq Int /\ job[r].value \subseteq Int
    /\ job[r].pc = "register" =>
           /\ job[r].target \in {"phone"} \X Phones
           /\ job[r].user \in Users
           /\ \E id \in Int : job[r].value = {[user |-> job[r].user, id |-> id]}
    /\ job[r].pc = "unregister" => job[r].target \in {"phone"} \X Phones
    /\ job[r].pc = "account" => job[r].target = <<"account", 1>>

\* What it read stands until another commit overtakes it.
ReadStands(r) ==
    ~job[r].overtaken =>
        /\ job[r].pc = "update" => job[r].read = {rows[Kind(r)][Of(r)].on}
        /\ job[r].pc = "zones" => job[r].read = zones[Of(r)]
        /\ job[r].pc \in {"register", "unregister"} => job[r].read = phones[Of(r)]
        /\ job[r].pc = "account" => job[r].read = active

\* A push token has one row.
OneRowPerPhone == \A k \in Phones : \A a, b \in phones[k] : a = b

\* The last account issued is the active one, and its pair is the one shown.
LastIsActive ==
    issued > 0 /\ <<"account", 1>> \notin disputed => active = {issued} /\ shown = <<issued, issued>>

SnapshotIsCurrent == fresh => snapshot = active

SetupInv ==
    /\ SetupTypeOK
    /\ \A r \in Requests : AboutItsKind(r) /\ ReadStands(r)
    /\ OneRowPerPhone
    /\ LastIsActive
    /\ AuditTellsArmed
    /\ ZonesAreOneSet
    /\ PhoneFollowsItsUser

\* The variables of the configuration API that a request leaves alone until it commits.
stored == <<rows, zones, phones, issued, active, shown, meant, disputed>>

\* Reading changes nothing that is stored and nothing of the other requests.
LEMMA ReadEffect ==
  ASSUME SetupTypeOK, NEW r \in Requests, NEW u \in Users, NEW pc \in Pcs \ {"idle"},
         NEW target \in Targets, NEW read \in Values, NEW value \in Values,
         made' = made + 1,
         Reads(r, pc, u, target, read, value)
  PROVE  /\ SetupTypeOK'
         /\ UNCHANGED stored
         /\ \A q \in Requests \ {r} : job'[q] = job[q]
         /\ job'[r] \in Job
         /\ job'[r].pc = pc /\ job'[r].user = u /\ job'[r].target = target
         /\ job'[r].read = read /\ job'[r].value = value
         /\ ~job'[r].overtaken
<1> DEFINE new == [pc |-> pc, user |-> u, target |-> target, read |-> read,
                   value |-> value, overtaken |-> FALSE]
<1>1. new \in Job
  BY DEF Job
<1>2. job' = [job EXCEPT ![r] = new]
  BY DEF Reads
<1>3. job' \in [Requests -> Job] /\ job'[r] = new /\ \A q \in Requests \ {r} : job'[q] = job[q]
  <2> HIDE DEF new
  <2> QED BY <1>1, <1>2 DEF SetupTypeOK
<1>4. UNCHANGED stored
  BY DEF Reads, stored
<1> QED
  BY <1>1, <1>3, <1>4 DEF SetupTypeOK, stored

\* A commit ends its request, and overtakes those about the same target.
LEMMA CommitEffect ==
  ASSUME SetupTypeOK, NEW r \in Requests, NEW meaning, Commits(r, meaning)
  PROVE  /\ job' \in [Requests -> Job]
         /\ job'[r].pc = "idle"
         /\ \A q \in Requests \ {r} :
                /\ job'[q].pc = job[q].pc /\ job'[q].user = job[q].user
                /\ job'[q].target = job[q].target
                /\ job'[q].read = job[q].read /\ job'[q].value = job[q].value
                /\ job[q].pc # "idle" /\ job[q].target = job[r].target => job'[q].overtaken
                /\ job[q].overtaken => job'[q].overtaken
         /\ DOMAIN meant' = Targets
         /\ job[r].target \in Targets /\ meant'[job[r].target] = meaning
         /\ \A x \in Targets \ {job[r].target} :
                meant'[x] = meant[x] /\ (x \in disputed' <=> x \in disputed)
         /\ job[r].overtaken <=> job[r].target \in disputed'
         /\ made' = made
<1>1. Idle \in Job /\ Idle.pc = "idle"
  <2>1. <<"site", 1>> \in Targets
    BY CommissioningAssumption DEF Targets, Tables, Ids
  <2> QED BY <2>1 DEF Idle, Job, Values, Pcs
<1>2. \A j \in Job : LET n == [j EXCEPT !.overtaken = TRUE]
                     IN  /\ n \in Job /\ n.overtaken
                         /\ n.pc = j.pc /\ n.user = j.user /\ n.target = j.target
                         /\ n.read = j.read /\ n.value = j.value
  BY DEF Job
<1>3. \A q \in Requests : job[q] \in Job
  BY DEF SetupTypeOK
<1>4. \A q \in Requests :
          job'[q] = IF q = r THEN Idle
                    ELSE IF job[q].pc # "idle" /\ job[q].target = job[r].target
                         THEN [job[q] EXCEPT !.overtaken = TRUE] ELSE job[q]
  BY DEF Commits
<1>5. /\ job' \in [Requests -> Job]
      /\ job'[r].pc = "idle"
  BY <1>1, <1>2, <1>3, <1>4 DEF Commits
<1>6. ASSUME NEW q \in Requests \ {r}
      PROVE  /\ job'[q].pc = job[q].pc /\ job'[q].user = job[q].user
             /\ job'[q].target = job[q].target
             /\ job'[q].read = job[q].read /\ job'[q].value = job[q].value
             /\ job[q].pc # "idle" /\ job[q].target = job[r].target => job'[q].overtaken
             /\ job[q].overtaken => job'[q].overtaken
  <2>1. CASE job[q].pc # "idle" /\ job[q].target = job[r].target
    BY <1>2, <1>3, <1>4, <2>1
  <2>2. CASE ~(job[q].pc # "idle" /\ job[q].target = job[r].target)
    BY <1>4, <2>2
  <2> QED BY <2>1, <2>2
<1>7. job[r].target \in Targets
  BY <1>3 DEF Job
<1>8. meant' = [meant EXCEPT ![job[r].target] = meaning] /\ made' = made
  BY DEF Commits
<1>9. disputed' = IF job[r].overtaken THEN disputed \cup {job[r].target}
                  ELSE disputed \ {job[r].target}
  BY DEF Commits
<1> QED
  BY <1>5, <1>6, <1>7, <1>8, <1>9 DEF SetupTypeOK

\* A request that has just read keeps the invariant, if what it read is what is stored.
LEMMA ReadKeeps ==
  ASSUME SetupInv, NEW r \in Requests, SetupTypeOK', UNCHANGED stored,
         \A q \in Requests \ {r} : job'[q] = job[q],
         AboutItsKind(r)', ReadStands(r)'
  PROVE  SetupInv'
<1>1. ASSUME NEW q \in Requests
      PROVE  AboutItsKind(q)' /\ ReadStands(q)'
  <2>1. CASE q = r
    BY <2>1
  <2>2. CASE q # r
    BY <2>2 DEF SetupInv, stored, AboutItsKind, ReadStands, Kind, Of
  <2> QED BY <2>1, <2>2
<1>2. OneRowPerPhone' /\ LastIsActive' /\ AuditTellsArmed' /\ ZonesAreOneSet' /\ PhoneFollowsItsUser'
  BY DEF SetupInv, stored, OneRowPerPhone, LastIsActive, AuditTellsArmed, ZonesAreOneSet,
         PhoneFollowsItsUser
<1> QED
  BY <1>1, <1>2 DEF SetupInv

\* A commit that changes its own target only leaves every other target as it was
\* meant, and what every request that is not overtaken has read.
LEMMA CommitKeeps ==
  ASSUME SetupInv, NEW r \in Requests, NEW meaning, Commits(r, meaning),
         job[r].pc # "idle",
         \A t \in Tables : \A i \in Ids :
             <<t, i>> # job[r].target => rows'[t][i].on = rows[t][i].on,
         \A c \in Ids : <<"zones", c>> # job[r].target => zones'[c] = zones[c],
         \A k \in Phones : <<"phone", k>> # job[r].target => phones'[k] = phones[k],
         <<"account", 1>> # job[r].target => UNCHANGED <<issued, active, shown>>
  PROVE  /\ \A q \in Requests : AboutItsKind(q)' /\ ReadStands(q)'
         /\ \A s \in Ids : <<"site", s>> # job[r].target =>
                (<<"site", s>> \notin disputed' => meant'[<<"site", s>>] = {rows'["site"][s].on})
         /\ \A c \in Ids : <<"zones", c>> # job[r].target =>
                (<<"zones", c>> \notin disputed' => zones'[c] = meant'[<<"zones", c>>])
         /\ \A k \in Phones : <<"phone", k>> # job[r].target =>
                (<<"phone", k>> \notin disputed' =>
                     {row.user : row \in phones'[k]} = meant'[<<"phone", k>>])
         /\ <<"account", 1>> # job[r].target => LastIsActive'
<1> USE DEF Kind, Of
<1>1. /\ SetupTypeOK
      /\ job' \in [Requests -> Job]
      /\ job'[r].pc = "idle"
      /\ \A q \in Requests \ {r} :
             /\ job'[q].pc = job[q].pc /\ job'[q].user = job[q].user
             /\ job'[q].target = job[q].target
             /\ job'[q].read = job[q].read /\ job'[q].value = job[q].value
             /\ job[q].pc # "idle" /\ job[q].target = job[r].target => job'[q].overtaken
             /\ job[q].overtaken => job'[q].overtaken
      /\ \A x \in Targets \ {job[r].target} :
             meant'[x] = meant[x] /\ (x \in disputed' <=> x \in disputed)
  BY CommitEffect DEF SetupInv
<1>2. ASSUME NEW q \in Requests
      PROVE  AboutItsKind(q)'
  <2>1. CASE q = r
    BY <1>1, <2>1 DEF AboutItsKind
  <2>2. CASE q # r
    <3>1. AboutItsKind(q)
      BY DEF SetupInv
    <3> QED BY <1>1, <2>2, <3>1 DEF AboutItsKind
  <2> QED BY <2>1, <2>2
<1>3. ASSUME NEW q \in Requests
      PROVE  ReadStands(q)'
  <2>1. CASE q = r
    BY <1>1, <2>1 DEF ReadStands
  <2>2. CASE q # r /\ job[q].pc = "idle"
    BY <1>1, <2>2 DEF ReadStands
  <2>3. CASE q # r /\ job[q].pc # "idle" /\ job[q].target = job[r].target
    BY <1>1, <2>3 DEF ReadStands
  <2>4. CASE q # r /\ job[q].pc # "idle" /\ job[q].target # job[r].target
    <3>1. AboutItsKind(q) /\ ReadStands(q)
      BY DEF SetupInv
    <3> DEFINE t == job[q].target[1]
               i == job[q].target[2]
    <3> SUFFICES ASSUME ~job'[q].overtaken
                 PROVE  ReadStands(q)'
      BY DEF ReadStands
    <3>2. /\ ~job[q].overtaken /\ job'[q].pc = job[q].pc /\ job'[q].target = job[q].target
          /\ job'[q].read = job[q].read
      BY <1>1, <2>4
    <3>3. job[q].pc = "update" => rows'[t][i].on = rows[t][i].on
      BY <2>4, <3>1 DEF AboutItsKind
    <3>4. job[q].pc = "zones" => zones'[i] = zones[i]
      BY <2>4, <3>1 DEF AboutItsKind
    <3>5. job[q].pc \in {"register", "unregister"} => phones'[i] = phones[i]
      BY <2>4, <3>1 DEF AboutItsKind
    <3>6. job[q].pc = "account" => active' = active
      BY <2>4, <3>1 DEF AboutItsKind
    <3> QED BY <3>1, <3>2, <3>3, <3>4, <3>5, <3>6 DEF ReadStands
  <2> QED BY <2>1, <2>2, <2>3, <2>4
<1>4. /\ \A t \in Tables : \A i \in Ids : <<t, i>> \in Targets
      /\ \A c \in Ids : <<"zones", c>> \in Targets
      /\ \A k \in Phones : <<"phone", k>> \in Targets
      /\ <<"account", 1>> \in Targets
      /\ "site" \in Tables
  BY DEF Targets, Tables
<1>5. ASSUME NEW s \in Ids, <<"site", s>> # job[r].target, <<"site", s>> \notin disputed'
      PROVE  meant'[<<"site", s>>] = {rows'["site"][s].on}
  <2>1. meant'[<<"site", s>>] = meant[<<"site", s>>] /\ <<"site", s>> \notin disputed
    BY <1>1, <1>4, <1>5
  <2>2. rows'["site"][s].on = rows["site"][s].on
    BY <1>4, <1>5
  <2> QED BY <2>1, <2>2 DEF SetupInv, AuditTellsArmed
<1>6. ASSUME NEW c \in Ids, <<"zones", c>> # job[r].target, <<"zones", c>> \notin disputed'
      PROVE  zones'[c] = meant'[<<"zones", c>>]
  <2>1. meant'[<<"zones", c>>] = meant[<<"zones", c>>] /\ <<"zones", c>> \notin disputed
    BY <1>1, <1>4, <1>6
  <2> QED BY <1>6, <2>1 DEF SetupInv, ZonesAreOneSet
<1>7. ASSUME NEW k \in Phones, <<"phone", k>> # job[r].target, <<"phone", k>> \notin disputed'
      PROVE  {row.user : row \in phones'[k]} = meant'[<<"phone", k>>]
  <2>1. meant'[<<"phone", k>>] = meant[<<"phone", k>>] /\ <<"phone", k>> \notin disputed
    BY <1>1, <1>4, <1>7
  <2>2. phones'[k] = phones[k]
    BY <1>7
  <2> QED BY <2>1, <2>2 DEF SetupInv, PhoneFollowsItsUser
<1>8. <<"account", 1>> # job[r].target => LastIsActive'
  <2> SUFFICES ASSUME <<"account", 1>> # job[r].target
               PROVE  LastIsActive'
    OBVIOUS
  <2>1. <<"account", 1>> \in disputed' <=> <<"account", 1>> \in disputed
    BY <1>1, <1>4
  <2> QED BY <2>1 DEF SetupInv, LastIsActive
<1> QED
  BY <1>2, <1>3, <1>5, <1>6, <1>7, <1>8

\* A new row says what no row says: a site is armed when it is made.
LEMMA InsertKeeps ==
  ASSUME SetupInv, NEW t \in Tables, NEW u \in Users, NEW parent \in Int, NEW channel \in Int,
         made' = made + 1, Inserts(t, u, parent, channel)
  PROVE  SetupInv'
<1>1. PICK i \in Ids : /\ rows[t][i] = NoRow
                       /\ rows' = [rows EXCEPT ![t][i] = Row(Tenant[u], parent, channel)]
  BY DEF Inserts
<1>2. UNCHANGED <<topic, job, zones, phones, issued, active, shown, meant, disputed>>
  BY DEF Inserts
<1>3. Row(Tenant[u], parent, channel) \in RowType /\ Row(Tenant[u], parent, channel).on = TRUE
  BY DEF Row, RowType, Tenants
<1>4. rows[t][i].on = TRUE
  BY <1>1 DEF NoRow, Row
<1>5. rows \in [Tables -> [Ids -> RowType]]
  BY DEF SetupInv, SetupTypeOK
<1>6. rows' \in [Tables -> [Ids -> RowType]]
  BY <1>1, <1>3, <1>5
<1>7. ASSUME NEW v \in Tables, NEW j \in Ids
      PROVE  rows'[v][j].on = rows[v][j].on
  BY <1>1, <1>3, <1>4, <1>5
<1>8. SetupTypeOK'
  BY <1>2, <1>6 DEF SetupInv, SetupTypeOK
<1>9. ASSUME NEW q \in Requests
      PROVE  AboutItsKind(q)' /\ ReadStands(q)'
  <2>1. AboutItsKind(q) /\ ReadStands(q)
    BY DEF SetupInv
  <2>2. AboutItsKind(q)'
    BY <1>2, <2>1 DEF AboutItsKind
  <2>3. job[q].pc = "update" => rows'[Kind(q)][Of(q)].on = rows[Kind(q)][Of(q)].on
    BY <1>7, <2>1 DEF AboutItsKind, Kind, Of
  <2> QED BY <1>2, <2>1, <2>2, <2>3 DEF ReadStands, Kind, Of
<1>10. AuditTellsArmed'
  <2>1. \A s \in Ids : rows'["site"][s].on = rows["site"][s].on
    BY <1>7 DEF Tables
  <2> QED BY <1>2, <2>1 DEF SetupInv, AuditTellsArmed
<1>11. OneRowPerPhone' /\ LastIsActive' /\ ZonesAreOneSet' /\ PhoneFollowsItsUser'
  BY <1>2 DEF SetupInv, OneRowPerPhone, LastIsActive, ZonesAreOneSet, PhoneFollowsItsUser
<1> QED
  BY <1>8, <1>9, <1>10, <1>11 DEF SetupInv

\* An update that is not overtaken leaves the row as it is logged.
LEMMA UpdateKeeps ==
  ASSUME SetupInv, NEW r \in Requests, update_commit(r)
  PROVE  SetupInv'
<1> DEFINE t == job[r].target[1]
           i == job[r].target[2]
<1>1. SetupTypeOK /\ AboutItsKind(r) /\ ReadStands(r) /\ job[r].pc = "update"
  BY DEF SetupInv, update_commit
<1>2. /\ Commits(r, job[r].value)
      /\ UNCHANGED <<zones, phones, issued, active, shown>>
  BY DEF update_commit, Logged
<1>3. t \in Tables /\ i \in Ids /\ job[r].target = <<t, i>>
  BY <1>1 DEF AboutItsKind
<1>4. PICK on \in BOOLEAN : job[r].value = {on}
  BY <1>1 DEF AboutItsKind
<1>5. rows' = IF {on} # job[r].read THEN [rows EXCEPT ![t][i].on = on] ELSE rows
  BY <1>4 DEF update_commit
<1>6. rows \in [Tables -> [Ids -> RowType]]
  BY <1>1 DEF SetupTypeOK
<1>7. \A row \in RowType : [row EXCEPT !.on = on] \in RowType /\ [row EXCEPT !.on = on].on = on
  BY DEF RowType
<1>8. /\ rows' \in [Tables -> [Ids -> RowType]]
      /\ \A v \in Tables : \A j \in Ids : <<v, j>> # job[r].target => rows'[v][j].on = rows[v][j].on
      /\ {on} # job[r].read => rows'[t][i].on = on
      /\ {on} = job[r].read => rows'[t][i].on = rows[t][i].on
  <2>1. CASE {on} = job[r].read
    BY <1>5, <1>6, <2>1
  <2>2. CASE {on} # job[r].read
    <3> DEFINE row == [rows[t][i] EXCEPT !.on = on]
    <3>1. row \in RowType /\ row.on = on
      BY <1>3, <1>6, <1>7
    <3>2. rows' = [rows EXCEPT ![t][i] = row]
      BY <1>5, <2>2
    <3> HIDE DEF row
    <3>3. rows' \in [Tables -> [Ids -> RowType]] /\ rows'[t][i] = row
      BY <1>3, <1>6, <3>1, <3>2
    <3>4. ASSUME NEW v \in Tables, NEW j \in Ids, <<v, j>> # job[r].target
          PROVE  rows'[v][j] = rows[v][j]
      BY <1>3, <1>6, <3>2, <3>4
    <3> QED BY <2>2, <3>1, <3>3, <3>4
  <2> QED BY <2>1, <2>2
<1>9. t # "zones" /\ t # "phone" /\ t # "account"
  BY <1>3 DEF Tables
<1>10. /\ \A q \in Requests : AboutItsKind(q)' /\ ReadStands(q)'
       /\ \A s \in Ids : <<"site", s>> # job[r].target =>
              (<<"site", s>> \notin disputed' => meant'[<<"site", s>>] = {rows'["site"][s].on})
       /\ \A c \in Ids : <<"zones", c>> # job[r].target =>
              (<<"zones", c>> \notin disputed' => zones'[c] = meant'[<<"zones", c>>])
       /\ \A k \in Phones : <<"phone", k>> # job[r].target =>
              (<<"phone", k>> \notin disputed' =>
                   {row.user : row \in phones'[k]} = meant'[<<"phone", k>>])
       /\ <<"account", 1>> # job[r].target => LastIsActive'
  <2>1. job[r].pc # "idle"
    BY <1>1
  <2> QED BY CommitKeeps, <1>2, <1>8, <2>1
<1>11. /\ job' \in [Requests -> Job] /\ DOMAIN meant' = Targets /\ made' = made
       /\ meant'[job[r].target] = {on}
       /\ job[r].overtaken <=> job[r].target \in disputed'
  BY CommitEffect, <1>1, <1>2, <1>4
<1>12. SetupTypeOK'
  BY <1>1, <1>2, <1>8, <1>11 DEF SetupTypeOK
<1>13. ~job[r].overtaken => rows'[t][i].on = on
  BY <1>1, <1>8 DEF ReadStands, Kind, Of
<1>14. AuditTellsArmed'
  <2>1. ASSUME NEW s \in Ids, <<"site", s>> = job[r].target, <<"site", s>> \notin disputed'
        PROVE  meant'[<<"site", s>>] = {rows'["site"][s].on}
    <3>1. t = "site" /\ i = s
      BY <2>1
    <3>2. rows'[t][i].on = on
      BY <1>11, <1>13, <2>1
    <3> QED BY <1>11, <2>1, <3>1, <3>2
  <2> QED BY <1>10, <2>1 DEF AuditTellsArmed
<1>15. ZonesAreOneSet' /\ PhoneFollowsItsUser' /\ LastIsActive'
  <2>1. /\ \A c \in Ids : <<"zones", c>> # job[r].target
        /\ \A k \in Phones : <<"phone", k>> # job[r].target
        /\ <<"account", 1>> # job[r].target
    BY <1>3, <1>9
  <2> QED BY <1>10, <2>1 DEF ZonesAreOneSet, PhoneFollowsItsUser
<1>16. OneRowPerPhone'
  BY <1>2 DEF SetupInv, OneRowPerPhone
<1> QED
  BY <1>10, <1>12, <1>14, <1>15, <1>16 DEF SetupInv

\* Deleting a rule touches no site.
LEMMA DeleteKeeps ==
  ASSUME SetupInv, NEW r \in Requests, delete_rule_commit(r)
  PROVE  SetupInv'
<1> DEFINE i == job[r].target[2]
<1>1. SetupTypeOK /\ AboutItsKind(r) /\ job[r].pc = "delete" /\ job[r].pc # "idle"
  BY DEF SetupInv, delete_rule_commit
<1>2. /\ Commits(r, {})
      /\ rows' = [rows EXCEPT !["rule"][i] = Deleted]
      /\ UNCHANGED <<zones, phones, issued, active, shown>>
  BY DEF delete_rule_commit
<1>3. i \in Ids /\ job[r].target = <<"rule", i>>
  BY <1>1 DEF AboutItsKind
<1>4. Deleted \in RowType
  BY CommissioningAssumption DEF Deleted, Row, RowType, Tenants
<1>5. rows \in [Tables -> [Ids -> RowType]] /\ "rule" \in Tables
  BY <1>1 DEF SetupTypeOK, Tables
<1>6. /\ rows' \in [Tables -> [Ids -> RowType]]
      /\ \A v \in Tables : \A j \in Ids : <<v, j>> # job[r].target => rows'[v][j].on = rows[v][j].on
  <2>1. rows' \in [Tables -> [Ids -> RowType]]
    BY <1>2, <1>3, <1>4, <1>5
  <2>2. ASSUME NEW v \in Tables, NEW j \in Ids, <<v, j>> # job[r].target
        PROVE  rows'[v][j] = rows[v][j]
    BY <1>2, <1>3, <1>5, <2>2
  <2> QED BY <2>1, <2>2
<1>7. /\ \A q \in Requests : AboutItsKind(q)' /\ ReadStands(q)'
      /\ \A s \in Ids : <<"site", s>> # job[r].target =>
             (<<"site", s>> \notin disputed' => meant'[<<"site", s>>] = {rows'["site"][s].on})
      /\ \A c \in Ids : <<"zones", c>> # job[r].target =>
             (<<"zones", c>> \notin disputed' => zones'[c] = meant'[<<"zones", c>>])
      /\ \A k \in Phones : <<"phone", k>> # job[r].target =>
             (<<"phone", k>> \notin disputed' =>
                  {row.user : row \in phones'[k]} = meant'[<<"phone", k>>])
      /\ <<"account", 1>> # job[r].target => LastIsActive'
  BY CommitKeeps, <1>1, <1>2, <1>6
<1>8. SetupTypeOK'
  <2>1. job' \in [Requests -> Job] /\ DOMAIN meant' = Targets /\ made' = made
    BY CommitEffect, <1>1, <1>2
  <2> QED BY <1>1, <1>2, <1>6, <2>1 DEF SetupTypeOK
<1>9. AuditTellsArmed' /\ ZonesAreOneSet' /\ PhoneFollowsItsUser' /\ LastIsActive'
  <2>1. /\ \A s \in Ids : <<"site", s>> # job[r].target
        /\ \A c \in Ids : <<"zones", c>> # job[r].target
        /\ \A k \in Phones : <<"phone", k>> # job[r].target
        /\ <<"account", 1>> # job[r].target
    BY <1>3
  <2> QED BY <1>7, <2>1 DEF AuditTellsArmed, ZonesAreOneSet, PhoneFollowsItsUser
<1>10. OneRowPerPhone'
  BY <1>2 DEF SetupInv, OneRowPerPhone
<1> QED
  BY <1>7, <1>8, <1>9, <1>10 DEF SetupInv

\* A PUT that is not overtaken deletes all the zones there are.
LEMMA ZonesKeep ==
  ASSUME SetupInv, NEW r \in Requests, replace_zones_commit(r)
  PROVE  SetupInv'
<1> DEFINE c == job[r].target[2]
<1>1. SetupTypeOK /\ AboutItsKind(r) /\ ReadStands(r) /\ job[r].pc = "zones" /\ job[r].pc # "idle"
  BY DEF SetupInv, replace_zones_commit
<1>2. /\ Commits(r, job[r].value)
      /\ zones' = [zones EXCEPT ![c] = (zones[c] \ job[r].read) \cup job[r].value]
      /\ UNCHANGED <<rows, phones, issued, active, shown>>
  BY DEF replace_zones_commit, ReplacedZones
<1>3. c \in Ids /\ job[r].target = <<"zones", c>> /\ job[r].value \subseteq Int
  BY <1>1 DEF AboutItsKind
<1>4. /\ zones' \in [Ids -> SUBSET Int]
      /\ \A d \in Ids : <<"zones", d>> # job[r].target => zones'[d] = zones[d]
      /\ zones'[c] = (zones[c] \ job[r].read) \cup job[r].value
  BY <1>1, <1>2, <1>3 DEF SetupTypeOK
<1>5. /\ \A q \in Requests : AboutItsKind(q)' /\ ReadStands(q)'
      /\ \A s \in Ids : <<"site", s>> # job[r].target =>
             (<<"site", s>> \notin disputed' => meant'[<<"site", s>>] = {rows'["site"][s].on})
      /\ \A d \in Ids : <<"zones", d>> # job[r].target =>
             (<<"zones", d>> \notin disputed' => zones'[d] = meant'[<<"zones", d>>])
      /\ \A k \in Phones : <<"phone", k>> # job[r].target =>
             (<<"phone", k>> \notin disputed' =>
                  {row.user : row \in phones'[k]} = meant'[<<"phone", k>>])
      /\ <<"account", 1>> # job[r].target => LastIsActive'
  BY CommitKeeps, <1>1, <1>2, <1>4
<1>6. /\ job' \in [Requests -> Job] /\ DOMAIN meant' = Targets /\ made' = made
      /\ meant'[job[r].target] = job[r].value
      /\ job[r].overtaken <=> job[r].target \in disputed'
  BY CommitEffect, <1>1, <1>2
<1>7. SetupTypeOK'
  BY <1>1, <1>2, <1>4, <1>6 DEF SetupTypeOK
<1>8. ZonesAreOneSet'
  <2>1. ~job[r].overtaken => zones'[c] = job[r].value
    BY <1>1, <1>4 DEF ReadStands, Of
  <2>2. ASSUME NEW d \in Ids, <<"zones", d>> = job[r].target, <<"zones", d>> \notin disputed'
        PROVE  zones'[d] = meant'[<<"zones", d>>]
    <3>1. d = c
      BY <2>2
    <3> QED BY <1>6, <2>1, <2>2, <3>1
  <2> QED BY <1>5, <2>2 DEF ZonesAreOneSet
<1>9. AuditTellsArmed' /\ PhoneFollowsItsUser' /\ LastIsActive'
  <2>1. /\ \A s \in Ids : <<"site", s>> # job[r].target
        /\ \A k \in Phones : <<"phone", k>> # job[r].target
        /\ <<"account", 1>> # job[r].target
    BY <1>3
  <2> QED BY <1>5, <2>1 DEF AuditTellsArmed, PhoneFollowsItsUser
<1>10. OneRowPerPhone'
  BY <1>2 DEF SetupInv, OneRowPerPhone
<1> QED
  BY <1>5, <1>7, <1>8, <1>9, <1>10 DEF SetupInv

\* What the two commits about a phone have in common: the phone has at most one row
\* after them, and the one named by the commit if it was not overtaken.
LEMMA PhonesKeep ==
  ASSUME SetupInv, NEW r \in Requests, NEW meaning, Commits(r, meaning),
         job[r].pc # "idle",
         NEW k \in Phones, job[r].target = <<"phone", k>>,
         NEW S \in SUBSET Registration, phones' = [phones EXCEPT ![k] = S],
         \A a, b \in S : a = b,
         ~job[r].overtaken => {row.user : row \in S} = meaning,
         UNCHANGED <<rows, zones, issued, active, shown>>
  PROVE  SetupInv'
<1>1. SetupTypeOK
  BY DEF SetupInv
<1>2. /\ phones' \in [Phones -> SUBSET Registration]
      /\ \A l \in Phones : <<"phone", l>> # job[r].target => phones'[l] = phones[l]
      /\ phones'[k] = S
  BY <1>1 DEF SetupTypeOK
<1>3. /\ \A q \in Requests : AboutItsKind(q)' /\ ReadStands(q)'
      /\ \A s \in Ids : <<"site", s>> # job[r].target =>
             (<<"site", s>> \notin disputed' => meant'[<<"site", s>>] = {rows'["site"][s].on})
      /\ \A c \in Ids : <<"zones", c>> # job[r].target =>
             (<<"zones", c>> \notin disputed' => zones'[c] = meant'[<<"zones", c>>])
      /\ \A l \in Phones : <<"phone", l>> # job[r].target =>
             (<<"phone", l>> \notin disputed' =>
                  {row.user : row \in phones'[l]} = meant'[<<"phone", l>>])
      /\ <<"account", 1>> # job[r].target => LastIsActive'
  BY CommitKeeps, <1>2
<1>4. /\ job' \in [Requests -> Job] /\ DOMAIN meant' = Targets /\ made' = made
      /\ meant'[job[r].target] = meaning
      /\ job[r].overtaken <=> job[r].target \in disputed'
  BY CommitEffect, <1>1
<1>5. SetupTypeOK'
  BY <1>1, <1>2, <1>4 DEF SetupTypeOK
<1>6. PhoneFollowsItsUser'
  <2>1. ASSUME NEW l \in Phones, <<"phone", l>> = job[r].target, <<"phone", l>> \notin disputed'
        PROVE  {row.user : row \in phones'[l]} = meant'[<<"phone", l>>]
    <3>1. l = k
      BY <2>1
    <3>2. {row.user : row \in S} = meaning
      BY <1>4, <2>1
    <3> QED BY <1>2, <1>4, <2>1, <3>1, <3>2
  <2> QED BY <1>3, <2>1 DEF PhoneFollowsItsUser
<1>7. AuditTellsArmed' /\ ZonesAreOneSet' /\ LastIsActive'
  <2>1. /\ \A s \in Ids : <<"site", s>> # job[r].target
        /\ \A c \in Ids : <<"zones", c>> # job[r].target
        /\ <<"account", 1>> # job[r].target
    OBVIOUS
  <2> QED BY <1>3, <2>1 DEF AuditTellsArmed, ZonesAreOneSet
<1>8. OneRowPerPhone'
  BY <1>2 DEF SetupInv, OneRowPerPhone
<1> QED
  BY <1>3, <1>5, <1>6, <1>7, <1>8 DEF SetupInv

\* A registration that is not overtaken leaves the phone to its user.
LEMMA RegisterKeeps ==
  ASSUME SetupInv, NEW r \in Requests, register_commit(r)
  PROVE  SetupInv'
<1> DEFINE k == job[r].target[2]
           u == job[r].user
<1>1. SetupTypeOK /\ AboutItsKind(r) /\ ReadStands(r) /\ job[r].pc = "register" /\ job[r].pc # "idle"
  BY DEF SetupInv, register_commit
<1>2. Commits(r, {u}) /\ UNCHANGED <<rows, zones, issued, active, shown>>
  BY DEF register_commit
<1>3. k \in Phones /\ job[r].target = <<"phone", k>> /\ u \in Users
  BY <1>1 DEF AboutItsKind
<1>4. phones[k] \in SUBSET Registration /\ (~job[r].overtaken => job[r].read = phones[k])
  BY <1>1, <1>3 DEF SetupTypeOK, ReadStands, Of
<1>5. CASE job[r].read = {} /\ phones' = [phones EXCEPT ![k] = job[r].value]
  <2>1. PICK id \in Int : job[r].value = {[user |-> u, id |-> id]}
    BY <1>1 DEF AboutItsKind
  <2> DEFINE S == {[user |-> u, id |-> id]}
  <2>2. S \in SUBSET Registration /\ {row.user : row \in S} = {u} /\ \A a, b \in S : a = b
    BY <1>3 DEF Registration
  <2>3. phones' = [phones EXCEPT ![k] = S]
    BY <1>5, <2>1
  <2> HIDE DEF S, k, u
  <2> QED BY PhonesKeep, <1>1, <1>2, <1>3, <2>2, <2>3
<1>6. ASSUME NEW loaded \in job[r].read, NEW current \in phones[k],
             phones' = [phones EXCEPT ![k] =
                           {[current EXCEPT !.user = Reassigned(current, loaded, u)]}]
      PROVE  SetupInv'
  <2> DEFINE v == Reassigned(current, loaded, u)
             S == {[current EXCEPT !.user = v]}
  <2>1. current \in Registration
    BY <1>4, <1>6
  <2>2. v \in Users
    BY <1>3, <2>1 DEF Reassigned, Registration
  <2>3. ~job[r].overtaken => v = u
    <3> SUFFICES ASSUME ~job[r].overtaken
                 PROVE  v = u
      OBVIOUS
    <3>1. loaded = current
      BY <1>3, <1>4, <1>6 DEF SetupInv, OneRowPerPhone
    <3> QED BY <3>1 DEF Reassigned
  <2>4. phones' = [phones EXCEPT ![k] = S]
    BY <1>6
  <2> HIDE DEF v
  <2>5. S \in SUBSET Registration /\ {row.user : row \in S} = {v} /\ \A a, b \in S : a = b
    BY <2>1, <2>2 DEF Registration
  <2> HIDE DEF S, k, u
  <2> QED BY PhonesKeep, <1>1, <1>2, <1>3, <2>3, <2>4, <2>5
<1> QED
  BY <1>5, <1>6 DEF register_commit

\* One that unregisters it removes the row it found, the only one.
LEMMA UnregisterKeeps ==
  ASSUME SetupInv, NEW r \in Requests, unregister_commit(r)
  PROVE  SetupInv'
<1> DEFINE k == job[r].target[2]
           id == (CHOOSE row \in job[r].read : TRUE).id
           S == {row \in phones[k] : row.id # id}
<1>1. SetupTypeOK /\ AboutItsKind(r) /\ ReadStands(r) /\ job[r].pc = "unregister" /\ job[r].pc # "idle"
  BY DEF SetupInv, unregister_commit
<1>2. Commits(r, {}) /\ UNCHANGED <<rows, zones, issued, active, shown>>
  BY DEF unregister_commit
<1>3. k \in Phones /\ job[r].target = <<"phone", k>>
  BY <1>1 DEF AboutItsKind
<1>4. phones[k] \in SUBSET Registration /\ (~job[r].overtaken => job[r].read = phones[k])
  BY <1>1, <1>3 DEF SetupTypeOK, ReadStands, Of
<1>5. phones' = [phones EXCEPT ![k] = S]
  BY DEF unregister_commit
<1>6. \A a, b \in phones[k] : a = b
  BY <1>3 DEF SetupInv, OneRowPerPhone
<1>7. S \in SUBSET Registration /\ \A a, b \in S : a = b
  BY <1>4, <1>6
<1>8. ~job[r].overtaken => {row.user : row \in S} = {}
  <2> SUFFICES ASSUME ~job[r].overtaken, NEW row \in S
               PROVE  FALSE
    OBVIOUS
  <2>1. row \in job[r].read
    BY <1>4
  <2>2. (CHOOSE w \in job[r].read : TRUE) \in phones[k]
    BY <1>4, <2>1
  <2>3. row = (CHOOSE w \in job[r].read : TRUE)
    BY <1>6, <2>2
  <2> QED BY <2>3
<1> HIDE DEF S, k
<1> QED
  BY PhonesKeep, <1>1, <1>2, <1>3, <1>5, <1>7, <1>8

\* A rotation that is not overtaken deactivates all the accounts there are.
LEMMA IssueKeeps ==
  ASSUME SetupInv, NEW r \in Requests, issue_commit(r)
  PROVE  SetupInv'
<1>1. SetupTypeOK /\ AboutItsKind(r) /\ ReadStands(r) /\ job[r].pc = "account" /\ job[r].pc # "idle"
  BY DEF SetupInv, issue_commit
<1>2. /\ Commits(r, {issued + 1})
      /\ issued' = issued + 1
      /\ active' = (active \ job[r].read) \cup {issued + 1}
      /\ \E username \in active' : shown' = <<username, issued + 1>>
      /\ UNCHANGED <<rows, zones, phones>>
  BY DEF issue_commit, Deactivated
<1>3. job[r].target = <<"account", 1>>
  BY <1>1 DEF AboutItsKind
<1>4. /\ \A q \in Requests : AboutItsKind(q)' /\ ReadStands(q)'
      /\ \A s \in Ids : <<"site", s>> # job[r].target =>
             (<<"site", s>> \notin disputed' => meant'[<<"site", s>>] = {rows'["site"][s].on})
      /\ \A c \in Ids : <<"zones", c>> # job[r].target =>
             (<<"zones", c>> \notin disputed' => zones'[c] = meant'[<<"zones", c>>])
      /\ \A k \in Phones : <<"phone", k>> # job[r].target =>
             (<<"phone", k>> \notin disputed' =>
                  {row.user : row \in phones'[k]} = meant'[<<"phone", k>>])
  <2>1. <<"account", 1>> = job[r].target
    BY <1>3
  <2> QED BY CommitKeeps, <1>1, <1>2, <2>1
<1>5. /\ job' \in [Requests -> Job] /\ DOMAIN meant' = Targets /\ made' = made
      /\ job[r].overtaken <=> job[r].target \in disputed'
  BY CommitEffect, <1>1, <1>2
<1>6. SetupTypeOK'
  <2>1. issued' \in Nat /\ active' \subseteq 1..issued'
    <3>1. issued \in Nat /\ active \subseteq 1..issued
      BY <1>1 DEF SetupTypeOK
    <3>2. issued + 1 \in Nat /\ 1..issued \subseteq 1..(issued + 1) /\ issued + 1 \in 1..(issued + 1)
      BY <3>1
    <3> QED BY <1>2, <3>1, <3>2
  <2> QED BY <1>1, <1>2, <1>5, <2>1 DEF SetupTypeOK
<1>7. LastIsActive'
  <2> SUFFICES ASSUME <<"account", 1>> \notin disputed'
               PROVE  active' = {issued'} /\ shown' = <<issued', issued'>>
    BY DEF LastIsActive
  <2>1. job[r].read = active
    BY <1>1, <1>3, <1>5 DEF ReadStands
  <2>2. active' = {issued + 1}
    BY <1>2, <2>1
  <2> QED BY <1>2, <2>2
<1>8. AuditTellsArmed' /\ ZonesAreOneSet' /\ PhoneFollowsItsUser'
  <2>1. /\ \A s \in Ids : <<"site", s>> # job[r].target
        /\ \A c \in Ids : <<"zones", c>> # job[r].target
        /\ \A k \in Phones : <<"phone", k>> # job[r].target
    BY <1>3
  <2> QED BY <1>4, <2>1 DEF AuditTellsArmed, ZonesAreOneSet, PhoneFollowsItsUser
<1>9. OneRowPerPhone'
  BY <1>2 DEF SetupInv, OneRowPerPhone
<1> QED
  BY <1>4, <1>6, <1>7, <1>8, <1>9 DEF SetupInv

\* A request that fails leaves nothing behind.
LEMMA FailKeeps ==
  ASSUME SetupInv, NEW r \in Requests, Fails(r)
  PROVE  SetupInv'
<1>1. UNCHANGED stored /\ made' = made
  BY DEF Fails, stored
<1>2. Idle \in Job /\ Idle.pc = "idle"
  <2>1. <<"site", 1>> \in Targets
    BY CommissioningAssumption DEF Targets, Tables, Ids
  <2> QED BY <2>1 DEF Idle, Job, Values, Pcs
<1>3. /\ job' \in [Requests -> Job] /\ job'[r].pc = "idle"
      /\ \A q \in Requests \ {r} : job'[q] = job[q]
  BY <1>2 DEF SetupInv, SetupTypeOK, Fails
<1>4. SetupTypeOK'
  BY <1>1, <1>3 DEF SetupInv, SetupTypeOK, stored
<1>5. AboutItsKind(r)' /\ ReadStands(r)'
  BY <1>3 DEF AboutItsKind, ReadStands
<1> QED
  BY ReadKeeps, <1>1, <1>3, <1>4, <1>5

\* A request that is made inserts a row or reads what it is about.
LEMMA ChangesKeep ==
  ASSUME SetupInv, NEW r \in Requests, NEW u \in Users, Changes(r, u)
  PROVE  SetupInv'
<1> USE DEF Makes, Kind, Of
<1>1. SetupTypeOK
  BY DEF SetupInv
<1>2. CASE create_site(r, u)
  BY <1>2, InsertKeeps DEF create_site, Tables
<1>3. ASSUME NEW s \in Ids, create_device(r, u, s)
      PROVE  SetupInv'
  <2>1. s \in Int
    BY DEF Ids
  <2> QED BY <1>3, <2>1, InsertKeeps DEF create_device, Tables
<1>4. ASSUME NEW d \in Ids, NEW channel \in 1..MaxChannel, create_camera(r, u, d, channel)
      PROVE  SetupInv'
  <2>1. d \in Int /\ channel \in Int
    BY CommissioningAssumption DEF Ids
  <2> QED BY <1>4, <2>1, InsertKeeps DEF create_camera, Tables
<1>5. ASSUME NEW s \in Ids \cup {0}, create_rule(r, u, s)
      PROVE  SetupInv'
  BY <1>5, InsertKeeps DEF create_rule, Tables
<1>6. ASSUME NEW t \in Tables, NEW i \in Ids, NEW on \in BOOLEAN, Updates(r, u, t, i, on)
      PROVE  SetupInv'
  <2> DEFINE read == {rows[t][i].on}
  <2>1. made' = made + 1 /\ Reads(r, "update", u, <<t, i>>, read, {on})
    BY <1>6 DEF Updates
  <2>2. <<t, i>> \in Targets /\ read \in Values /\ {on} \in Values /\ "update" \in Pcs \ {"idle"}
    BY <1>1 DEF Targets, Values, SetupTypeOK, RowType, Pcs
  <2> HIDE DEF read
  <2>3. /\ SetupTypeOK'
        /\ UNCHANGED stored
        /\ \A q \in Requests \ {r} : job'[q] = job[q]
        /\ job'[r].pc = "update" /\ job'[r].target = <<t, i>> /\ job'[r].read = read
        /\ job'[r].value = {on}
    BY <1>1, <2>1, <2>2, ReadEffect
  <2>4. AboutItsKind(r)' /\ ReadStands(r)'
    BY <2>3 DEF AboutItsKind, ReadStands, stored, read
  <2> QED BY <2>3, <2>4, ReadKeeps
<1>7. ASSUME NEW i \in Ids, delete_rule(r, u, i)
      PROVE  SetupInv'
  <2>1. made' = made + 1 /\ Reads(r, "delete", u, <<"rule", i>>, {}, {})
    BY <1>7 DEF delete_rule
  <2>2. <<"rule", i>> \in Targets /\ {} \in Values /\ "delete" \in Pcs \ {"idle"}
    BY DEF Targets, Tables, Values, Pcs
  <2>3. /\ SetupTypeOK'
        /\ UNCHANGED stored
        /\ \A q \in Requests \ {r} : job'[q] = job[q]
        /\ job'[r].pc = "delete" /\ job'[r].target = <<"rule", i>>
    BY <1>1, <2>1, <2>2, ReadEffect
  <2>4. AboutItsKind(r)' /\ ReadStands(r)'
    BY <2>3 DEF AboutItsKind, ReadStands
  <2> QED BY <2>3, <2>4, ReadKeeps
<1>8. ASSUME NEW c \in Ids, replace_zones(r, u, c)
      PROVE  SetupInv'
  <2>1. made' = made + 1 /\ made' \in Int
    BY <1>1, <1>8 DEF replace_zones, SetupTypeOK
  <2>2. PICK payload \in {{}, {made'}} : Reads(r, "zones", u, <<"zones", c>>, zones[c], payload)
    BY <1>8 DEF replace_zones
  <2>3. /\ payload \subseteq Int /\ zones[c] \subseteq Int
        /\ <<"zones", c>> \in Targets /\ zones[c] \in Values /\ payload \in Values
        /\ "zones" \in Pcs \ {"idle"}
    BY <1>1, <2>1 DEF SetupTypeOK, Targets, Values, Pcs
  <2>4. /\ SetupTypeOK'
        /\ UNCHANGED stored
        /\ \A q \in Requests \ {r} : job'[q] = job[q]
        /\ job'[r].pc = "zones" /\ job'[r].target = <<"zones", c>> /\ job'[r].read = zones[c]
        /\ job'[r].value = payload
    BY <1>1, <2>1, <2>2, <2>3, ReadEffect
  <2>5. AboutItsKind(r)' /\ ReadStands(r)'
    BY <2>3, <2>4 DEF AboutItsKind, ReadStands, stored
  <2> QED BY <2>4, <2>5, ReadKeeps
<1>9. ASSUME NEW k \in Phones, register_push_device(r, u, k)
      PROVE  SetupInv'
  <2> DEFINE new == {[user |-> u, id |-> made']}
  <2>1. made' = made + 1 /\ made' \in Int
    BY <1>1, <1>9 DEF register_push_device, SetupTypeOK
  <2>2. Reads(r, "register", u, <<"phone", k>>, phones[k], new)
    BY <1>9 DEF register_push_device
  <2>3. /\ <<"phone", k>> \in Targets /\ phones[k] \in Values /\ new \in Values
        /\ "register" \in Pcs \ {"idle"}
    BY <1>1, <2>1 DEF SetupTypeOK, Targets, Values, Pcs, Registration
  <2>4. \E id \in Int : new = {[user |-> u, id |-> id]}
    BY <2>1
  <2> HIDE DEF new
  <2>5. /\ SetupTypeOK'
        /\ UNCHANGED stored
        /\ \A q \in Requests \ {r} : job'[q] = job[q]
        /\ job'[r].pc = "register" /\ job'[r].target = <<"phone", k>> /\ job'[r].read = phones[k]
        /\ job'[r].value = new /\ job'[r].user = u
    BY <1>1, <2>1, <2>2, <2>3, ReadEffect
  <2>6. AboutItsKind(r)' /\ ReadStands(r)'
    BY <2>4, <2>5 DEF AboutItsKind, ReadStands, stored
  <2> QED BY <2>5, <2>6, ReadKeeps
<1>10. ASSUME NEW k \in Phones, unregister_push_device(r, u, k)
       PROVE  SetupInv'
  <2>1. made' = made + 1
    BY <1>10 DEF unregister_push_device
  <2>2. PICK row \in phones[k] : Reads(r, "unregister", u, <<"phone", k>>, {row}, {})
    BY <1>10 DEF unregister_push_device
  <2>3. phones[k] = {row}
    BY <2>2 DEF SetupInv, OneRowPerPhone
  <2>4. /\ <<"phone", k>> \in Targets /\ {row} \in Values /\ {} \in Values
        /\ "unregister" \in Pcs \ {"idle"}
    BY <1>1, <2>2 DEF SetupTypeOK, Targets, Values, Pcs
  <2>5. /\ SetupTypeOK'
        /\ UNCHANGED stored
        /\ \A q \in Requests \ {r} : job'[q] = job[q]
        /\ job'[r].pc = "unregister" /\ job'[r].target = <<"phone", k>> /\ job'[r].read = {row}
    BY <1>1, <2>1, <2>2, <2>4, ReadEffect
  <2>6. AboutItsKind(r)' /\ ReadStands(r)'
    BY <2>3, <2>5 DEF AboutItsKind, ReadStands, stored
  <2> QED BY <2>5, <2>6, ReadKeeps
<1>11. CASE issue_smtp_account(r, u)
  <2>1. made' = made + 1 /\ Reads(r, "account", u, <<"account", 1>>, active, {})
    BY <1>11 DEF issue_smtp_account
  <2>2. /\ <<"account", 1>> \in Targets /\ active \in Values /\ {} \in Values
        /\ "account" \in Pcs \ {"idle"}
    BY <1>1 DEF SetupTypeOK, Targets, Values, Pcs
  <2>3. /\ SetupTypeOK'
        /\ UNCHANGED stored
        /\ \A q \in Requests \ {r} : job'[q] = job[q]
        /\ job'[r].pc = "account" /\ job'[r].target = <<"account", 1>> /\ job'[r].read = active
    BY <1>1, <2>1, <2>2, ReadEffect
  <2>4. AboutItsKind(r)' /\ ReadStands(r)'
    BY <2>3 DEF AboutItsKind, ReadStands, stored
  <2> QED BY <2>3, <2>4, ReadKeeps
<1>12. ASSUME NEW i \in Ids, NEW on \in BOOLEAN,
              update_site(r, u, i, on) \/ update_camera(r, u, i, on) \/ update_rule(r, u, i, on)
       PROVE  SetupInv'
  <2>1. \E t \in Tables : Updates(r, u, t, i, on)
    BY <1>12 DEF update_site, update_camera, update_rule, Tables
  <2> QED BY <1>6, <2>1
<1> QED
  BY <1>2, <1>3, <1>4, <1>5, <1>7, <1>8, <1>9, <1>10, <1>11, <1>12 DEF Changes

\* The invariant of the configuration API and of the mail server's snapshot.
IngressInv == SetupInv /\ SnapshotIsCurrent

LEMMA IngressInvariant == Spec => []IngressInv
<1>1. Init => IngressInv
  <2> SUFFICES ASSUME Init
               PROVE  IngressInv
    OBVIOUS
  <2> USE DEF Init, SetupInit
  <2>1. Idle \in Job /\ Idle.pc = "idle"
    <3>1. <<"site", 1>> \in Targets
      BY CommissioningAssumption DEF Targets, Tables, Ids
    <3> QED BY <3>1 DEF Idle, Job, Values, Pcs
  <2>2. (\A t \in Tables : FirstRow[t] \in RowType) /\ NoRow \in RowType
    BY DEF FirstRow, NoRow, Row, RowType, Tenants, Tables
  <2>3. \A t \in Tables : FirstRow[t].on = TRUE /\ NoRow.on = TRUE
    BY DEF FirstRow, NoRow, Row, Tables
  <2>4. rows \in [Tables -> [Ids -> RowType]]
    BY <2>2
  <2>5. SetupTypeOK
    BY <2>1, <2>4 DEF SetupTypeOK
  <2>6. \A r \in Requests : AboutItsKind(r) /\ ReadStands(r)
    BY <2>1 DEF AboutItsKind, ReadStands
  <2>7. /\ \A s \in Ids : <<"site", s>> \in Targets /\ meant[<<"site", s>>] = {TRUE}
        /\ \A c \in Ids : <<"zones", c>> \in Targets /\ meant[<<"zones", c>>] = {}
        /\ \A k \in Phones : <<"phone", k>> \in Targets /\ meant[<<"phone", k>>] = {}
    BY DEF Targets, Tables
  <2>8. AuditTellsArmed
    BY <2>3, <2>7 DEF AuditTellsArmed, Tables
  <2>9. ZonesAreOneSet /\ PhoneFollowsItsUser
    BY <2>7 DEF ZonesAreOneSet, PhoneFollowsItsUser
  <2>10. OneRowPerPhone /\ LastIsActive /\ SnapshotIsCurrent
    BY DEF OneRowPerPhone, LastIsActive, SnapshotIsCurrent, IngressInit
  <2> QED BY <2>5, <2>6, <2>8, <2>9, <2>10 DEF IngressInv, SetupInv
<1>2. ASSUME IngressInv, [Next]_vars
      PROVE  IngressInv'
  <2>1. CASE Api
    <3>1. PICK r \in Requests :
              \/ \E u \in Users : Changes(r, u)
              \/ update_commit(r) \/ delete_rule_commit(r) \/ replace_zones_commit(r)
              \/ register_commit(r) \/ unregister_commit(r) \/ issue_commit(r)
              \/ Fails(r)
      BY <2>1 DEF Api, SetupNext
    <3>2. SetupInv'
      BY <1>2, <3>1, ChangesKeep, UpdateKeeps, DeleteKeeps, ZonesKeep, RegisterKeeps,
         UnregisterKeeps, IssueKeeps, FailKeeps DEF IngressInv
    <3>3. SnapshotIsCurrent'
      BY <1>2, <2>1 DEF IngressInv, SnapshotIsCurrent, Api
    <3> QED BY <3>2, <3>3 DEF IngressInv
  <2>2. CASE Ingress /\ UNCHANGED setupVars
    <3>1. SetupInv'
      BY <1>2, <2>2 DEF IngressInv, SetupInv, setupVars, SetupTypeOK, AboutItsKind, ReadStands,
         Kind, Of, OneRowPerPhone, LastIsActive, AuditTellsArmed, ZonesAreOneSet, PhoneFollowsItsUser
    <3>2. SnapshotIsCurrent'
      BY <1>2, <2>2 DEF IngressInv, SnapshotIsCurrent, setupVars, Ingress, refresh_once, restart,
         Loaded, Configure, Alarm, authenticator, Disconnect, Oversized, Refuse, Fail, Accept, Tick
    <3> QED BY <3>1, <3>2 DEF IngressInv
  <2>3. CASE UNCHANGED vars
    BY <1>2, <2>3 DEF IngressInv, SetupInv, vars, setupVars, ingressVars, SetupTypeOK, AboutItsKind,
       ReadStands, Kind, Of, OneRowPerPhone, LastIsActive, AuditTellsArmed, ZonesAreOneSet,
       PhoneFollowsItsUser, SnapshotIsCurrent
  <2> QED BY <1>2, <2>1, <2>2, <2>3 DEF Next
<1> QED
  BY <1>1, <1>2, PTL DEF Spec

\* However many requests about it overlap, once one commits that no other overtook,
\* the last audit entry on a site tells whether it is armed (update_site).
THEOREM AuditIsTrue == Spec => []AuditTellsArmed
<1>1. IngressInv => AuditTellsArmed
  BY DEF IngressInv, SetupInv
<1> QED
  BY <1>1, IngressInvariant, PTL

\* After such a PUT the zones of a camera are the ones it sent (replace_zones).
THEOREM ZonesAreReplaced == Spec => []ZonesAreOneSet
<1>1. IngressInv => ZonesAreOneSet
  BY DEF IngressInv, SetupInv
<1> QED
  BY <1>1, IngressInvariant, PTL

\* A push token belongs to whoever registered it last, and to no one after its user
\* unregistered it (register_push_device, unregister_push_device).
THEOREM PhoneIsHandedOver == Spec => []PhoneFollowsItsUser
<1>1. IngressInv => PhoneFollowsItsUser
  BY DEF IngressInv, SetupInv
<1> QED
  BY <1>1, IngressInvariant, PTL

\* After a rotation that no other overtook and a refresh, the pair that
\* issue_smtp_account answered logs in, and no other account's does.
THEOREM OnlyTheShownPair == Spec => []ShownPairWorks
<1>1. IngressInv => ShownPairWorks
  <2> SUFFICES ASSUME IngressInv, issued > 0, fresh, <<"account", 1>> \notin disputed,
                      NEW pair \in (1..issued) \X (1..issued)
               PROVE  Authenticates(pair) <=> pair = shown
    BY DEF ShownPairWorks
  <2>1. snapshot = {issued} /\ shown = <<issued, issued>>
    BY DEF IngressInv, SetupInv, SnapshotIsCurrent, LastIsActive
  <2> QED BY <2>1 DEF Authenticates
<1> QED
  BY <1>1, IngressInvariant, PTL
=============================================================================
