--------------------------- MODULE Commissioning ---------------------------
(***************************************************************************)
(* The configuration API: sites, recorders, cameras, zones, rules, phones  *)
(* and SMTP accounts.  A request loads rows without a lock, decides on     *)
(* them, and its changes are seen by the others when it commits.           *)
(*                                                                         *)
(* SQLAlchemy writes an attribute only if it differs from the loaded one,  *)
(* raises if an UPDATE finds its row gone, and only warns if a DELETE      *)
(* does.  A refused request (403, 404, 409) changes nothing and is left    *)
(* out.  The kinds of rows do not interact beyond their parents, so a      *)
(* behaviour is about one topic.                                           *)
(***************************************************************************)
EXTENDS Rbac, Integers

CONSTANTS
    Users,
    Tenant,       \* Tenant[u], from the verified token
    Role,         \* Role[u]
    FirstTenant,  \* has a site with a recorder, a camera and a rule
    Phones,       \* push tokens
    Requests,     \* requests handled at the same time
    MaxRequests,  \* bound: requests ever made
    MaxRows,      \* bound: rows of a table
    MaxChannel

ASSUME CommissioningAssumption ==
    /\ {MaxRequests, MaxRows, MaxChannel} \subseteq Nat
    /\ MaxRows > 0 /\ MaxChannel > 0

VARIABLES
    topic,     \* what the requests are about
    made,      \* requests made so far
    job,       \* job[r]: where request r is and what it has read
    rows,      \* rows[t][i] of the tables below
    zones,     \* zones[c]: zones of camera c, each named by the PUT it came in
    phones,    \* phones[k]: the row of push_devices with token k, at most one
    issued,    \* rows of device_smtp_accounts of recorder 1 are 1..issued
    active,    \* the ones with is_active
    shown,     \* the pair in the last answer of issue_smtp_account
    meant,     \* history: what the last commit meant for each target
    disputed   \* history: targets whose last commit another had overtaken

setupVars ==
    <<topic, made, job, rows, zones, phones, issued, active, shown, meant, disputed>>

Tables == {"site", "device", "camera", "rule"}
Ids == 1..MaxRows

\* on: is_armed of a site, enabled of a camera or a rule.
Row(tenant, parent, channel) ==
    [tenant |-> tenant, parent |-> parent, channel |-> channel, on |-> TRUE]
NoRow == Row("none", 0, 0)
Deleted == Row("deleted", 0, 0)
FirstRow ==
    [site |-> Row(FirstTenant, 0, 0), device |-> Row(FirstTenant, 1, 0),
     camera |-> Row(FirstTenant, 1, 1), rule |-> Row(FirstTenant, 0, 0)]

\* What two requests can both be about.
Targets ==
    (Tables \X Ids) \cup ({"zones"} \X Ids) \cup ({"phone"} \X Phones) \cup {<<"account", 1>>}

Idle ==
    [pc |-> "idle", user |-> "", target |-> <<"site", 1>>, read |-> {}, value |-> {},
     overtaken |-> FALSE]

SetupInit ==
    /\ topic \in {"rows", "zones", "phones", "accounts"}
    /\ made = 0
    /\ job = [r \in Requests |-> Idle]
    /\ rows = [t \in Tables |-> [i \in Ids |-> IF i = 1 THEN FirstRow[t] ELSE NoRow]]
    /\ zones = [c \in Ids |-> {}]
    /\ phones = [k \in Phones |-> {}]
    /\ issued = 0
    /\ active = {}
    /\ shown = <<0, 0>>
    /\ meant = [x \in Targets |-> IF x[1] \in Tables THEN {TRUE} ELSE {}]
    /\ disputed = {}
-----------------------------------------------------------------------------
(***************************************************************************)
(* A request.                                                              *)
(***************************************************************************)

\* require(permission)
Can(u, permission) == permission \in permissions_for(Role[u])

\* _load_site, _load_device, _load_camera, and the same check on rules.
Loads(u, t, i) == rows[t][i].tenant = Tenant[u]

Makes(r, about) ==
    /\ topic = about
    /\ job[r].pc = "idle"
    /\ made < MaxRequests
    /\ made' = made + 1

Reads(r, pc, u, target, read, value) ==
    /\ job' = [job EXCEPT ![r] = [pc |-> pc, user |-> u, target |-> target, read |-> read,
                                  value |-> value, overtaken |-> FALSE]]
    /\ UNCHANGED <<topic, rows, zones, phones, issued, active, shown, meant, disputed>>

\* get_session commits r; requests that have read the same are overtaken.
Commits(r, meaning) ==
    LET x == job[r].target
    IN  /\ job' = [q \in Requests |->
                      IF q = r THEN Idle
                      ELSE IF job[q].pc # "idle" /\ job[q].target = x
                           THEN [job[q] EXCEPT !.overtaken = TRUE] ELSE job[q]]
        /\ meant' = [meant EXCEPT ![x] = meaning]
        /\ disputed' = IF job[r].overtaken THEN disputed \cup {x} ELSE disputed \ {x}
        /\ UNCHANGED <<topic, made>>

\* A statement or the commit fails and everything is rolled back.
Fails(r) ==
    /\ job[r].pc # "idle"
    /\ job' = [job EXCEPT ![r] = Idle]
    /\ UNCHANGED <<topic, made, rows, zones, phones, issued, active, shown, meant, disputed>>
-----------------------------------------------------------------------------
(***************************************************************************)
(* Sites, recorders, cameras and rules.  A parent is never deleted, so     *)
(* creating a row is one step.                                             *)
(***************************************************************************)
Inserts(t, u, parent, channel) ==
    /\ \E i \in Ids :
           /\ rows[t][i] = NoRow
           /\ \A j \in Ids : rows[t][j] = NoRow => i <= j
           /\ rows' = [rows EXCEPT ![t][i] = Row(Tenant[u], parent, channel)]
    /\ UNCHANGED <<topic, job, zones, phones, issued, active, shown, meant, disputed>>

create_site(r, u) == Makes(r, "rows") /\ Can(u, "sites.manage") /\ Inserts("site", u, 0, 0)

create_device(r, u, s) ==
    /\ Makes(r, "rows") /\ Can(u, "devices.manage")
    /\ Loads(u, "site", s)
    /\ Inserts("device", u, s, 0)

\* One channel, one camera: a second row gets 409.
create_camera(r, u, d, channel) ==
    /\ Makes(r, "rows") /\ Can(u, "cameras.configure")
    /\ Loads(u, "device", d)
    /\ \A c \in Ids : rows["camera"][c].parent = d => rows["camera"][c].channel # channel
    /\ Inserts("camera", u, d, channel)

\* A rule without a site (0) holds for all of them; which site is not kept here.
create_rule(r, u, s) ==
    /\ Makes(r, "rows") /\ Can(u, "rules.manage")
    /\ s # 0 => Loads(u, "site", s)
    /\ Inserts("rule", u, 0, 0)

\* The fields of an update are set on the loaded row.
Updates(r, u, t, i, on) ==
    /\ Makes(r, "rows")
    /\ Loads(u, t, i)
    /\ Reads(r, "update", u, <<t, i>>, {rows[t][i].on}, {on})

update_site(r, u, i, on) == Can(u, "sites.manage") /\ Updates(r, u, "site", i, on)
update_camera(r, u, i, on) == Can(u, "cameras.configure") /\ Updates(r, u, "camera", i, on)
update_rule(r, u, i, on) == Can(u, "rules.manage") /\ Updates(r, u, "rule", i, on)

\* Mutant: the audit row says what the site was.
LogsTheLoaded(j) == j.read

\* What update_site logs: site_armed or site_disarmed.  The others log nothing.
Logged(j) == j.value

update_commit(r) ==
    LET t == job[r].target[1]
        i == job[r].target[2]
        changed == job[r].value # job[r].read
    IN  /\ job[r].pc = "update"
        /\ changed => rows[t][i] # Deleted
        /\ \E on \in job[r].value :
               rows' = IF changed THEN [rows EXCEPT ![t][i].on = on] ELSE rows
        /\ Commits(r, Logged(job[r]))
        /\ UNCHANGED <<zones, phones, issued, active, shown>>

delete_rule(r, u, i) ==
    /\ Makes(r, "rows") /\ Can(u, "rules.manage")
    /\ Loads(u, "rule", i)
    /\ Reads(r, "delete", u, <<"rule", i>>, {}, {})

delete_rule_commit(r) ==
    /\ job[r].pc = "delete"
    /\ rows' = [rows EXCEPT !["rule"][job[r].target[2]] = Deleted]
    /\ Commits(r, {})
    /\ UNCHANGED <<zones, phones, issued, active, shown>>
-----------------------------------------------------------------------------
\* A PUT with one zone, named by the request, or with none.
replace_zones(r, u, c) ==
    /\ Makes(r, "zones") /\ Can(u, "zones.manage")
    /\ Loads(u, "camera", c)
    /\ \E payload \in {{}, {made'}} : Reads(r, "zones", u, <<"zones", c>>, zones[c], payload)

\* Mutant: the old zones stay.
AddsZones(old, j) == old \cup j.value

ReplacedZones(old, j) == (old \ j.read) \cup j.value

replace_zones_commit(r) ==
    /\ job[r].pc = "zones"
    /\ zones' = [zones EXCEPT ![job[r].target[2]] = ReplacedZones(@, job[r])]
    /\ Commits(r, job[r].value)
    /\ UNCHANGED <<rows, phones, issued, active, shown>>
-----------------------------------------------------------------------------
\* Any user may register a phone; a row is known by the request that made it.
register_push_device(r, u, k) ==
    /\ Makes(r, "phones")
    /\ Reads(r, "register", u, <<"phone", k>>, phones[k], {[user |-> u, id |-> made']})

\* Mutant: a phone that is already known keeps its user.
KeepsTheUser(current, loaded, u) == current.user

\* user_id after a registration that has found a row.
Reassigned(current, loaded, u) == IF u # loaded.user THEN u ELSE current.user

register_commit(r) ==
    LET k == job[r].target[2]
        u == job[r].user
    IN  /\ job[r].pc = "register"
        /\ \/ /\ job[r].read = {} /\ phones[k] = {}
              /\ phones' = [phones EXCEPT ![k] = job[r].value]
           \/ \E loaded \in job[r].read, current \in phones[k] :
                  /\ loaded.id = current.id
                  /\ phones' = [phones EXCEPT ![k] =
                                   {[current EXCEPT !.user = Reassigned(current, loaded, u)]}]
        /\ Commits(r, {u})
        /\ UNCHANGED <<rows, zones, issued, active, shown>>

\* Only its own user may unregister a phone.
unregister_push_device(r, u, k) ==
    /\ Makes(r, "phones")
    /\ \E row \in phones[k] :
           /\ row.user = u
           /\ Reads(r, "unregister", u, <<"phone", k>>, {row}, {})

unregister_commit(r) ==
    /\ job[r].pc = "unregister"
    /\ LET k == job[r].target[2]
           id == (CHOOSE row \in job[r].read : TRUE).id
       IN  phones' = [phones EXCEPT ![k] = {row \in @ : row.id # id}]
    /\ Commits(r, {})
    /\ UNCHANGED <<rows, zones, issued, active, shown>>
-----------------------------------------------------------------------------
issue_smtp_account(r, u) ==
    /\ Makes(r, "accounts") /\ Can(u, "devices.manage")
    /\ Loads(u, "device", 1)
    /\ Reads(r, "account", u, <<"account", 1>>, active, {})

\* Mutant: the accounts found are left active.
LeavesActive(j) == {}

Deactivated(j) == j.read

\* The first account has the plain username, so of two first ones one fails;
\* the answer pairs the new password with an active account's username.
issue_commit(r) ==
    LET new == issued + 1
    IN  /\ job[r].pc = "account"
        /\ job[r].read = {} => issued = 0
        /\ issued' = new
        /\ active' = (active \ Deactivated(job[r])) \cup {new}
        /\ \E username \in active' : shown' = <<username, new>>
        /\ Commits(r, {new})
        /\ UNCHANGED <<rows, zones, phones>>
-----------------------------------------------------------------------------
Changes(r, u) ==
    \/ create_site(r, u)
    \/ \E s \in Ids : create_device(r, u, s)
    \/ \E d \in Ids, channel \in 1..MaxChannel : create_camera(r, u, d, channel)
    \/ \E s \in Ids \cup {0} : create_rule(r, u, s)
    \/ \E i \in Ids, on \in BOOLEAN :
           update_site(r, u, i, on) \/ update_camera(r, u, i, on) \/ update_rule(r, u, i, on)
    \/ \E i \in Ids : delete_rule(r, u, i)
    \/ \E c \in Ids : replace_zones(r, u, c)
    \/ \E k \in Phones : register_push_device(r, u, k) \/ unregister_push_device(r, u, k)
    \/ issue_smtp_account(r, u)

SetupNext ==
    \E r \in Requests :
        \/ \E u \in Users : Changes(r, u)
        \/ update_commit(r) \/ delete_rule_commit(r) \/ replace_zones_commit(r)
        \/ register_commit(r) \/ unregister_commit(r) \/ issue_commit(r)
        \/ Fails(r)
-----------------------------------------------------------------------------
(***************************************************************************)
(* Properties.  Requests that overlap on one target may leave it in a      *)
(* state no one asked for; the next one that does not overlap heals it.    *)
(***************************************************************************)

\* "Disarming a site ... belongs in the audit trail": the last entry on a site
\* tells whether it is armed.
AuditTellsArmed ==
    \A s \in Ids : <<"site", s>> \notin disputed => meant[<<"site", s>>] = {rows["site"][s].on}

\* The zones of a camera are those of one PUT, the last: they are replaced
\* "as one set".
ZonesAreOneSet ==
    \A c \in Ids : <<"zones", c>> \notin disputed => zones[c] = meant[<<"zones", c>>]

\* A phone that is handed over alarms its new user: its row names whoever
\* registered it last and has not unregistered it since.
PhoneFollowsItsUser ==
    \A k \in Phones : <<"phone", k>> \notin disputed =>
        {row.user : row \in phones[k]} = meant[<<"phone", k>>]
=============================================================================
