-------------------------------- MODULE Rbac --------------------------------
(***************************************************************************)
(* The permission matrix every endpoint and the live socket decide by.     *)
(***************************************************************************)
Viewer == {"sites.view", "events.view", "alarms.view"}
Guard == Viewer \cup {"devices.view", "alarms.acknowledge"}
Supervisor == Guard \cup {"alarms.resolve"}
SiteManager == Supervisor \cup {"zones.manage", "cameras.configure", "analytics.view"}
SecurityManager == SiteManager \cup {"rules.manage", "devices.manage", "audit.view"}
Admin == SecurityManager \cup {"sites.manage", "users.manage"}
Owner == Admin \cup {"billing.manage"}

ROLE_PERMISSIONS ==
    [OWNER |-> Owner, ADMIN |-> Admin, SECURITY_MANAGER |-> SecurityManager,
     SITE_MANAGER |-> SiteManager, SUPERVISOR |-> Supervisor, GUARD |-> Guard,
     VIEWER |-> Viewer, BILLING_ADMIN |-> {"billing.manage", "analytics.view"}]

\* An unknown role grants nothing.
permissions_for(role) ==
    IF role \in DOMAIN ROLE_PERMISSIONS THEN ROLE_PERMISSIONS[role] ELSE {}
=============================================================================
