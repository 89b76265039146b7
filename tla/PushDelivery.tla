---------------------------- MODULE PushDelivery ----------------------------
(***************************************************************************)
(* One alarm's fan-out to the phones of its recipients: concurrent sends   *)
(* with retries, over an FCM and an APNs client that each cache one bearer *)
(* token for all sends, and the records and pruned rows at the end.        *)
(***************************************************************************)
EXTENDS Integers, FiniteSets

CONSTANTS
    Recipients,   \* phones
    Platform,     \* Platform[p]: "ios", "android", or one without a transport
    MaxAttempts,  \* MAX_ATTEMPTS
    MaxRevoked    \* bound: bearer tokens the providers stop accepting

ASSUME PushAssumption == MaxAttempts \in Nat \ {0} /\ MaxRevoked \in Nat

VARIABLES
    send,       \* send[p]: where the send to p is
    cache,      \* cache[t]: _token of the client, "none", "good" or "refused"
    installed,  \* phones that have the app
    rows,       \* phones with a row in push_devices
    fanout,     \* "sending", "recorded", or "raised" and rolled back
    revocations,
    copies,     \* history: copies[p]: notifications that reached p
    lost,       \* history: lost[p]: of which the answer was lost
    blamed      \* history: phones with the app that were called unregistered

pushVars == <<send, cache, installed, rows, fanout, revocations, copies, lost, blamed>>

Transports == {"ios", "android"}
Results == {"SENT", "FAILED", "UNREGISTERED", "UNCONFIGURED"}

PushInit ==
    /\ send = [p \in Recipients |->
                  [pc |-> IF Platform[p] \in Transports THEN "attempt" ELSE "UNCONFIGURED",
                   attempt |-> 1, bearer |-> "none"]]
    /\ cache \in [Transports -> {"none", "good"}]
    /\ installed = Recipients
    /\ rows = Recipients
    /\ fanout = "sending"
    /\ revocations = 0
    /\ copies = [p \in Recipients |-> 0]
    /\ lost = [p \in Recipients |-> 0]
    /\ blamed = {}
-----------------------------------------------------------------------------
Posts(p, bearer) == send' = [send EXCEPT ![p].pc = "post", ![p].bearer = bearer]

\* _access_token, _provider_token: APNs signs its own token, FCM asks for one.
Bearer(p) ==
    LET t == Platform[p]
    IN  /\ send[p].pc = "attempt"
        /\ \/ cache[t] # "none" /\ Posts(p, cache[t]) /\ UNCHANGED cache
           \/ /\ cache[t] = "none" /\ t = "ios"
              /\ Posts(p, "good")
              /\ cache' = [cache EXCEPT ![t] = "good"]
           \/ /\ cache[t] = "none" /\ t = "android"
              /\ send' = [send EXCEPT ![p].pc = "mint", ![p].bearer = "good"]
              /\ UNCHANGED cache
        /\ UNCHANGED <<installed, rows, fanout, revocations, copies, lost, blamed>>

\* The token may have been refused while it was on its way.
Minted(p) ==
    /\ send[p].pc = "mint"
    /\ Posts(p, send[p].bearer)
    /\ cache' = [cache EXCEPT !["android"] = send[p].bearer]
    /\ UNCHANGED <<installed, rows, fanout, revocations, copies, lost, blamed>>

\* Mutant: a provider that is down has lost the phone.
BusyIsGone(answer) ==
    IF answer = "ok" THEN "SENT"
    ELSE IF answer \in {"gone", "invalid", "busy"} THEN "UNREGISTERED"
    ELSE IF answer \in {"bad", "exception"} THEN "FAILED"
    ELSE "retry"

\* What the clients make of an answer; an answer in no set is worth a retry:
\* 401 and 403 (auth), 429 and 5xx (busy), a timeout or a network error (nothing, or lost
\* if the provider had already accepted).
Outcome(answer) ==
    IF answer = "ok" THEN "SENT"
    ELSE IF answer \in {"gone", "invalid"} THEN "UNREGISTERED"
    ELSE IF answer \in {"bad", "exception"} THEN "FAILED"
    ELSE "retry"

\* send_with_retry; the back-off before the next attempt takes no step.
Ends(p, outcome) ==
    LET s == send[p]
    IN  send' = [send EXCEPT ![p] =
                    IF outcome # "retry" THEN [s EXCEPT !.pc = outcome]
                    ELSE IF s.attempt = MaxAttempts THEN [s EXCEPT !.pc = "FAILED"]
                    ELSE [s EXCEPT !.pc = "attempt", !.attempt = s.attempt + 1]]

\* The token endpoint fails: worth a retry on 400 and 5xx only.
MintFails(p) ==
    /\ send[p].pc = "mint"
    /\ \E outcome \in {"retry", "FAILED"} : Ends(p, outcome)
    /\ UNCHANGED <<cache, installed, rows, fanout, revocations, copies, lost, blamed>>

\* External: what the provider may answer; "bad" is a message it refuses.  It
\* is "invalid", which the clients take for a dead token, where FCM calls it
\* INVALID_ARGUMENT, or where the wrong topic or host makes APNs say
\* DeviceTokenNotForTopic or BadDeviceToken of a phone that has the app.
Answers(p) ==
    {"busy", "nothing", "exception"} \cup
    IF send[p].bearer = "refused" THEN {"auth"}
    ELSE IF p \notin installed THEN {"gone"}
    ELSE {"ok", "lost", "bad", "invalid"}

\* transport.send under asyncio.timeout; an auth answer drops the cached token.
Answer(p, answer) ==
    /\ send[p].pc = "post"
    /\ Ends(p, Outcome(answer))
    /\ cache' = IF answer = "auth" THEN [cache EXCEPT ![Platform[p]] = "none"] ELSE cache
    /\ copies' = IF answer \in {"ok", "lost"} THEN [copies EXCEPT ![p] = @ + 1] ELSE copies
    /\ lost' = IF answer = "lost" THEN [lost EXCEPT ![p] = @ + 1] ELSE lost
    /\ blamed' = IF answer = "invalid" THEN blamed \cup {p} ELSE blamed
    /\ UNCHANGED <<installed, rows, fanout, revocations>>

\* dispatch after the gather: a record per phone, and the rows of dead phones
\* deleted; one that is gone by then raises and rolls everything back.
Record ==
    LET dead == {p \in Recipients : send[p].pc = "UNREGISTERED"}
    IN  /\ fanout = "sending"
        /\ \A p \in Recipients : send[p].pc \in Results
        /\ \/ dead \subseteq rows /\ fanout' = "recorded" /\ rows' = rows \ dead
           \/ ~(dead \subseteq rows) /\ fanout' = "raised" /\ UNCHANGED rows
        /\ UNCHANGED <<send, cache, installed, revocations, copies, lost, blamed>>

\* External: the app is removed from a phone.
Uninstall(p) ==
    /\ p \in installed
    /\ installed' = installed \ {p}
    /\ UNCHANGED <<send, cache, rows, fanout, revocations, copies, lost, blamed>>

\* The user unregisters the phone, or another fan-out has pruned it.
RowGone(p) ==
    /\ p \in rows /\ fanout = "sending"
    /\ rows' = rows \ {p}
    /\ UNCHANGED <<send, cache, installed, fanout, revocations, copies, lost, blamed>>

\* External: a provider stops accepting the tokens issued so far.
Revoke(t) ==
    LET Refuse(b) == IF b = "good" THEN "refused" ELSE b
    IN  /\ revocations < MaxRevoked /\ fanout = "sending"
        /\ revocations' = revocations + 1
        /\ cache' = [cache EXCEPT ![t] = Refuse(@)]
        /\ send' = [p \in Recipients |->
                       IF Platform[p] = t THEN [send[p] EXCEPT !.bearer = Refuse(@)] ELSE send[p]]
        /\ UNCHANGED <<installed, rows, fanout, copies, lost, blamed>>

PushNext ==
    \/ Record
    \/ \E t \in Transports : Revoke(t)
    \/ \E p \in Recipients :
           \/ Bearer(p) \/ Minted(p) \/ MintFails(p) \/ Uninstall(p) \/ RowGone(p)
           \/ \E answer \in Answers(p) : Answer(p, answer)

\* What a fan-out says of a phone is true: one said to be reached was, it
\* rings twice only for a lost answer, and a row is pruned only of a phone
\* without the app, or of one the provider itself blamed for an error of the
\* message or the configuration; a timeout, an outage or a refused bearer
\* token never costs a guard the registration.
PushIsHonest ==
    \A p \in Recipients :
        /\ send[p].pc = "SENT" => copies[p] > lost[p]
        /\ copies[p] <= lost[p] + 1
        /\ fanout = "recorded" /\ send[p].pc = "UNREGISTERED" => p \notin rows
        /\ send[p].pc = "UNREGISTERED" => p \notin installed \/ p \in blamed

\* What transport.py says of the records: every attempt is recorded, so a phone
\* that rang has its record once the fan-out is over.  Violated: a dead phone
\* whose row somebody else has deleted makes the pruning raise, and the records
\* of all phones are rolled back.
EveryAttemptIsRecorded == fanout = "raised" => \A p \in Recipients : copies[p] = 0
=============================================================================
