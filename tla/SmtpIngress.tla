---------------------------- MODULE SmtpIngress ----------------------------
(***************************************************************************)
(* The mail server the recorders log in to: the snapshot of the accounts,  *)
(* AUTH, the rate limiter and the answer to DATA, for one recorder.  What  *)
(* becomes of a mail that is let in is module MailIntake.  The accounts    *)
(* are issued by the configuration API, in another process.                *)
(***************************************************************************)
EXTENDS Commissioning

CONSTANTS
    Limit,   \* limit_per_minute
    Minute   \* ticks of a minute

ASSUME IngressAssumption == {Limit, Minute} \subseteq Nat \ {0}

VARIABLES
    snapshot,  \* the accounts in CachedAccountStore
    fresh,     \* history: it was loaded after the last commit to the accounts
    recorder,  \* the username and password set on the recorder
    session,   \* the recorder has an authenticated session
    mail,      \* what the recorder wants to send: none, fits, oversized
    window     \* the limiter's entry: age of the window, mails counted

ingressVars == <<snapshot, fresh, recorder, session, mail, window>>

\* _windows has no entry for the recorder.
NoWindow == [age |-> 0, count |-> 0]

IngressInit ==
    /\ snapshot = {}
    /\ fresh = TRUE
    /\ recorder = <<0, 0>>
    /\ session = FALSE
    /\ mail = "none"
    /\ window = NoWindow

\* The password of an account is known by the account's number, as its username is.
Authenticates(pair) == pair[1] \in snapshot /\ pair[1] = pair[2]
-----------------------------------------------------------------------------
\* load_accounts
Loaded == active

\* AccountRefresher.  One that fails keeps the snapshot.
refresh_once ==
    /\ topic = "accounts"
    /\ snapshot' = Loaded
    /\ fresh' = TRUE
    /\ UNCHANGED <<recorder, session, mail, window>>

\* serve loads the accounts before it listens; limiter and sessions are gone.
restart ==
    /\ topic = "accounts"
    /\ snapshot' = Loaded
    /\ fresh' = TRUE
    /\ session' = FALSE
    /\ window' = NoWindow
    /\ UNCHANGED <<recorder, mail>>

\* External: the installer sets the recorder to the pair that was shown.
Configure ==
    /\ recorder # shown
    /\ recorder' = shown
    /\ UNCHANGED <<snapshot, fresh, session, mail, window>>

\* External: an alarm.
Alarm ==
    /\ topic = "accounts" /\ mail = "none"
    /\ mail' \in {"fits", "oversized"}
    /\ UNCHANGED <<snapshot, fresh, recorder, session, window>>

\* A rejected login, also one with an unknown username, leaves no session.
authenticator ==
    /\ mail # "none" /\ ~session
    /\ Authenticates(recorder)
    /\ session' = TRUE
    /\ UNCHANGED <<snapshot, fresh, recorder, mail, window>>

\* The identity stays with the session until the recorder or the network ends it.
Disconnect ==
    /\ session
    /\ session' = FALSE
    /\ UNCHANGED <<snapshot, fresh, recorder, mail, window>>

Oversized ==
    /\ session /\ mail = "oversized"
    /\ mail' = "none"
    /\ UNCHANGED <<snapshot, fresh, recorder, session, window>>

\* RateLimiter.allow; counts beyond the limit are all the same.
Expired == window.age >= Minute
allow == window.count = 0 \/ Expired \/ window.count < Limit

\* Mutant: a refusal starts the minute again.
RefusalRestarts == [window EXCEPT !.age = 0]

Refused == [window EXCEPT !.count = Limit]
Counted == IF Expired THEN [age |-> 0, count |-> 1] ELSE [window EXCEPT !.count = @ + 1]

\* handle_DATA: 451 over the limit ...
Refuse ==
    /\ session /\ mail = "fits" /\ ~allow
    /\ window' = Refused
    /\ UNCHANGED <<snapshot, fresh, recorder, session, mail>>

\* ... 451 if the pipeline or the sink fails, although the mail has counted ...
Fail ==
    /\ session /\ mail = "fits" /\ allow
    /\ window' = Counted
    /\ UNCHANGED <<snapshot, fresh, recorder, session, mail>>

\* ... or 250.
Accept ==
    /\ session /\ mail = "fits" /\ allow
    /\ window' = Counted
    /\ mail' = "none"
    /\ UNCHANGED <<snapshot, fresh, recorder, session>>

Tick ==
    /\ window.count > 0 /\ window.age < Minute
    /\ window' = [window EXCEPT !.age = @ + 1]
    /\ UNCHANGED <<snapshot, fresh, recorder, session, mail>>

Ingress ==
    \/ refresh_once \/ restart \/ Configure \/ Alarm \/ authenticator \/ Disconnect
    \/ Oversized \/ Refuse \/ Fail \/ Accept \/ Tick
-----------------------------------------------------------------------------
vars == <<setupVars, ingressVars>>

Init == SetupInit /\ IngressInit

Api ==
    /\ SetupNext
    /\ fresh' = (fresh /\ active' = active)
    /\ UNCHANGED <<snapshot, recorder, session, mail, window>>

Next == Api \/ (Ingress /\ UNCHANGED setupVars)

\* The refresher runs every minute, the clock goes on, and a recorder tries
\* until a mail is taken; the sink is not down for ever.
Fairness ==
    /\ WF_vars(refresh_once /\ UNCHANGED setupVars)
    /\ WF_vars(Tick /\ UNCHANGED setupVars)
    /\ SF_vars(authenticator /\ UNCHANGED setupVars)
    /\ SF_vars(Oversized /\ UNCHANGED setupVars)
    /\ SF_vars(Refuse /\ UNCHANGED setupVars)
    /\ SF_vars(Accept /\ UNCHANGED setupVars)

Spec == Init /\ [][Next]_vars /\ Fairness
-----------------------------------------------------------------------------
(***************************************************************************)
(* Properties.                                                             *)
(***************************************************************************)

\* After a rotation that no other overtook, and the next refresh, the pair
\* that was shown logs the recorder in and no other pair does.
ShownPairWorks ==
    issued > 0 /\ fresh /\ <<"account", 1>> \notin disputed =>
        \A pair \in (1..issued) \X (1..issued) : Authenticates(pair) <=> pair = shown

\* "451 asks the recorder to retry later": a recorder that keeps trying, with
\* a pair that stays valid, gets its mail in, however fast it tries.
RetryGetsIn ==
    (mail # "none") ~> (mail = "none" \/ recorder[1] \notin active \/ recorder[1] # recorder[2])
=============================================================================
