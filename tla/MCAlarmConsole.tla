--------------------------- MODULE MCAlarmConsole ---------------------------
(***************************************************************************)
(* Instances of AlarmConsole for TLC.                                      *)
(***************************************************************************)
EXTENDS AlarmConsole, TLC

CONSTANTS r1, r3, r4, c1, c2

\* A guard acknowledges while two managers resolve, with different codes.
OneGuard == r1 :> "acknowledge" @@ r3 :> "WEATHER" @@ r4 :> "FALSE_POSITIVE"
\* Nobody answers.
Nobody == [r \in {} |-> "acknowledge"]
GuardAndAccounts == c1 :> "GUARD" @@ c2 :> "BILLING_ADMIN"
=============================================================================
