---------------------------- MODULE MCEscalation ----------------------------
(***************************************************************************)
(* Instances of Escalation for TLC.                                        *)
(***************************************************************************)
EXTENDS Escalation, TLC

CONSTANT a1

OneCritical == a1 :> "CRITICAL"
=============================================================================
