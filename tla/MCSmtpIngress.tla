--------------------------- MODULE MCSmtpIngress ---------------------------
(***************************************************************************)
(* The owner and a guard of one tenant and the owner of another.           *)
(***************************************************************************)
EXTENDS SmtpIngress

MCTenant == [ann |-> "t1", gus |-> "t1", omar |-> "t2"]
MCRole == [ann |-> "OWNER", gus |-> "GUARD", omar |-> "OWNER"]
=============================================================================
