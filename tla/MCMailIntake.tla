---------------------------- MODULE MCMailIntake ----------------------------
(***************************************************************************)
(* Instances of MailIntake for TLC.                                        *)
(***************************************************************************)
EXTENDS MailIntake, TLC

CONSTANTS c1, c2, m1, m2, m3

\* Two sightings by one camera, so of one device and one dedup key; the rule that
\* matches the second does not push.
BurstKind == m1 :> "alarm" @@ m2 :> "quiet_alarm"
BurstKey == m1 :> "k" @@ m2 :> "k"
BurstDevice == m1 :> "d" @@ m2 :> "d"
BurstAttempts == m1 :> 2 @@ m2 :> 1

\* Mails that end in every other branch of the flow.
MixedKind == m1 :> "no_match" @@ m2 :> "face" @@ m3 :> "orphan"
MixedKey == m1 :> "k1" @@ m2 :> "k2" @@ m3 :> "k3"
MixedDevice == m1 :> "d" @@ m2 :> "d" @@ m3 :> "gone"
MixedAttempts == m1 :> 1 @@ m2 :> 2 @@ m3 :> 1

ConnSymmetry == Permutations(Conns)
=============================================================================
