------------------------ MODULE SilenceWatchdogProofs ------------------------
(***************************************************************************)
(* Proofs about SilenceWatchdog for any set of recorders, any interval and *)
(* any lags for which sweeps are timely (TimelyAssumption).                *)
(***************************************************************************)
EXTENDS SilenceWatchdog, TLAPS

(***************************************************************************)
(* The inductive invariant.  The sweep writes states over whatever the     *)
(* rows hold by then and a heartbeat may leave the state it finds, so a    *)
(* recorder just heard can be on record as SILENT.  What saves the alarms  *)
(* is time: a later sweep corrects the row before the recorder can be dark *)
(* again.  The invariant counts the time that takes.                       *)
(***************************************************************************)
BoundsOK ==
    /\ lag <= SweepLag
    /\ faults <= MaxFaults
    /\ \A d \in Devices : beat[d] # "none" => since[d] <= BeatLag

Dark(d) == quiet[d] = silent_after

\* What is announced is dark and on record as silent, in the row and in the
\* snapshot of a sweep under way.
CoveredIsSilent ==
    \A d \in covered :
        /\ Dark(d) /\ stored[d] = "SILENT"
        /\ phase = "applying" => snapshot[d].quiet = silent_after /\ snapshot[d].stored = "SILENT"

\* A recorder the snapshot saw dark is dark since, with the row as it was, or
\* was heard during this sweep.
SnapshotIsRecent ==
    \A d \in Devices :
        phase = "applying" /\ snapshot[d].quiet = silent_after =>
            \/ Dark(d) /\ stored[d] = snapshot[d].stored
            \/ quiet[d] \in 0..(BeatLag + lag)

\* A recorder on record as silent has been heard of.
SilentWasHeard ==
    \A d \in Devices :
        /\ stored[d] = "SILENT" => quiet[d] # Never
        /\ snapshot[d].quiet # Never => quiet[d] # Never

\* The sweep under way will correct the row of d.
Corrects(d) ==
    phase = "applying" /\ snapshot[d].stored = "SILENT" /\ snapshot[d].quiet # silent_after

\* The longest time until a sweep that corrects a wrong row has ended.
TimeLeft(d) ==
    (SweepLag - lag) + (MaxFaults - faults) * SweepLag
        + IF phase = "applying" /\ ~Corrects(d) THEN SweepLag ELSE 0

WrongIsCorrected ==
    \A d \in Devices :
        stored[d] = "SILENT" /\ ~Dark(d) =>
            quiet[d] + TimeLeft(d) <= BeatLag + (MaxFaults + 2) * SweepLag

WatchdogInv ==
    /\ TypeOK /\ BoundsOK
    /\ CoveredIsSilent
    /\ SnapshotIsRecent
    /\ SilentWasHeard
    /\ WrongIsCorrected
    /\ SilentIsAnnounced
-----------------------------------------------------------------------------
\* The thresholds of WatchdogConfig, and how the lags compare with them.
LEMMA Times ==
  /\ silent_after \in Nat /\ late_after \in Nat
  /\ 0 < late_after /\ late_after < silent_after
  /\ BeatLag \in Nat /\ SweepLag \in Nat
  /\ BeatLag + SweepLag < silent_after
  <1>1. silent_after \in Nat /\ late_after \in Nat /\ 0 < late_after /\ late_after < silent_after
    BY WatchdogAssumption DEF silent_after, late_after
  <1>2. (MaxFaults + 2) * SweepLag >= SweepLag
    BY WatchdogAssumption
  <1>3. (MaxFaults + 2) * SweepLag \in Nat
    BY WatchdogAssumption
  <1> HIDE DEF silent_after
  <1> QED BY <1>1, <1>2, <1>3, WatchdogAssumption, TimelyAssumption

\* evaluate_silence: silent from silent_after on, never seen without a message.
LEMMA VerdictIs ==
  ASSUME NEW q \in Quiet
  PROVE  /\ Verdict(q) \in States
         /\ Verdict(q) = "SILENT" <=> q = silent_after
  <1>1. CASE q = Never
    <2>1. q # silent_after
      BY <1>1, Times DEF Never
    <2> QED BY <1>1, <2>1 DEF Verdict, States
  <1>2. CASE q \in 0..(late_after - 1)
    <2>1. q # silent_after /\ q # Never /\ q \notin late_after..(silent_after - 1)
      BY <1>2, Times DEF Never
    <2> QED BY <1>2, <2>1 DEF Verdict, States
  <1>3. CASE q \in late_after..(silent_after - 1)
    <2>1. q # silent_after /\ q # Never /\ q \notin 0..(late_after - 1)
      BY <1>3, Times DEF Never
    <2> QED BY <1>3, <2>1 DEF Verdict, States
  <1>4. CASE q = silent_after
    <2>1. q \notin late_after..(silent_after - 1) /\ q # Never /\ q \notin 0..(late_after - 1)
      BY <1>4, Times DEF Never
    <2> QED BY <1>4, <2>1 DEF Verdict, States
  <1> QED BY <1>1, <1>2, <1>3, <1>4, Times DEF Quiet, Never

\* _plan_site announces every newly silent recorder and none that is not silent.
LEMMA PlannedIs ==
  ASSUME sweeps \in Nat
  PROVE  /\ PlannedAlarms \subseteq [type : {"device_silent", "site_offline"},
                                     devices : SUBSET Devices, sweep : Nat]
         /\ NewlySilent \subseteq UNION {a.devices : a \in PlannedAlarms}
         /\ UNION {a.devices : a \in PlannedAlarms} \subseteq Silent
  <1>0. NewlySilent \subseteq Silent /\ Silent \subseteq Devices
    BY DEF NewlySilent, Silent
  <1>1. CASE NewlySilent = {}
    <2>1. PlannedAlarms = {}
      BY <1>1 DEF PlannedAlarms
    <2> QED BY <1>1, <2>1
  <1>2. CASE NewlySilent # {} /\ SiteWide
    <2>1. PlannedAlarms = {[type |-> "site_offline", devices |-> Silent, sweep |-> sweeps]}
      BY <1>2 DEF PlannedAlarms
    <2> QED BY <1>0, <2>1
  <1>3. CASE NewlySilent # {} /\ ~SiteWide
    <2>1. PlannedAlarms =
            {[type |-> "device_silent", devices |-> {d}, sweep |-> sweeps] : d \in NewlySilent}
      BY <1>3 DEF PlannedAlarms
    <2>2. \A a \in PlannedAlarms : \E d \in NewlySilent :
            a = [type |-> "device_silent", devices |-> {d}, sweep |-> sweeps]
      BY <2>1
    <2>3. \A a \in PlannedAlarms :
            /\ a \in [type : {"device_silent", "site_offline"}, devices : SUBSET Devices,
                      sweep : Nat]
            /\ a.devices \subseteq Silent
      BY <1>0, <2>2
    <2>4. \A d \in NewlySilent : \E a \in PlannedAlarms : d \in a.devices
      <3> TAKE d \in NewlySilent
      <3> DEFINE a == [type |-> "device_silent", devices |-> {d}, sweep |-> sweeps]
      <3>1. a \in PlannedAlarms /\ d \in a.devices
        BY <2>1
      <3> QED BY <3>1
    <2> QED BY <2>3, <2>4
  <1> QED BY <1>1, <1>2, <1>3

LEMMA WatchdogInvariant == Spec => []WatchdogInv
<1> USE WatchdogAssumption, Times
<1> USE DEF Dark
<1>1. Init => WatchdogInv
  <2> SUFFICES ASSUME Init PROVE WatchdogInv
    OBVIOUS
  <2>1. Never \in Quiet /\ Never # silent_after
    BY DEF Quiet, Never
  <2>2. TypeOK /\ BoundsOK
    BY <2>1 DEF Init, TypeOK, BoundsOK, States
  <2> QED BY <2>1, <2>2 DEF Init, WatchdogInv, CoveredIsSilent, SnapshotIsRecent, SilentWasHeard,
                       WrongIsCorrected, SilentIsAnnounced
<1>2. WatchdogInv /\ [Next]_vars => WatchdogInv'
  <2> SUFFICES ASSUME WatchdogInv, [Next]_vars PROVE WatchdogInv'
    OBVIOUS
  <2>0. TypeOK /\ BoundsOK
    BY DEF WatchdogInv
  <2>q. \A q \in Quiet : q \in Int /\ q <= silent_after /\ (q # Never => q \in Nat)
    BY DEF Quiet, Never
  <2>1. ASSUME NEW d \in Devices, BeatRead(d)
        PROVE  WatchdogInv'
    <3>1. UNCHANGED <<quiet, stored, phase, snapshot, covered, lag, faults>>
      BY <2>1 DEF BeatRead
    <3>2. TypeOK' /\ BoundsOK'
      BY <2>0, <2>1 DEF BeatRead, TypeOK, BoundsOK
    <3> QED BY <3>1, <3>2 DEF WatchdogInv, CoveredIsSilent, SnapshotIsRecent, SilentWasHeard,
                        WrongIsCorrected, SilentIsAnnounced, TimeLeft, Corrects
  <2>2. ASSUME NEW d \in Devices, BeatCommit(d)
        PROVE  WatchdogInv'
    <3>1. /\ quiet'[d] = since[d] /\ since[d] \in 0..BeatLag /\ d \notin covered'
          /\ covered' \subseteq covered
          /\ \A e \in Devices \ {d} : quiet'[e] = quiet[e] /\ stored'[e] = stored[e]
          /\ \A e \in covered \ {d} : e \in covered'
          /\ UNCHANGED <<phase, snapshot, lag, faults>>
      BY <2>0, <2>2 DEF BeatCommit, TypeOK, BoundsOK
    <3>2. since[d] \in Quiet /\ since[d] # Never /\ since[d] # silent_after
      BY <3>1 DEF Quiet, Never
    <3>3. TypeOK' /\ BoundsOK'
      <4>1. StateAfterBeat(d) \in States
        BY <2>0 DEF TypeOK, StateAfterBeat, States
      <4> QED BY <2>0, <2>2, <3>2, <4>1 DEF BeatCommit, TypeOK, BoundsOK
    <3>4. CoveredIsSilent' /\ SilentIsAnnounced'
      BY <2>0, <3>1, <3>2 DEF WatchdogInv, CoveredIsSilent, SilentIsAnnounced, TypeOK
    <3>5. SnapshotIsRecent'
      <4>1. since[d] \in 0..(BeatLag + lag)
        BY <2>0, <3>1 DEF TypeOK
      <4> QED BY <3>1, <4>1 DEF WatchdogInv, SnapshotIsRecent
    <3>6. SilentWasHeard'
      BY <3>1, <3>2 DEF WatchdogInv, SilentWasHeard
    <3>7. WrongIsCorrected'
      <4>1. \A e \in Devices : TimeLeft(e)' = TimeLeft(e)
        BY <3>1 DEF TimeLeft, Corrects
      <4>2. TimeLeft(d) <= (MaxFaults + 2) * SweepLag /\ TimeLeft(d) \in Int
        <5>1. (MaxFaults - faults) * SweepLag <= MaxFaults * SweepLag
          BY <2>0 DEF TypeOK, BoundsOK
        <5>2. (MaxFaults + 2) * SweepLag = MaxFaults * SweepLag + 2 * SweepLag
          OBVIOUS
        <5>3. (MaxFaults - faults) * SweepLag \in Int /\ MaxFaults * SweepLag \in Int
          BY <2>0 DEF TypeOK
        <5> DEFINE extra == IF phase = "applying" /\ ~Corrects(d) THEN SweepLag ELSE 0
        <5>4. extra \in Nat /\ extra <= SweepLag
          OBVIOUS
        <5>5. TimeLeft(d) = (SweepLag - lag) + (MaxFaults - faults) * SweepLag + extra
          BY DEF TimeLeft
        <5> HIDE DEF extra
        <5>6. lag \in Nat /\ SweepLag \in Nat
          BY <2>0 DEF TypeOK
        <5> QED BY <5>1, <5>2, <5>3, <5>4, <5>5, <5>6
      <4>3. (MaxFaults + 2) * SweepLag \in Nat
        OBVIOUS
      <4>4. quiet'[d] + TimeLeft(d) <= BeatLag + (MaxFaults + 2) * SweepLag
        BY <3>1, <4>2, <4>3
      <4> QED BY <3>1, <4>1, <4>4 DEF WatchdogInv, WrongIsCorrected
    <3> QED BY <3>3, <3>4, <3>5, <3>6, <3>7 DEF WatchdogInv
  <2>3. CASE SweepLoad
    <3>1. /\ phase = "idle" /\ phase' = "applying"
          /\ \A d \in Devices : snapshot'[d].quiet = quiet[d] /\ snapshot'[d].stored = stored[d]
          /\ UNCHANGED <<quiet, stored, beat, since, covered, lag, faults>>
      BY <2>3 DEF SweepLoad
    <3>2. TypeOK' /\ BoundsOK'
      BY <2>0, <2>3 DEF SweepLoad, TypeOK, BoundsOK
    <3>3. (CoveredIsSilent /\ SnapshotIsRecent /\ SilentWasHeard /\ SilentIsAnnounced)'
      BY <2>0, <3>1 DEF WatchdogInv, CoveredIsSilent, SnapshotIsRecent, SilentWasHeard,
                        SilentIsAnnounced, TypeOK
    <3>4. WrongIsCorrected'
      <4>1. \A d \in Devices : stored[d] = "SILENT" /\ ~Dark(d) => TimeLeft(d)' = TimeLeft(d)
        BY <3>1 DEF TimeLeft, Corrects
      <4> QED BY <3>1, <4>1 DEF WatchdogInv, WrongIsCorrected
    <3> QED BY <3>2, <3>3, <3>4 DEF WatchdogInv
  <2>4. CASE SweepApply
    <3>1. /\ phase = "applying" /\ phase' = "idle" /\ lag' = 0
          /\ UNCHANGED <<quiet, snapshot, faults, beat, since>>
          /\ alarms' = alarms \cup PlannedAlarms
          /\ covered' = covered \cup {d \in UNION {a.devices : a \in PlannedAlarms} : Dark(d)}
      BY <2>4 DEF SweepApply
    <3>2. \A d \in Devices :
            stored'[d] = IF Verdict(snapshot[d].quiet) # snapshot[d].stored
                         THEN Verdict(snapshot[d].quiet) ELSE stored[d]
      BY <2>4 DEF SweepApply
    <3>3. \A d \in Devices :
            /\ snapshot[d].quiet \in Quiet /\ snapshot[d].stored \in States
            /\ Verdict(snapshot[d].quiet) \in States
            /\ Verdict(snapshot[d].quiet) = "SILENT" <=> snapshot[d].quiet = silent_after
      BY <2>0, VerdictIs DEF TypeOK
    <3>4. /\ NewlySilent \subseteq UNION {a.devices : a \in PlannedAlarms}
          /\ UNION {a.devices : a \in PlannedAlarms} \subseteq Silent
      BY <2>0, PlannedIs DEF TypeOK
    <3>5. \A d \in Devices : /\ d \in Silent <=> snapshot[d].quiet = silent_after
                             /\ d \in NewlySilent <=> d \in Silent /\ snapshot[d].stored # "SILENT"
      BY <3>3 DEF Silent, NewlySilent
    <3>6. TypeOK' /\ BoundsOK'
      <4>1. stored' \in [Devices -> States]
        <5>1. stored' = [d \in Devices |->
                           IF Verdict(snapshot[d].quiet) # snapshot[d].stored
                           THEN Verdict(snapshot[d].quiet) ELSE stored[d]]
          BY <2>4 DEF SweepApply
        <5> QED BY <2>0, <3>3, <5>1 DEF TypeOK
      <4>2. sweeps' \in Nat /\ UNCHANGED <<power, beats>>
        BY <2>0, <2>4 DEF SweepApply, TypeOK
      <4>3. Silent \subseteq Devices
        BY DEF Silent
      <4>4. alarms' \subseteq [type : {"device_silent", "site_offline"}, devices : SUBSET Devices,
                               sweep : Nat]
        BY <2>0, <3>1, PlannedIs DEF TypeOK
      <4> QED BY <2>0, <3>1, <3>4, <4>1, <4>2, <4>3, <4>4 DEF TypeOK, BoundsOK
    \* A recorder dark now and silent in the snapshot is silent in the row.
    <3>7. \A d \in Devices : d \in Silent /\ Dark(d) => stored'[d] = "SILENT"
      <4>1. \A d \in Devices : d \in Silent /\ Dark(d) => stored[d] = snapshot[d].stored
        BY <2>0, <3>1, <3>5 DEF WatchdogInv, SnapshotIsRecent, TypeOK, BoundsOK
      <4> QED BY <3>2, <3>3, <3>5, <4>1
    <3>8. CoveredIsSilent'
      <4>1. \A d \in covered : d \in Silent /\ Dark(d) /\ d \in Devices
        BY <2>0, <3>1, <3>5 DEF WatchdogInv, CoveredIsSilent, TypeOK
      <4>2. \A d \in covered' : d \in Silent /\ Dark(d) /\ d \in Devices
        BY <3>1, <3>4, <4>1 DEF Silent
      <4> QED BY <3>1, <3>7, <4>2 DEF CoveredIsSilent
    <3>9. SilentIsAnnounced'
      <4>1. \A d \in Devices : Dark(d) /\ stored[d] = "SILENT" => d \in covered
        BY DEF WatchdogInv, SilentIsAnnounced
      <4>2. \A d \in Devices : stored'[d] = "SILENT" => stored[d] = "SILENT" \/ d \in NewlySilent
        BY <3>2, <3>3, <3>5
      <4>3. \A d \in NewlySilent : Dark(d) => d \in covered'
        BY <3>1, <3>4
      <4> QED BY <3>1, <4>1, <4>2, <4>3 DEF SilentIsAnnounced
    <3>10. SilentWasHeard'
      <4>1. \A d \in Devices : stored'[d] = "SILENT" =>
              stored[d] = "SILENT" \/ snapshot[d].quiet = silent_after
        BY <3>2, <3>3
      <4>2. silent_after # Never
        BY DEF Never
      <4> QED BY <3>1, <4>1, <4>2 DEF WatchdogInv, SilentWasHeard
    <3>11. WrongIsCorrected'
      <4> SUFFICES ASSUME NEW d \in Devices, stored'[d] = "SILENT", ~Dark(d)
                   PROVE  quiet[d] + TimeLeft(d)' <= BeatLag + (MaxFaults + 2) * SweepLag
        BY <3>1 DEF WrongIsCorrected
      <4>1. TimeLeft(d)' = SweepLag + (MaxFaults - faults) * SweepLag
        BY <2>0, <3>1 DEF TimeLeft, TypeOK
      <4>2. (MaxFaults - faults) * SweepLag \in Int /\ (MaxFaults + 2) * SweepLag \in Int
        BY <2>0 DEF TypeOK
      <4>3. lag \in Nat /\ lag <= SweepLag /\ quiet[d] \in Int
        BY <2>0, <2>q DEF TypeOK, BoundsOK
      <4>4. CASE stored[d] = "SILENT"
        <5>1. ~Corrects(d)
          BY <3>2, <3>3, <4>4 DEF Corrects
        <5>2. TimeLeft(d) = (SweepLag - lag) + (MaxFaults - faults) * SweepLag + SweepLag
          BY <3>1, <5>1 DEF TimeLeft
        <5>3. quiet[d] + TimeLeft(d) <= BeatLag + (MaxFaults + 2) * SweepLag
          BY <4>4 DEF WatchdogInv, WrongIsCorrected
        <5> QED BY <4>1, <4>2, <4>3, <5>2, <5>3
      <4>5. CASE stored[d] # "SILENT"
        <5>1. snapshot[d].quiet = silent_after
          BY <3>2, <3>3, <4>5
        <5>2. quiet[d] <= BeatLag + lag
          BY <2>0, <3>1, <4>3, <5>1 DEF WatchdogInv, SnapshotIsRecent
        <5>3. (MaxFaults - faults) * SweepLag <= MaxFaults * SweepLag
          BY <2>0 DEF TypeOK, BoundsOK
        <5>4. (MaxFaults + 2) * SweepLag = MaxFaults * SweepLag + 2 * SweepLag
              /\ MaxFaults * SweepLag \in Int
          OBVIOUS
        <5> QED BY <4>1, <4>2, <4>3, <5>2, <5>3, <5>4
      <4> QED BY <4>4, <4>5
    <3>12. SnapshotIsRecent'
      BY <3>1 DEF SnapshotIsRecent
    <3> QED BY <3>6, <3>8, <3>9, <3>10, <3>11, <3>12 DEF WatchdogInv
  <2>5. CASE SweepFail
    <3>1. /\ phase = "applying" /\ phase' = "idle" /\ lag' = 0 /\ faults' = faults + 1
          /\ faults < MaxFaults
          /\ UNCHANGED <<quiet, stored, snapshot, covered, beat, since>>
      BY <2>5 DEF SweepFail
    <3>2. TypeOK' /\ BoundsOK'
      BY <2>0, <2>5 DEF SweepFail, TypeOK, BoundsOK
    <3>3. (CoveredIsSilent /\ SnapshotIsRecent /\ SilentWasHeard /\ SilentIsAnnounced)'
      BY <3>1 DEF WatchdogInv, CoveredIsSilent, SnapshotIsRecent, SilentWasHeard, SilentIsAnnounced
    <3>4. WrongIsCorrected'
      <4> SUFFICES ASSUME NEW d \in Devices, stored[d] = "SILENT", ~Dark(d)
                   PROVE  quiet[d] + TimeLeft(d)' <= BeatLag + (MaxFaults + 2) * SweepLag
        BY <3>1 DEF WrongIsCorrected
      <4>1. TimeLeft(d)' = SweepLag + (MaxFaults - (faults + 1)) * SweepLag
        BY <3>1 DEF TimeLeft
      <4>2. (MaxFaults - faults) * SweepLag = (MaxFaults - (faults + 1)) * SweepLag + SweepLag
        BY <2>0 DEF TypeOK
      <4>3. /\ (MaxFaults - faults) * SweepLag \in Int /\ (MaxFaults + 2) * SweepLag \in Int
            /\ (MaxFaults - (faults + 1)) * SweepLag \in Int
        BY <2>0 DEF TypeOK
      <4>4. lag \in Nat /\ lag <= SweepLag /\ quiet[d] \in Int
        BY <2>0, <2>q DEF TypeOK, BoundsOK
      <4>5. TimeLeft(d) >= (SweepLag - lag) + (MaxFaults - faults) * SweepLag /\ TimeLeft(d) \in Int
        BY <4>3, <4>4 DEF TimeLeft
      <4>6. quiet[d] + TimeLeft(d) <= BeatLag + (MaxFaults + 2) * SweepLag
        BY DEF WatchdogInv, WrongIsCorrected
      <4> QED BY <4>1, <4>2, <4>3, <4>4, <4>5, <4>6
    <3> QED BY <3>2, <3>3, <3>4 DEF WatchdogInv
  <2>6. CASE Cut
    <3>1. TypeOK' /\ BoundsOK' /\ UNCHANGED <<quiet, stored, phase, snapshot, covered, lag, faults>>
      BY <2>0, <2>6 DEF Cut, TypeOK, BoundsOK
    <3> QED BY <3>1 DEF WatchdogInv, CoveredIsSilent, SnapshotIsRecent, SilentWasHeard,
                        WrongIsCorrected, SilentIsAnnounced, TimeLeft, Corrects
  <2>7. CASE Tick
    <3>1. /\ lag < SweepLag /\ lag' = lag + 1
          /\ UNCHANGED <<stored, phase, snapshot, covered, faults>>
      BY <2>7 DEF Tick
    <3>2. \A d \in Devices :
            /\ quiet[d] \in Int /\ quiet[d] <= silent_after
            /\ quiet'[d] = IF quiet[d] = Never \/ Dark(d) THEN quiet[d] ELSE quiet[d] + 1
            /\ quiet'[d] \in Quiet
            /\ quiet[d] # Never => quiet[d] \in Nat
      <4> TAKE d \in Devices
      <4>1. quiet'[d] = IF quiet[d] = Never \/ Dark(d) THEN quiet[d] ELSE quiet[d] + 1
        BY <2>7 DEF Tick
      <4>2. quiet[d] \in Quiet
        BY <2>0 DEF TypeOK
      <4>3. quiet'[d] \in Quiet
        BY <4>1, <4>2 DEF Quiet, Never
      <4> QED BY <2>q, <4>1, <4>2, <4>3
    <3>3. TypeOK' /\ BoundsOK'
      <4>1. quiet' \in [Devices -> Quiet]
        BY <2>7, <3>2 DEF Tick
      <4>2. since' \in [Devices -> Nat]
        BY <2>0, <2>7 DEF Tick, TypeOK
      <4>3. BoundsOK'
        BY <2>0, <2>7 DEF Tick, TypeOK, BoundsOK
      <4> QED BY <2>0, <2>7, <4>1, <4>2, <4>3 DEF Tick, TypeOK
    <3>4. CoveredIsSilent'
      BY <2>0, <3>1, <3>2 DEF WatchdogInv, CoveredIsSilent, TypeOK
    <3>5. SnapshotIsRecent'
      <4> SUFFICES ASSUME NEW d \in Devices, phase = "applying", snapshot[d].quiet = silent_after
                   PROVE  \/ Dark(d)' /\ stored[d] = snapshot[d].stored
                          \/ quiet'[d] \in 0..(BeatLag + (lag + 1))
        BY <3>1 DEF SnapshotIsRecent
      <4>1. CASE Dark(d) /\ stored[d] = snapshot[d].stored
        BY <3>2, <4>1
      <4>2. CASE quiet[d] \in 0..(BeatLag + lag)
        <5>1. lag \in Nat /\ quiet[d] # silent_after /\ quiet[d] # Never
          BY <2>0, <3>1, <4>2 DEF TypeOK, Never
        <5> QED BY <3>2, <4>2, <5>1
      <4> QED BY <4>1, <4>2 DEF WatchdogInv, SnapshotIsRecent
    <3>6. SilentWasHeard'
      <4>1. \A d \in Devices : quiet[d] # Never => quiet'[d] # Never
        BY <3>2 DEF Never
      <4> QED BY <3>1, <4>1 DEF WatchdogInv, SilentWasHeard
    \* A wrong row is still within its time, so the recorder is not dark yet.
    <3>7. ASSUME NEW d \in Devices, stored[d] = "SILENT", ~Dark(d)
          PROVE  /\ quiet'[d] + TimeLeft(d)' <= BeatLag + (MaxFaults + 2) * SweepLag
                 /\ ~Dark(d)'
      <4>1. quiet'[d] = quiet[d] + 1 /\ quiet[d] \in Nat
        BY <3>2, <3>7 DEF WatchdogInv, SilentWasHeard
      <4>2. (MaxFaults - faults) * SweepLag \in Int /\ (MaxFaults + 2) * SweepLag \in Int
            /\ lag \in Nat
        BY <2>0 DEF TypeOK
      <4>3. TimeLeft(d)' = TimeLeft(d) - 1 /\ TimeLeft(d) \in Int
        BY <3>1, <4>2 DEF TimeLeft, Corrects
      <4>4. quiet[d] + TimeLeft(d) <= BeatLag + (MaxFaults + 2) * SweepLag
        BY <3>7 DEF WatchdogInv, WrongIsCorrected
      <4>5. TimeLeft(d) >= 1
        <5>1. (MaxFaults - faults) * SweepLag >= 0
          BY <2>0 DEF TypeOK, BoundsOK
        <5> QED BY <3>1, <4>2, <5>1 DEF TimeLeft
      <4> QED BY <4>1, <4>2, <4>3, <4>4, <4>5, TimelyAssumption
    <3>8. WrongIsCorrected'
      <4>1. \A d \in Devices : stored[d] = "SILENT" /\ Dark(d) => Dark(d)'
        BY <3>2
      <4> QED BY <3>1, <3>7, <4>1 DEF WrongIsCorrected
    <3>9. SilentIsAnnounced'
      <4>1. \A d \in Devices : Dark(d)' /\ stored[d] = "SILENT" => Dark(d)
        BY <3>7
      <4> QED BY <3>1, <4>1 DEF WatchdogInv, SilentIsAnnounced
    <3> QED BY <3>3, <3>4, <3>5, <3>6, <3>8, <3>9 DEF WatchdogInv
  <2>8. CASE UNCHANGED vars
    BY <2>8 DEF vars, WatchdogInv, TypeOK, BoundsOK, CoveredIsSilent, SnapshotIsRecent,
                SilentWasHeard, WrongIsCorrected, SilentIsAnnounced, TimeLeft, Corrects
  <2> QED BY <2>1, <2>2, <2>3, <2>4, <2>5, <2>6, <2>7, <2>8 DEF Next, Sweep
<1> QED BY <1>1, <1>2, PTL DEF Spec

\* Type correctness of the rows, the snapshot and the alarms.
THEOREM TypeCorrect == Spec => []TypeOK
  BY WatchdogInvariant, PTL DEF WatchdogInv

\* The state that keeps later sweeps quiet is never ahead of the alarm
\* (plan_sweep, apply_sweep).
THEOREM SilenceIsAnnounced == Spec => []SilentIsAnnounced
  BY WatchdogInvariant, PTL DEF WatchdogInv

\* Every alarm names a recorder that had not been announced since it was last
\* heard (_plan_site, apply_sweep).
THEOREM AlarmsAreNews == Spec => EveryAlarmIsNews
<1>1. WatchdogInv /\ [Next]_vars
        => [\A a \in alarms' \ alarms : ~(a.devices \subseteq covered)]_vars
  <2> SUFFICES ASSUME WatchdogInv, [Next]_vars, NEW a \in alarms' \ alarms
               PROVE  ~(a.devices \subseteq covered)
    OBVIOUS
  <2>1. CASE UNCHANGED alarms
    BY <2>1
  <2>2. CASE SweepApply
    <3>1. phase = "applying" /\ a \in PlannedAlarms
      BY <2>2 DEF SweepApply
    <3>2. NewlySilent \cap covered = {} /\ NewlySilent \subseteq Silent
      BY <3>1 DEF WatchdogInv, CoveredIsSilent, NewlySilent
    <3>3. \E d \in NewlySilent : d \in a.devices
      <4>1. CASE NewlySilent = {}
        BY <3>1, <4>1 DEF PlannedAlarms
      <4>2. CASE NewlySilent # {} /\ SiteWide
        <5>1. a = [type |-> "site_offline", devices |-> Silent, sweep |-> sweeps]
          BY <3>1, <4>2 DEF PlannedAlarms
        <5> QED BY <3>2, <4>2, <5>1
      <4>3. CASE NewlySilent # {} /\ ~SiteWide
        <5>1. PlannedAlarms =
                {[type |-> "device_silent", devices |-> {d}, sweep |-> sweeps] : d \in NewlySilent}
          BY <4>3 DEF PlannedAlarms
        <5>2. PICK d \in NewlySilent :
                a = [type |-> "device_silent", devices |-> {d}, sweep |-> sweeps]
          BY <3>1, <5>1
        <5> QED BY <5>2
      <4> QED BY <4>1, <4>2, <4>3
    <3> QED BY <3>2, <3>3
  <2> QED
    BY <2>1, <2>2 DEF Next, vars, Sweep, BeatRead, BeatCommit, SweepLoad, SweepFail, Cut, Tick
<1> QED BY <1>1, WatchdogInvariant, PTL DEF Spec, EveryAlarmIsNews
=============================================================================
