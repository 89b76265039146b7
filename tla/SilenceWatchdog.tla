--------------------------- MODULE SilenceWatchdog ---------------------------
(***************************************************************************)
(* The watchdog of one site.  Every mail touches its recorder's            *)
(* device_silence_state row (touch_device_heartbeat, in the ingest         *)
(* worker's transaction).  Every minute the watchdog loads the fleet, and  *)
(* plan_sweep turns the last-seen times into state changes and alarms,     *)
(* which apply_sweep writes and commits.  The two read a row before they   *)
(* write it, in different processes.                                       *)
(***************************************************************************)
EXTENDS Integers, FiniteSets

CONSTANTS
    Devices,   \* the recorders of the site
    Interval,  \* expected_interval_seconds
    SweepLag,  \* longest time from the end of a sweep to the end of the next
    BeatLag,   \* longest time from a mail's arrival to its commit
    MaxBeats,  \* bound: mails
    MaxFaults  \* bound: failed sweeps

late_after == Interval
silent_after == (3 * Interval) \div 2
Never == -1

ASSUME WatchdogAssumption ==
    /\ IsFiniteSet(Devices)
    /\ Interval \in Nat \ {0, 1}
    /\ SweepLag \in Nat \ {0}
    /\ BeatLag \in Nat
    /\ MaxBeats \in Nat
    /\ MaxFaults \in Nat

\* A sweep succeeds before a recorder that was just heard can be dark again,
\* even if all the failures come in a row: a sweep a minute against 45 minutes
\* (SWEEP_INTERVAL_SECONDS, 1.5 times DEFAULT_INTERVAL_SECONDS).
ASSUME TimelyAssumption == BeatLag + (MaxFaults + 2) * SweepLag < silent_after

States == {"OK", "LATE", "SILENT", "NEVER_SEEN"}
Quiet == Never..silent_after

VARIABLES
    quiet,    \* time since last_message_at, cut off at silent_after
    stored,   \* device_silence_state.state; NEVER_SEEN where there is no row
    beat,     \* the state an open ingest transaction has read; "none"
    since,    \* time since that mail was received
    phase,    \* "idle", or "applying" between load_snapshots and the commit
    snapshot, \* what load_snapshots read
    alarms,   \* committed alarms: [type, devices, sweep]
    covered,  \* history: recorders with an alarm since their last message,
              \*          raised when they were dark indeed
    power,    \* FALSE from the moment the whole site is cut off
    sweeps,   \* history: sweeps committed with an alarm
    lag,      \* time since a sweep last ended
    beats, faults

vars == <<quiet, stored, beat, since, phase, snapshot, alarms, covered, power,
          sweeps, lag, beats, faults>>

TypeOK ==
    /\ quiet \in [Devices -> Quiet]
    /\ stored \in [Devices -> States]
    /\ beat \in [Devices -> States \cup {"none"}]
    /\ since \in [Devices -> Nat]
    /\ phase \in {"idle", "applying"}
    /\ snapshot \in [Devices -> [quiet : Quiet, stored : States]]
    /\ alarms \subseteq [type : {"device_silent", "site_offline"}, devices : SUBSET Devices,
                         sweep : Nat]
    /\ covered \subseteq Devices
    /\ power \in BOOLEAN
    /\ sweeps \in Nat /\ lag \in Nat /\ beats \in Nat /\ faults \in Nat

Init ==
    /\ quiet = [d \in Devices |-> Never]
    /\ stored = [d \in Devices |-> "NEVER_SEEN"]
    /\ beat = [d \in Devices |-> "none"]
    /\ since = [d \in Devices |-> 0]
    /\ phase = "idle"
    /\ snapshot = [d \in Devices |-> [quiet |-> Never, stored |-> "NEVER_SEEN"]]
    /\ alarms = {}
    /\ covered = {}
    /\ power = TRUE
    /\ sweeps = 0 /\ lag = 0 /\ beats = 0 /\ faults = 0
-----------------------------------------------------------------------------
(***************************************************************************)
(* The ingest worker.                                                      *)
(***************************************************************************)

\* A mail arrives and its transaction reads the silence-state row.
BeatRead(d) ==
    /\ power
    /\ beats < MaxBeats
    /\ beats' = beats + 1
    /\ beat[d] = "none"
    /\ beat' = [beat EXCEPT ![d] = stored[d]]
    /\ since' = [since EXCEPT ![d] = 0]
    /\ UNCHANGED <<quiet, stored, phase, snapshot, alarms, covered, power, sweeps, lag, faults>>

\* The state column is written only if the value read was not OK already.
StateAfterBeat(d) == IF beat[d] = "OK" THEN stored[d] ELSE "OK"

BeatCommit(d) ==
    /\ beat[d] # "none"
    /\ stored' = [stored EXCEPT ![d] = StateAfterBeat(d)]
    /\ quiet' = [quiet EXCEPT ![d] = since[d]]
    /\ covered' = covered \ {d}
    /\ beat' = [beat EXCEPT ![d] = "none"]
    /\ UNCHANGED <<since, phase, snapshot, alarms, power, sweeps, lag,
                   beats, faults>>
-----------------------------------------------------------------------------
(***************************************************************************)
(* plan_sweep, over the snapshot.                                          *)
(***************************************************************************)

\* evaluate_silence.
Verdict(q) ==
    CASE q = Never -> "NEVER_SEEN"
      [] q \in 0..(late_after - 1) -> "OK"
      [] q \in late_after..(silent_after - 1) -> "LATE"
      [] OTHER -> "SILENT"

Silent == {d \in Devices : Verdict(snapshot[d].quiet) = "SILENT"}

\* Mutant: recorders already known to be dark alarm again.
AlarmsAgain == Silent

\* Mutant: a recorder that was late already is not newly silent.
FromOKOnly == {d \in Silent : snapshot[d].stored = "OK"}

NewlySilent == {d \in Silent : snapshot[d].stored # "SILENT"}

\* SITE_OUTAGE_THRESHOLD = 0.75, MIN_DEVICES_FOR_SITE_OUTAGE = 2.
SiteWide == Cardinality(Devices) >= 2 /\ 4 * Cardinality(Silent) >= 3 * Cardinality(Devices)

\* Mutant: only a whole site going dark is announced.
OutagesOnly ==
    IF NewlySilent # {} /\ SiteWide
    THEN {[type |-> "site_offline", devices |-> Silent, sweep |-> sweeps]}
    ELSE {}

\* _plan_site: one alarm for the site, or one for each newly silent recorder.
PlannedAlarms ==
    CASE NewlySilent = {} -> {}
      [] NewlySilent # {} /\ SiteWide ->
            {[type |-> "site_offline", devices |-> Silent, sweep |-> sweeps]}
      [] OTHER ->
            {[type |-> "device_silent", devices |-> {d}, sweep |-> sweeps] : d \in NewlySilent}
-----------------------------------------------------------------------------
(***************************************************************************)
(* sweep_once.                                                             *)
(***************************************************************************)
SweepLoad ==
    /\ phase = "idle"
    /\ phase' = "applying"
    /\ snapshot' = [d \in Devices |-> [quiet |-> quiet[d], stored |-> stored[d]]]
    /\ UNCHANGED <<quiet, stored, beat, since, alarms, covered, power, sweeps, lag, beats, faults>>

\* apply_sweep and the commit: the states that changed are written over
\* whatever the rows hold by now.
SweepApply ==
    /\ phase = "applying"
    /\ phase' = "idle"
    /\ lag' = 0
    /\ stored' = [d \in Devices |->
                     LET v == Verdict(snapshot[d].quiet)
                     IN  IF v # snapshot[d].stored THEN v ELSE stored[d]]
    /\ alarms' = alarms \cup PlannedAlarms
    /\ sweeps' = IF PlannedAlarms = {} THEN sweeps ELSE sweeps + 1
    /\ covered' = covered \cup {d \in UNION {a.devices : a \in PlannedAlarms} :
                                   quiet[d] = silent_after}
    /\ UNCHANGED <<quiet, beat, since, snapshot, power, beats, faults>>

\* The next minute tries again.
SweepFail ==
    /\ faults < MaxFaults
    /\ faults' = faults + 1
    /\ phase = "applying"
    /\ phase' = "idle"
    /\ lag' = 0
    /\ UNCHANGED <<quiet, stored, beat, since, snapshot, alarms, covered, power,
                   sweeps, beats>>
-----------------------------------------------------------------------------
\* The site loses its power or its link: nothing arrives any more.
Cut ==
    /\ power
    /\ power' = FALSE
    /\ UNCHANGED <<quiet, stored, beat, since, phase, snapshot, alarms, covered,
                   sweeps, lag, beats, faults>>

\* Times from silent_after on are not told apart.
Tick ==
    /\ lag < SweepLag
    /\ lag' = lag + 1
    /\ \A d \in Devices : beat[d] # "none" => since[d] < BeatLag
    /\ quiet' = [d \in Devices |-> IF quiet[d] \in {Never, silent_after} THEN quiet[d] ELSE quiet[d] + 1]
    /\ since' = [d \in Devices |-> IF beat[d] = "none" THEN since[d] ELSE since[d] + 1]
    /\ UNCHANGED <<stored, beat, phase, snapshot, alarms, covered, power, sweeps, beats, faults>>

Sweep == SweepLoad \/ SweepApply

Next ==
    \/ \E d \in Devices : BeatRead(d) \/ BeatCommit(d)
    \/ Sweep
    \/ SweepFail
    \/ Cut
    \/ Tick

Spec == Init /\ [][Next]_vars

\* serve() sweeps again and again, time passes, open transactions commit.
FairSpec == /\ Spec /\ WF_vars(Sweep) /\ WF_vars(Tick)
            /\ \A d \in Devices : WF_vars(BeatCommit(d))
-----------------------------------------------------------------------------
(***************************************************************************)
(* Properties.                                                             *)
(***************************************************************************)

\* "The alarm is raised on the transition into silence": every alarm tells of a
\* recorder that had not been announced since it was last heard, through failed
\* sweeps and through heartbeats that cross a sweep.  So a recorder that stays
\* dark gets one device_silent at most, and is named by a further alarm only
\* when another one has gone dark with it (_plan_site, apply_sweep).
EveryAlarmIsNews ==
    [][\A a \in alarms' \ alarms : ~(a.devices \subseteq covered)]_vars

\* No recorder is dark, on record as silent and unannounced: the state that
\* keeps later sweeps quiet is never ahead of the alarm (plan_sweep,
\* apply_sweep).  It needs sweeps that end within silent_after of each other.
SilentIsAnnounced ==
    \A d \in Devices : quiet[d] = silent_after /\ stored[d] = "SILENT" => d \in covered

\* Never stay silent about silence: a recorder that goes dark is announced, or
\* is heard again.
DarkIsAnnounced ==
    \A d \in Devices : quiet[d] = silent_after ~> (d \in covered \/ quiet[d] # silent_after)

(***************************************************************************)
(* Stated by the code's comments and not true of it.                       *)
(***************************************************************************)

\* "never stay silent about silence, but say it once at the right level": no
\* alarm names a recorder that has been announced since it was last heard.  A
\* site whose recorders pass silent_after in different sweeps is announced
\* recorder by recorder and then once more as a site.
SaidOnce == [][\A a \in alarms' \ alarms : a.devices \cap covered = {}]_vars
==============================================================================
