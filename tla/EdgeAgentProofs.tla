-------------------------- MODULE EdgeAgentProofs --------------------------
(***************************************************************************)
(* Proofs about the edge agent: the probe, for recorders of any number of  *)
(* channels and any number of events on the attach stream; the eviction of *)
(* the outbox, for any spool and quota; the attach stream, for any number  *)
(* of parts, any chunks and any size of the buffer.                        *)
(***************************************************************************)
EXTENDS EdgeAgent, WellFoundedInduction, SequenceTheorems, TLAPS

(***************************************************************************)
(* Least and greatest numbers.                                             *)
(***************************************************************************)

\* A set of natural numbers has a least one, which is its Min.
LEMMA Least ==
  ASSUME NEW S, S \subseteq Nat, S # {}
  PROVE  Min(S) \in S /\ \A y \in S : Min(S) <= y
<1>1. PICK x \in S : \A y \in S : <<y, x>> \notin OpToRel(<, Nat)
  BY WFMin, NatLessThanWellFounded
<1>2. ASSUME NEW y \in S
      PROVE  x <= y
  <2>1. x \in Nat /\ y \in Nat
    OBVIOUS
  <2>2. y < x => <<y, x>> \in OpToRel(<, Nat)
    BY <2>1 DEF OpToRel
  <2>3. ~(y < x)
    BY <1>1, <2>2
  <2> QED BY <2>1, <2>3
<1> QED
  BY <1>2 DEF Min

\* One with an upper bound has a greatest one, which is its Max.
LEMMA Greatest ==
  ASSUME NEW S, NEW n \in Nat, S \subseteq 0..n, S # {}
  PROVE  Max(S) \in S /\ \A y \in S : Max(S) >= y
<1> DEFINE T == {n - x : x \in S}
<1>1. T \subseteq Nat /\ T # {}
  <2>1. \A x \in S : n - x \in Nat
    OBVIOUS
  <2> QED BY <2>1
<1>2. PICK t \in T : \A y \in T : t <= y
  BY <1>1, Least
<1>3. PICK x \in S : t = n - x
  BY <1>2
<1>4. ASSUME NEW y \in S
      PROVE  x >= y
  <2>1. n - x <= n - y
    BY <1>2, <1>3
  <2> QED BY <2>1
<1> QED
  BY <1>4 DEF Max

(***************************************************************************)
(* The inductive invariant.                                                *)
(***************************************************************************)
Fields ==
    {"reachable", "digest_auth", "snapshot", "rtsp", "rtsp_playback", "event_stream",
     "smart_motion_human", "smart_motion_vehicle", "snapshot_channel_base", "event_index_base",
     "count", "snapshot_ok", "rtsp_ok", "observed", "errors"}

Stages == {"tcp", "auth", "identity", "snapshots", "rtsp", "listen", "index", "playback", "done"}

ProbeTypeOK ==
    /\ truth \in Truth
    /\ options \in Options
    /\ stage \in Stages
    /\ DOMAIN report = Fields
    /\ report.snapshot_channel_base \in {0, 1, NoBase}
    /\ report.count \in {0, ChannelCount}
    /\ seen \subseteq Events

\* A base is reported only for a picture that was seen.
BaseHasPicture ==
    LET base == report.snapshot_channel_base IN base # NoBase => Picture(base)

\* Once a step is behind, it has done its part or left an error; before the
\* attach stream is opened nothing is listed.
StepsAreDone ==
    /\ stage \in {"tcp", "auth", "identity", "snapshots", "rtsp", "listen"} => report.observed = {}
    /\ stage \in {"rtsp", "listen", "index", "playback", "done"} /\ report.errors = {} =>
           report.snapshot_channel_base # NoBase
    /\ stage \in {"index", "playback", "done"} /\ report.errors = {} => Human \in Codes(seen)

\* The listed events are some that came.
ListedWasSeen == report.observed \subseteq seen \ {Heartbeat}

\* The base of the indices is the recorder's, but for what ChannelsAreRight names.
IndexIsSure == IF Triggered THEN ~Strays ELSE report.count # 0 /\ ~Others

IndexBaseIsRight ==
    /\ stage \notin {"playback", "done"} => report.event_index_base = NoBase
    /\ report.event_index_base # NoBase /\ IndexIsSure => report.event_index_base = truth.index_base

ProbeInv == ProbeTypeOK /\ BaseHasPicture /\ StepsAreDone /\ ListedWasSeen /\ IndexBaseIsRight

\* The events that say how the recorder numbers its channels.
LEMMA MotionIndices ==
  ASSUME ProbeTypeOK, ListedWasSeen, ~Others, NEW e \in report.observed, e.index # NoIndex
  PROVE  /\ e.index \in Int /\ e.index >= truth.index_base
         /\ e.index <= ChannelCount - 1 + truth.index_base
<1>1. truth.index_base \in {0, 1} /\ ChannelCount \in Nat /\ ChannelCount > 0
  BY ProbeAssumption DEF ProbeTypeOK, Truth
<1>2. e \in Events /\ e # Heartbeat /\ e.code # "AlarmLocal"
  BY DEF ListedWasSeen, ProbeTypeOK, Others
<1>3. PICK code \in Smd \cup {"VideoMotion"}, c \in Channels : e = Event(code, c)
  BY <1>2 DEF Events
<1>4. e.index = c - 1 + truth.index_base /\ c \in Int /\ 1 <= c /\ c <= ChannelCount
  BY <1>1, <1>3 DEF Event, Channels
<1> QED BY <1>1, <1>4

\* What ResolvedIndexBase finds is the recorder's base.
LEMMA ResolvedIsTrue ==
  ASSUME ProbeTypeOK, ListedWasSeen, ResolvedIndexBase # NoBase, IndexIsSure
  PROVE  ResolvedIndexBase = truth.index_base
<1> DEFINE indices == {e.index : e \in report.observed} \ {NoIndex}
           smd == {e.index : e \in {f \in report.observed : f.code \in Smd}}
           base == truth.index_base
           trigger == options.trigger_channel
<1>1. base \in {0, 1} /\ trigger \in Channels \cup {0} /\ report.count \in {0, ChannelCount}
  BY DEF ProbeTypeOK, Truth, Options
<1>2. ChannelCount \in Nat /\ ChannelCount > 0
  BY ProbeAssumption
<1>3. Triggered <=> trigger # 0 /\ smd # {}
  BY DEF Triggered
<1>5. CASE indices = {}
  BY <1>5 DEF ResolvedIndexBase
<1>6. CASE indices # {} /\ Triggered
  <2>0. ~Strays /\ trigger # 0 /\ smd # {}
    BY <1>3, <1>6 DEF IndexIsSure
  <2>1. ASSUME NEW x \in smd
        PROVE  x = trigger - 1 + base
    <3>1. PICK e \in report.observed : e.code \in Smd /\ x = e.index
      OBVIOUS
    <3>2. e = Event(e.code, trigger)
      BY <2>0, <3>1 DEF Strays
    <3> QED BY <3>1, <3>2 DEF Event
  <2>2. Min(smd) = trigger - 1 + base
    <3>1. smd = {trigger - 1 + base}
      BY <2>0, <2>1
    <3>2. trigger - 1 + base \in Int
      BY <1>1, <1>2 DEF Channels
    <3>3. \A v \in Int : Min({v}) = v
      BY DEF Min
    <3> QED BY <3>1, <3>2, <3>3
  <2>3. ResolvedIndexBase = Min(smd) - (trigger - 1)
    BY <1>6, <2>0 DEF ResolvedIndexBase
  <2>4. trigger \in Int
    BY <1>1, <1>2 DEF Channels
  <2> QED BY <1>1, <2>2, <2>3, <2>4
<1>7. CASE indices # {} /\ ~Triggered
  <2>0. report.count = ChannelCount /\ ~Others /\ ~(trigger # 0 /\ smd # {})
    BY <1>1, <1>3, <1>7 DEF IndexIsSure
  <2>1. ResolvedIndexBase = IF Min(indices) = 0 THEN 0
                            ELSE IF Min(indices) = 1 /\ Max(indices) >= ChannelCount THEN 1 ELSE NoBase
    BY <1>7, <2>0 DEF ResolvedIndexBase
  <2>2. \A x \in indices : x \in Int /\ x >= base /\ x <= ChannelCount - 1 + base
    BY <2>0, MotionIndices
  <2>3. indices \subseteq 0..ChannelCount /\ indices \subseteq Nat
    <3> HIDE DEF indices
    <3>1. \A x \in indices : x \in Nat /\ x <= ChannelCount
      BY <1>1, <1>2, <2>2
    <3> QED BY <1>2, <3>1
  <2>4. Min(indices) \in indices /\ Max(indices) \in indices
    BY <1>2, <1>7, <2>3, Least, Greatest
  <2>5. /\ Min(indices) \in Int /\ Min(indices) >= base
        /\ Max(indices) \in Int /\ Max(indices) <= ChannelCount - 1 + base
    BY <2>2, <2>4
  <2> HIDE DEF indices
  <2> QED BY <1>1, <1>2, <2>1, <2>5
<1> QED
  BY <1>5, <1>6, <1>7

\* What a step does not touch stays as it was.
LEMMA StepKeeps ==
  ASSUME ProbeInv, UNCHANGED <<truth, options>>, stage' \in Stages, DOMAIN report' = Fields,
         report'.count \in {0, ChannelCount},
         report'.event_index_base = report.event_index_base,
         report'.event_index_base # NoBase => report'.count = report.count,
         report.event_index_base # NoBase => report'.observed = report.observed,
         stage' \notin {"playback", "done"} => report.event_index_base = NoBase,
         seen' \subseteq Events,
         report'.observed \subseteq seen' \ {Heartbeat},
         report'.snapshot_channel_base \in {0, 1, NoBase},
         report'.snapshot_channel_base # NoBase => Picture(report'.snapshot_channel_base),
         StepsAreDone'
  PROVE  ProbeInv'
<1>1. ProbeTypeOK'
  <2>1. Events' = Events
    BY DEF Events, Event, Heartbeat, NoIndex
  <2> QED BY <2>1 DEF ProbeInv, ProbeTypeOK
<1>2. BaseHasPicture'
  BY DEF BaseHasPicture, Picture
<1>3. ListedWasSeen'
  BY DEF ListedWasSeen, Heartbeat, NoIndex
<1>4. IndexBaseIsRight'
  <2>1. CASE report.event_index_base = NoBase
    BY <2>1 DEF IndexBaseIsRight, NoBase
  <2>2. CASE report.event_index_base # NoBase
    <3>1. /\ UNCHANGED <<truth, options>> /\ report'.count = report.count
          /\ report'.observed = report.observed
      BY <2>2
    <3>2. IndexIsSure' <=> IndexIsSure
      BY <3>1 DEF IndexIsSure, Triggered, Strays, Others, Event, Smd, Human, Vehicle, NoIndex
    <3> QED BY <2>2, <3>1, <3>2 DEF ProbeInv, IndexBaseIsRight, NoBase
  <2> QED BY <2>1, <2>2
<1> QED
  BY <1>1, <1>2, <1>3, <1>4 DEF ProbeInv

\* A step of the agent is one of the command that runs.
LEMMA OneCommandSteps ==
  ASSUME [AgentNext]_agentVars
  PROVE  [FeedNext]_feedVars /\ [ProbeNext]_probeVars /\ [OutboxNext]_outboxVars
BY DEF AgentNext, agentVars

LEMMA ProbeInvariant == AgentSpec => []ProbeInv
<1>1. ProbeInit => ProbeInv
  <2> SUFFICES ASSUME ProbeInit
               PROVE  ProbeInv
    OBVIOUS
  <2>1. ProbeTypeOK
    BY DEF ProbeInit, ProbeTypeOK, NewReport, Fields, Stages
  <2> QED BY <2>1 DEF ProbeInit, ProbeInv, BaseHasPicture, StepsAreDone, ListedWasSeen, IndexBaseIsRight,
             NewReport
<1>2. ASSUME ProbeInv, [ProbeNext]_probeVars
      PROVE  ProbeInv'
  <2>1. /\ ProbeTypeOK /\ BaseHasPicture /\ StepsAreDone /\ ListedWasSeen /\ IndexBaseIsRight
        /\ DOMAIN report = Fields
        /\ report.count \in {0, ChannelCount}
        /\ seen \subseteq Events
        /\ report.observed \subseteq seen \ {Heartbeat}
        /\ report.snapshot_channel_base \in {0, 1, NoBase}
        /\ report.snapshot_channel_base # NoBase => Picture(report.snapshot_channel_base)
        /\ stage \notin {"playback", "done"} => report.event_index_base = NoBase
    BY <1>2 DEF ProbeInv, ProbeTypeOK, BaseHasPicture, ListedWasSeen, IndexBaseIsRight
  <2>2. CASE CheckTcp
    <3>1. PICK reachable \in BOOLEAN :
              /\ stage' = IF reachable THEN "auth" ELSE "done"
              /\ report' = [report EXCEPT
                               !.reachable = from_bool(reachable),
                               !.errors = IF reachable THEN @ ELSE @ \cup {"unreachable"}]
      BY <2>2 DEF CheckTcp
    <3>2. /\ DOMAIN report' = Fields /\ report'.count = report.count
          /\ report'.event_index_base = report.event_index_base /\ report'.observed = report.observed
          /\ report'.snapshot_channel_base = report.snapshot_channel_base
          /\ report'.errors = IF reachable THEN report.errors ELSE report.errors \cup {"unreachable"}
      BY <2>1, <3>1 DEF Fields
    <3>3. stage = "tcp"
      BY <2>2 DEF CheckTcp, At
    <3>4. StepsAreDone' /\ stage' \in Stages
      BY <2>1, <3>1, <3>2, <3>3 DEF StepsAreDone, Stages
    <3> QED BY <1>2, <2>1, <2>2, <3>2, <3>3, <3>4, StepKeeps DEF CheckTcp, At
  <2>3. CASE DigestAuth
    <3>1. PICK answer \in Capability :
              /\ stage' = IF answer = "UNSUPPORTED" THEN "done" ELSE "identity"
              /\ report' = [report EXCEPT
                               !.digest_auth = answer,
                               !.errors = IF answer = "UNSUPPORTED" THEN @ \cup {"auth"} ELSE @]
      BY <2>3 DEF DigestAuth
    <3>2. /\ DOMAIN report' = Fields /\ report'.count = report.count
          /\ report'.event_index_base = report.event_index_base /\ report'.observed = report.observed
          /\ report'.snapshot_channel_base = report.snapshot_channel_base
          /\ report'.errors = IF answer = "UNSUPPORTED" THEN report.errors \cup {"auth"} ELSE report.errors
      BY <2>1, <3>1 DEF Fields
    <3>3. stage = "auth"
      BY <2>3 DEF DigestAuth, At
    <3>4. StepsAreDone' /\ stage' \in Stages
      BY <2>1, <3>1, <3>2, <3>3 DEF StepsAreDone, Stages
    <3> QED BY <1>2, <2>1, <2>3, <3>2, <3>3, <3>4, StepKeeps DEF DigestAuth, At
  <2>4. CASE Identity
    <3>1. PICK count \in {0, ChannelCount}, clock \in {"read", "unread", "skewed"} :
              report' = [report EXCEPT
                            !.count = count,
                            !.errors = IF clock = "skewed" THEN @ \cup {"clock"} ELSE @]
      BY <2>4 DEF Identity
    <3>2. /\ DOMAIN report' = Fields /\ report'.count = count
          /\ report'.event_index_base = report.event_index_base /\ report'.observed = report.observed
          /\ report'.snapshot_channel_base = report.snapshot_channel_base
      BY <2>1, <3>1 DEF Fields
    <3>3. stage = "identity" /\ stage' = "snapshots" /\ stage' \in Stages
      BY <2>4 DEF Identity, At, Stages
    <3>4. StepsAreDone'
      BY <2>1, <3>2, <3>3 DEF StepsAreDone
    <3> QED BY <1>2, <2>1, <2>4, <3>2, <3>3, <3>4, StepKeeps DEF Identity, At
  <2>5. CASE ProbeSnapshots
    <3>1. PICK first \in Tries(1), second \in Tries(0), answered \in SUBSET Channels :
              LET base == DetectsBase(first, second)
              IN  report' =
                      IF base = NoBase
                      THEN [report EXCEPT !.snapshot = "UNSUPPORTED", !.errors = @ \cup {"snapshot"}]
                      ELSE [report EXCEPT !.snapshot = "SUPPORTED",
                                          !.snapshot_channel_base = base,
                                          !.snapshot_ok = answered]
      BY <2>5 DEF ProbeSnapshots
    <3> DEFINE base == DetectsBase(first, second)
    <3>2. base \in {0, 1, NoBase} /\ (base # NoBase => Picture(base))
      BY DEF DetectsBase, Tries
    <3> HIDE DEF base
    <3>3. /\ DOMAIN report' = Fields /\ report'.count = report.count
          /\ report'.event_index_base = report.event_index_base /\ report'.observed = report.observed
          /\ base # NoBase => report'.snapshot_channel_base = base
          /\ base = NoBase => /\ report'.errors # {}
                              /\ report'.snapshot_channel_base = report.snapshot_channel_base
      BY <2>1, <3>1 DEF Fields, base
    <3>4. stage = "snapshots" /\ stage' = "rtsp" /\ stage' \in Stages
      BY <2>5 DEF ProbeSnapshots, At, Stages
    <3>5. StepsAreDone'
      BY <2>1, <3>3, <3>4 DEF StepsAreDone
    <3> QED BY <1>2, <2>1, <2>5, <3>2, <3>3, <3>4, <3>5, StepKeeps DEF ProbeSnapshots, At
  <2>6. CASE ProbeRtsp
    <3>1. /\ DOMAIN report' = Fields /\ report'.count = report.count
          /\ report'.event_index_base = report.event_index_base /\ report'.observed = report.observed
          /\ report'.snapshot_channel_base = report.snapshot_channel_base
          /\ report'.errors = report.errors
      BY <2>1, <2>6 DEF ProbeRtsp, Fields
    <3>2. stage = "rtsp" /\ stage' = "listen" /\ stage' \in Stages /\ seen' = seen
      BY <2>6 DEF ProbeRtsp, At, Stages
    <3>3. StepsAreDone'
      BY <2>1, <3>1, <3>2 DEF StepsAreDone
    <3> QED BY <1>2, <2>1, <2>6, <3>1, <3>2, <3>3, StepKeeps DEF ProbeRtsp, At
  <2>7. CASE Listen
    <3>1. seen' \subseteq Events
      BY <2>7 DEF Listen, kSubset
    <3>2. PICK listed \in SUBSET (seen' \ {Heartbeat}) :
              report' =
                  IF seen' = {}
                  THEN [report EXCEPT !.event_stream = "UNSUPPORTED", !.errors = @ \cup {"stream"}]
                  ELSE [report EXCEPT
                           !.event_stream = "SUPPORTED",
                           !.smart_motion_human = from_bool(Human \in Codes(seen')),
                           !.smart_motion_vehicle = from_bool(Vehicle \in Codes(seen')),
                           !.observed = listed,
                           !.errors = IF Blocked(Codes(seen')) THEN @ \cup {"human"} ELSE @]
      BY <2>7 DEF Listen
    <3>3. /\ DOMAIN report' = Fields /\ report'.count = report.count
          /\ report'.event_index_base = report.event_index_base
          /\ report'.snapshot_channel_base = report.snapshot_channel_base
      BY <2>1, <3>2 DEF Fields
    <3>4. stage = "listen" /\ stage' = "index" /\ stage' \in Stages
      BY <2>7 DEF Listen, At, Stages
    <3>5. CASE seen' = {}
      <4>1. report'.observed = report.observed /\ report'.errors = report.errors \cup {"stream"}
        BY <2>1, <3>2, <3>5 DEF Fields
      <4>2. report.observed = {}
        BY <2>1, <3>4 DEF StepsAreDone
      <4>3. StepsAreDone'
        BY <3>4, <4>1 DEF StepsAreDone
      <4> QED BY <1>2, <2>1, <2>7, <3>1, <3>3, <3>4, <4>1, <4>2, <4>3, StepKeeps DEF Listen, At
    <3>6. CASE seen' # {}
      <4>1. /\ report'.observed = listed
            /\ report'.errors = IF Blocked(Codes(seen')) THEN report.errors \cup {"human"} ELSE report.errors
        BY <2>1, <3>2, <3>6 DEF Fields
      <4>2. report'.errors = {} => report.errors = {} /\ Human \in Codes(seen')
        BY <4>1 DEF Blocked
      <4>3. StepsAreDone'
        BY <2>1, <3>3, <3>4, <4>2 DEF StepsAreDone, Codes
      <4> QED BY <1>2, <2>1, <2>7, <3>1, <3>3, <3>4, <4>1, <4>3, StepKeeps DEF Listen, At
    <3> QED BY <3>5, <3>6
  <2>8. CASE ResolveIndexBase
    <3>1. /\ DOMAIN report' = Fields /\ report'.count = report.count
          /\ report'.event_index_base = ResolvedIndexBase /\ report'.observed = report.observed
          /\ report'.snapshot_channel_base = report.snapshot_channel_base
          /\ report'.errors = report.errors
      BY <2>1, <2>8 DEF ResolveIndexBase, Fields
    <3>2. stage = "index" /\ stage' = "playback" /\ UNCHANGED <<truth, options, seen>>
      BY <2>8 DEF ResolveIndexBase, At
    <3>3. ProbeTypeOK' /\ BaseHasPicture' /\ StepsAreDone' /\ ListedWasSeen'
      <4>1. Events' = Events
        BY <3>2 DEF Events, Event, Heartbeat, NoIndex
      <4>2. ProbeTypeOK'
        BY <2>1, <3>1, <3>2, <4>1 DEF ProbeTypeOK, Stages
      <4>3. BaseHasPicture' /\ ListedWasSeen'
        BY <2>1, <3>1, <3>2 DEF BaseHasPicture, Picture, ListedWasSeen, Heartbeat, NoIndex
      <4>4. StepsAreDone'
        BY <2>1, <3>1, <3>2 DEF StepsAreDone, Codes
      <4> QED BY <4>2, <4>3, <4>4
    <3>4. IndexIsSure' <=> IndexIsSure
      BY <3>1, <3>2 DEF IndexIsSure, Triggered, Strays, Others, Event, Smd, Human, Vehicle, NoIndex
    <3>5. IndexBaseIsRight'
      BY <2>1, <3>1, <3>2, <3>4, ResolvedIsTrue DEF IndexBaseIsRight, NoBase
    <3> QED BY <3>3, <3>5 DEF ProbeInv
  <2>9. CASE ProbePlayback
    <3>1. /\ DOMAIN report' = Fields /\ report'.count = report.count
          /\ report'.event_index_base = report.event_index_base /\ report'.observed = report.observed
          /\ report'.snapshot_channel_base = report.snapshot_channel_base
          /\ report'.errors = report.errors
      BY <2>1, <2>9 DEF ProbePlayback, Fields
    <3>2. stage = "playback" /\ stage' = "done" /\ stage' \in Stages /\ seen' = seen
      BY <2>9 DEF ProbePlayback, At, Stages
    <3>3. StepsAreDone'
      BY <2>1, <3>1, <3>2 DEF StepsAreDone, Codes
    <3> QED BY <1>2, <2>1, <2>9, <3>1, <3>2, <3>3, StepKeeps DEF ProbePlayback, At
  <2>10. CASE UNCHANGED probeVars
    BY <1>2, <2>10 DEF probeVars, ProbeInv, ProbeTypeOK, BaseHasPicture, StepsAreDone, ListedWasSeen,
       IndexBaseIsRight, IndexIsSure, Triggered, Strays, Others, Events, Event, Picture, Heartbeat,
       NoIndex, Codes
  <2> QED
    BY <1>2, <2>2, <2>3, <2>4, <2>5, <2>6, <2>7, <2>8, <2>9, <2>10 DEF ProbeNext
<1> QED
  BY <1>1, <1>2, OneCommandSteps, PTL DEF AgentSpec, AgentInit

\* A recorder that passes was heard and understood (the verdict of run_probe).
THEOREM PassMeansHeard == AgentSpec => []PassIsEarned
<1>1. ProbeInv => PassIsEarned
  <2> SUFFICES ASSUME ProbeInv, stage = "done", report.errors = {}
               PROVE  /\ Human \in Codes(seen)
                      /\ Picture(vendor_snapshot_channel(1, Mapping.snapshot_base))
    BY DEF PassIsEarned, Verdict
  <2>1. /\ Human \in Codes(seen) /\ report.snapshot_channel_base # NoBase
        /\ report.snapshot_channel_base \in {0, 1} /\ Picture(report.snapshot_channel_base)
    BY DEF ProbeInv, StepsAreDone, BaseHasPicture, ProbeTypeOK
  <2>2. vendor_snapshot_channel(1, Mapping.snapshot_base) = report.snapshot_channel_base
    BY <2>1 DEF vendor_snapshot_channel, Mapping
  <2> QED BY <2>1, <2>2
<1> QED
  BY <1>1, ProbeInvariant, PTL

\* The bases are "never a guess", but for the cases ChannelsAreRight names
\* (detect_snapshot_channel_base, _resolve_index_base).
THEOREM BasesAreTrue == AgentSpec => []ChannelsAreRight
<1>1. ProbeInv => ChannelsAreRight
  <2> SUFFICES ASSUME ProbeInv
               PROVE  ChannelsAreRight
    OBVIOUS
  <2>1. /\ truth.snapshot_base \in {0, 1} /\ truth.index_base \in {0, 1} /\ truth.cameras \subseteq Channels
        /\ report.snapshot_channel_base \in {0, 1, NoBase}
        /\ report.snapshot_channel_base # NoBase => Picture(report.snapshot_channel_base)
    BY DEF ProbeInv, ProbeTypeOK, Truth, BaseHasPicture
  <2>2. ASSUME report.snapshot_channel_base # NoBase, ~(truth.snapshot_base = 0 /\ Picture(1))
        PROVE  Mapping.snapshot_base = truth.snapshot_base
    <3>1. 0 \notin truth.cameras
      BY <2>1, ProbeAssumption DEF Channels
    <3>2. report.snapshot_channel_base = 0 => truth.snapshot_base = 0
      BY <2>1, <2>2, <3>1 DEF Picture
    <3>3. Mapping.snapshot_base = report.snapshot_channel_base
      BY <2>2 DEF Mapping
    <3> QED BY <2>1, <2>2, <3>2, <3>3
  <2>3. ASSUME report.event_index_base # NoBase, IndexIsSure, NEW c \in Channels
        PROVE  logical_channel(Event(Human, c).index) = c
    <3>1. report.event_index_base = truth.index_base
      BY <2>3 DEF ProbeInv, IndexBaseIsRight
    <3>2. Mapping.event_index_base = truth.index_base /\ Event(Human, c).index = c - 1 + truth.index_base
      BY <2>3, <3>1 DEF Mapping, Event
    <3>3. c \in Int
      BY ProbeAssumption DEF Channels
    <3> QED BY <2>1, <3>2, <3>3 DEF logical_channel
  <2> QED BY <2>2, <2>3 DEF ChannelsAreRight, IndexIsSure
<1> QED
  BY <1>1, ProbeInvariant, PTL

(***************************************************************************)
(* The spool of the outbox.                                                *)
(***************************************************************************)

\* Media have numbers of their own, up to the last one created.  What an eviction
\* has not come to is all there is, and too much.
MediaInv ==
    /\ created \in 0..MaxMedia
    /\ media \subseteq Medium
    /\ \A m \in media : m.id <= created
    /\ \A m, n \in media : m.id = n.id => m = n
    /\ rows # {} => rows = media /\ ~Fits(rows)

LEMMA MediaInvariant == AgentSpec => []MediaInv
<1>1. OutboxInit => MediaInv
  BY OutboxAssumption DEF OutboxInit, MediaInv
<1>2. ASSUME MediaInv, [OutboxNext]_outboxVars
      PROVE  MediaInv'
  <2>1. CASE enqueue_media
    <3>1. PICK m \in Medium : m.id = created + 1 /\ media' = media \cup {m}
      BY <2>1 DEF enqueue_media
    <3> QED BY <1>2, <2>1, <3>1, OutboxAssumption DEF MediaInv, enqueue_media, Free, Medium
  <2>2. CASE evict_media
    BY <1>2, <2>2 DEF MediaInv, evict_media
  <2>3. CASE EvictRow
    BY <1>2, <2>3 DEF MediaInv, EvictRow
  <2>4. CASE Crash
    BY <1>2, <2>4 DEF MediaInv, Crash
  <2>5. CASE UNCHANGED <<media, rows, created>>
    BY <1>2, <2>5 DEF MediaInv
  <2>6. \/ enqueue_media \/ evict_media \/ EvictRow \/ Crash \/ UNCHANGED <<media, rows, created>>
    BY <1>2 DEF OutboxNext, ClaimSelect, ClaimUpdate, enqueue_event, RetryComesDue, mark_event,
       outboxVars
  <2> QED BY <2>1, <2>2, <2>3, <2>4, <2>5, <2>6
<1> QED
  BY <1>1, <1>2, OneCommandSteps, PTL DEF AgentSpec, AgentInit

\* An empty spool fits.
LEMMA NothingFits == Fits({})
<1> DEFINE Pick(s) == CHOOSE x \in s : TRUE
           Sums(f) == f = [s \in SUBSET {} |-> IF s = {} THEN 0
                                               ELSE Pick(s).size_bytes + f[s \ {Pick(s)}]]
           g == [s \in SUBSET {} |-> 0]
<1>1. Sums(g)
  OBVIOUS
<1>2. Sums(CHOOSE f : Sums(f))
  <2> HIDE DEF Sums, g
  <2> QED BY <1>1
<1>3. spool_bytes({}) = (CHOOSE f : Sums(f))[{}]
  BY DEF spool_bytes, MapThenSumSet, MapThenFoldSet
<1>4. spool_bytes({}) = 0
  BY <1>2, <1>3
<1> QED
  BY <1>4, OutboxAssumption DEF Fits

\* Every DELETE of an eviction takes the file that matters least, and none once the
\* rest fits; the last one leaves a spool that fits (SqliteOutbox.evict_media).
THEOREM LeastIsEvicted == AgentSpec => EvictsTheLeast
<1> DEFINE Deserved(gone) ==
               /\ ~Fits(media)
               /\ \A kept \in media' : \/ kept.priority < gone.priority
                                       \/ kept.priority = gone.priority /\ kept.id > gone.id
           Right ==
               /\ \A gone \in media \ media' : Deserved(gone)
               /\ rows # {} /\ rows' = {} /\ crashes' = crashes => Fits(media')
<1>1. ASSUME MediaInv, EvictRow
      PROVE  Right
  <2>1. PICK m \in rows : /\ \A n \in rows \ {m} : GoesBefore(m, n)
                          /\ media' = media \ {m}
                          /\ rows' = IF Fits(rows \ {m}) THEN {} ELSE rows \ {m}
    BY <1>1 DEF EvictRow
  <2>2. rows = media /\ ~Fits(media)
    BY <1>1, <2>1 DEF MediaInv
  <2>3. \A n \in media : n.priority \in Int /\ n.id \in Int
    BY <1>1, OutboxAssumption DEF MediaInv, Medium
  <2>4. ASSUME NEW kept \in media'
        PROVE  \/ kept.priority < m.priority
               \/ kept.priority = m.priority /\ kept.id > m.id
    <3>1. GoesBefore(m, kept) /\ kept \in media /\ m \in media
      BY <2>1, <2>2, <2>4
    <3> QED BY <2>3, <3>1 DEF GoesBefore
  <2>5. rows' = {} => Fits(media')
    <3>1. CASE Fits(rows \ {m})
      BY <2>1, <2>2, <3>1
    <3>2. CASE ~Fits(rows \ {m})
      BY <2>1, <2>2, <3>2, NothingFits
    <3> QED BY <3>1, <3>2
  <2>6. \A gone \in media \ media' : gone = m
    BY <2>1
  <2> QED BY <2>2, <2>4, <2>5, <2>6
<1>2. ASSUME MediaInv, [AgentNext]_agentVars
      PROVE  [Right]_<<media, rows>>
  <2>1. [OutboxNext]_outboxVars
    BY <1>2, OneCommandSteps
  <2>2. \/ enqueue_media \/ evict_media \/ EvictRow \/ Crash \/ UNCHANGED <<media, rows>>
    BY <2>1 DEF OutboxNext, ClaimSelect, ClaimUpdate, enqueue_event, RetryComesDue, mark_event,
       outboxVars
  <2>3. CASE enqueue_media
    BY <2>3 DEF enqueue_media, Free
  <2>4. CASE evict_media
    BY <2>4 DEF evict_media, Free
  <2>5. CASE Crash
    <3>1. media' = media /\ crashes' # crashes
      BY <2>5, OutboxAssumption DEF Crash
    <3> QED BY <3>1
  <2> HIDE DEF Right
  <2> QED BY <1>1, <1>2, <2>2, <2>3, <2>4, <2>5
<1> QED
  BY <1>2, MediaInvariant, PTL DEF AgentSpec, EvictsTheLeast

(***************************************************************************)
(* The attach stream.  A connection brings a stream of tokens, of which n  *)
(* have arrived and the first pos are off the parser's buffer.             *)
(***************************************************************************)
Kinds == {"boundary", "length", "type", "blank", "code", "data", "text"}
Token == Kinds \X Nat
Ends == {"data", "text"}

\* The token t that a recorder sends after s, if it sends format f and its
\* heartbeats are the parts B.
Follows(f, B, s, t) ==
    /\ t[2] = IF s[1] \in Ends THEN s[2] + 1 ELSE s[2]
    /\ s[1] = "boundary" => t[1] = IF f = "open" THEN "type" ELSE "length"
    /\ s[1] \in {"length", "type"} /\ f # "bare" => t[1] = "blank"
    /\ s[1] = "blank" \/ (s[1] \in {"length", "type"} /\ f = "bare") =>
           t[1] = IF s[2] \in B THEN "text" ELSE "code"
    /\ s[1] = "code" => t[1] = "data"
    /\ s[1] \in Ends => t[1] = "boundary"

\* Whole parts, from the beginning of one on.
IsStream(S) ==
    /\ S \in Seq(Token)
    /\ S # <<>> => S[1][1] = "boundary" /\ S[Len(S)][1] \in Ends
    /\ \A i \in 1..Len(S) - 1 : Follows(format, beats, S[i], S[i + 1])

LEMMA TokenOfStream ==
  ASSUME NEW S, IsStream(S), NEW i \in 1..Len(S)
  PROVE  /\ Len(S) \in Nat /\ S[i] \in Token
         /\ S[i][1] \in Kinds /\ S[i][2] \in Nat /\ S[i] = <<S[i][1], S[i][2]>>
<1>1. Len(S) \in Nat /\ S[i] \in Token
  BY ElementOfSeq, LenProperties DEF IsStream
<1> QED
  BY <1>1 DEF Token

\* The token after another one.
LEMMA NextToken ==
  ASSUME NEW S, IsStream(S), NEW i \in 1..Len(S), S[i][1] \notin Ends \/ i < Len(S)
  PROVE  i + 1 \in 1..Len(S) /\ Follows(format, beats, S[i], S[i + 1])
<1>1. Len(S) \in Nat
  BY TokenOfStream
<1>2. S # <<>>
  BY <1>1
<1>3. i < Len(S)
  BY <1>1, <1>2 DEF IsStream
<1> QED
  BY <1>1, <1>3 DEF IsStream

\* The token before another one.
LEMMA TokenBefore ==
  ASSUME NEW S, IsStream(S), format \in Formats, NEW i \in 1..Len(S), S[i][1] # "boundary"
  PROVE  /\ i - 1 \in 1..Len(S) /\ S[i - 1][2] = S[i][2]
         /\ S[i][1] = "length" => format # "open"
         /\ S[i][1] = "blank" => /\ S[i - 1][1] \in {"length", "type"}
                                 /\ format = "length" => S[i - 1][1] = "length"
                                 /\ format # "bare"
         /\ S[i][1] = "code" => S[i - 1][1] \notin Ends /\ (format = "length" => S[i - 1][1] = "blank")
         /\ S[i][1] = "data" => S[i - 1][1] = "code"
<1>1. Len(S) \in Nat
  BY TokenOfStream
<1>2. S # <<>>
  BY <1>1
<1>3. i # 1
  BY <1>2 DEF IsStream
<1>4. i - 1 \in 1..Len(S) /\ i - 1 \in 1..Len(S) - 1 /\ (i - 1) + 1 = i
  BY <1>1, <1>3
<1>5. Follows(format, beats, S[i - 1], S[i])
  BY <1>4 DEF IsStream
<1>6. S[i - 1][1] \in Kinds
  BY <1>4, TokenOfStream
<1>7. format \in {"length", "open", "bare"}
  BY DEF Formats
<1> DEFINE a == S[i - 1][1]
           b == S[i][1]
<1>8. CASE a = "boundary"
  BY <1>4, <1>5, <1>8 DEF Follows, Ends
<1>9. CASE a = "length" \/ a = "type"
  <2>1. a = "type" => format = "open"
    <3>1. ASSUME a = "type"
          PROVE  format = "open"
      <4>1. i - 1 # 1
        BY <1>2, <3>1 DEF IsStream
      <4>2. i - 2 \in 1..Len(S) - 1 /\ (i - 2) + 1 = i - 1 /\ i - 2 \in 1..Len(S)
        BY <1>1, <1>4, <4>1
      <4>3. Follows(format, beats, S[i - 2], S[i - 1]) /\ S[i - 2][1] \in Kinds
        BY <4>2, TokenOfStream DEF IsStream
      <4> QED BY <3>1, <4>3 DEF Follows, Kinds, Ends
    <3> QED BY <3>1
  <2>2. CASE format = "bare"
    BY <1>4, <1>5, <1>7, <1>9, <2>1, <2>2 DEF Follows, Ends
  <2>3. CASE format # "bare"
    BY <1>4, <1>5, <1>7, <1>9, <2>1, <2>3 DEF Follows, Ends
  <2> QED BY <2>2, <2>3
<1>10. CASE a = "blank"
  BY <1>4, <1>5, <1>10 DEF Follows, Ends
<1>11. CASE a = "code"
  BY <1>4, <1>5, <1>11 DEF Follows, Ends
<1>12. CASE a \in Ends
  BY <1>4, <1>5, <1>12 DEF Follows, Ends
<1> QED
  BY <1>6, <1>8, <1>9, <1>10, <1>11, <1>12 DEF Kinds, Ends

\* Parts come one after the other.
LEMMA PartsGrow ==
  ASSUME NEW S, IsStream(S), NEW i \in 1..Len(S), NEW j \in 1..Len(S), i <= j
  PROVE  S[i][2] <= S[j][2]
<1>1. Len(S) \in Nat /\ \A k \in 1..Len(S) : S[k][2] \in Nat
  BY TokenOfStream
<1> DEFINE Bad == {k \in i..Len(S) : ~(S[i][2] <= S[k][2])}
<1>2. ASSUME Bad # {}
      PROVE  FALSE
  <2>1. Bad \subseteq Nat
    BY <1>1
  <2>2. PICK k \in Bad : \A l \in Bad : k <= l
    BY <1>2, <2>1, Least
  <2>3. k # i
    BY <1>1, <2>2
  <2>4. k - 1 \in i..Len(S) /\ k - 1 \notin Bad /\ k - 1 \in 1..Len(S) - 1 /\ (k - 1) + 1 = k
    BY <1>1, <2>2, <2>3
  <2>5. S[i][2] <= S[k - 1][2]
    BY <2>4
  <2>6. Follows(format, beats, S[k - 1], S[k])
    BY <2>4 DEF IsStream
  <2>7. S[k][2] = S[k - 1][2] \/ S[k][2] = S[k - 1][2] + 1
    BY <2>6 DEF Follows
  <2>8. k \in 1..Len(S) /\ k - 1 \in 1..Len(S)
    BY <1>1, <2>2, <2>4
  <2>9. S[k][2] \in Nat /\ S[k - 1][2] \in Nat /\ S[i][2] \in Nat
    BY <1>1, <2>8
  <2>10. ~(S[i][2] <= S[k][2])
    BY <2>2
  <2> QED BY <2>5, <2>7, <2>9, <2>10
<1> QED
  BY <1>1, <1>2

\* Part of a part of a sequence.
LEMMA PartOfPart ==
  ASSUME NEW T, NEW S \in Seq(T), NEW a \in Nat, NEW n \in Nat, a <= n, n <= Len(S),
         NEW i \in Nat, NEW k \in Nat, 1 <= i, i <= k + 1, k <= n - a
  PROVE  /\ SubSeq(SubSeq(S, a + 1, n), i, k) = SubSeq(S, a + i, a + k)
         /\ Len(SubSeq(S, a + 1, n)) = n - a
         /\ \A j \in 1..n - a : SubSeq(S, a + 1, n)[j] = S[a + j]
<1>1. Len(S) \in Nat /\ \A j \in 1..Len(S) : S[j] \in T
  BY LenProperties, ElementOfSeq
<1> DEFINE B == SubSeq(S, a + 1, n)
<1>2. /\ B \in Seq(T) /\ Len(B) = n - a
      /\ \A j \in 1..n - a : B[j] = S[a + j]
  <2>1. \A j \in a + 1..n : S[j] \in T
    BY <1>1
  <2>2. /\ B \in Seq(T) /\ Len(B) = IF a + 1 <= n THEN n - (a + 1) + 1 ELSE 0
        /\ \A j \in 1..n - (a + 1) + 1 : B[j] = S[a + 1 + j - 1]
    BY <2>1, SubSeqProperties
  <2> QED BY <1>1, <2>2
<1> HIDE DEF B
<1>3. \A j \in i..k : B[j] \in T
  BY <1>1, <1>2
<1>4. /\ SubSeq(B, i, k) \in Seq(T) /\ Len(SubSeq(B, i, k)) = IF i <= k THEN k - i + 1 ELSE 0
      /\ \A j \in 1..k - i + 1 : SubSeq(B, i, k)[j] = B[i + j - 1]
  BY <1>3, SubSeqProperties
<1>5. \A j \in a + i..a + k : S[j] \in T
  BY <1>1
<1>6. /\ SubSeq(S, a + i, a + k) \in Seq(T)
      /\ Len(SubSeq(S, a + i, a + k)) = IF a + i <= a + k THEN (a + k) - (a + i) + 1 ELSE 0
      /\ \A j \in 1..(a + k) - (a + i) + 1 : SubSeq(S, a + i, a + k)[j] = S[a + i + j - 1]
  BY <1>5, SubSeqProperties
<1>7. Len(SubSeq(B, i, k)) = Len(SubSeq(S, a + i, a + k))
  BY <1>4, <1>6
<1>8. ASSUME NEW j \in 1..Len(SubSeq(B, i, k))
      PROVE  SubSeq(B, i, k)[j] = SubSeq(S, a + i, a + k)[j]
  <2>1. j \in 1..k - i + 1 /\ j \in 1..(a + k) - (a + i) + 1
    BY <1>4
  <2>2. i + j - 1 \in 1..n - a /\ a + (i + j - 1) = a + i + j - 1
    BY <2>1
  <2> QED BY <1>2, <1>4, <1>6, <2>1, <2>2
<1>9. SubSeq(B, i, k) = SubSeq(S, a + i, a + k)
  BY <1>4, <1>6, <1>7, <1>8, SeqEqual
<1> QED
  BY <1>2, <1>9 DEF B

\* What is left of the buffer.
LEMMA RestOfPart ==
  ASSUME NEW T, NEW S \in Seq(T), NEW a \in Nat, NEW n \in Nat, a <= n, n <= Len(S),
         NEW i \in 1..n - a + 1
  PROVE  From(SubSeq(S, a + 1, n), i) = SubSeq(S, a + i, n)
<1>1. i \in Nat /\ n - a \in Nat /\ 1 <= i /\ i <= (n - a) + 1 /\ n - a <= n - a /\ a + (n - a) = n
  OBVIOUS
<1> DEFINE b == SubSeq(S, a + 1, n)
<1>2. Len(b) = n - a /\ SubSeq(b, i, n - a) = SubSeq(S, a + i, a + (n - a))
  BY <1>1, PartOfPart
<1> QED BY <1>1, <1>2 DEF From

\* Where the first token of a kind is in the buffer, or nowhere.
LEMMA FirstOf ==
  ASSUME NEW S \in Seq(Token), NEW a \in Nat, NEW n \in Nat, a <= n, n <= Len(S), NEW kind
  PROVE  LET k == First(kind, SubSeq(S, a + 1, n))
         IN  \/ k = 0 /\ \A j \in a + 1..n : S[j][1] # kind
             \/ k \in 1..n - a /\ S[a + k][1] = kind /\ \A j \in a + 1..a + k - 1 : S[j][1] # kind
<1> DEFINE B == SubSeq(S, a + 1, n)
           I == {j \in 1..Len(B) : B[j][1] = kind}
           k == First(kind, B)
<1>1. Len(B) = n - a /\ \A j \in 1..n - a : B[j] = S[a + j]
  BY PartOfPart
<1>2. k = IF I # {} THEN Min(I) ELSE 0
  BY DEF First, SelectInSeq
<1> HIDE DEF B, k
<1>3. CASE I = {}
  <2>1. ASSUME NEW j \in a + 1..n
        PROVE  S[j][1] # kind
    <3>1. j - a \in 1..n - a /\ a + (j - a) = j
      OBVIOUS
    <3> QED BY <1>1, <1>3, <3>1
  <2> QED BY <1>2, <1>3, <2>1 DEF k, B
<1>4. CASE I # {}
  <2>1. I \subseteq Nat
    BY <1>1
  <2>2. k \in I /\ \A y \in I : k <= y
    BY <1>2, <1>4, <2>1, Least
  <2>3. k \in 1..n - a /\ S[a + k][1] = kind
    BY <1>1, <2>2
  <2>4. ASSUME NEW j \in a + 1..a + k - 1
        PROVE  S[j][1] # kind
    <3>1. j - a \in 1..n - a /\ a + (j - a) = j /\ ~(k <= j - a)
      BY <2>3
    <3> QED BY <1>1, <2>2, <3>1
  <2> QED BY <2>3, <2>4 DEF k, B
<1> QED
  BY <1>3, <1>4

\* Newlines are skipped up to the first token that is none.
LEMMA Skips ==
  ASSUME NEW S \in Seq(Token), NEW a \in Nat, NEW n \in Nat, a <= n, n <= Len(S)
  PROVE  \E b \in a..n : /\ SkipBlank(SubSeq(S, a + 1, n)) = SubSeq(S, b + 1, n)
                         /\ \A j \in a + 1..b : S[j][1] = "blank"
                         /\ b < n => S[b + 1][1] # "blank"
<1> DEFINE B == SubSeq(S, a + 1, n)
           I == {j \in 1..Len(B) : B[j][1] # "blank"}
           i == IF I # {} THEN Min(I) ELSE 0
<1>1. Len(B) = n - a /\ \A j \in 1..n - a : B[j] = S[a + j]
  BY PartOfPart
<1>2. SkipBlank(B) = IF i = 0 THEN <<>> ELSE SubSeq(B, i, Len(B))
  BY DEF SkipBlank, SelectInSeq, From
<1>3. CASE I = {}
  <2>1. ASSUME NEW j \in a + 1..n
        PROVE  S[j][1] = "blank"
    <3>1. j - a \in 1..n - a /\ a + (j - a) = j
      OBVIOUS
    <3> HIDE DEF B
    <3>2. j - a \in 1..Len(B)
      BY <1>1, <3>1
    <3>3. B[j - a][1] = "blank"
      BY <1>3, <3>2
    <3>4. B[j - a] = S[j]
      BY <1>1, <3>1
    <3> QED BY <3>3, <3>4
  <2>2. SubSeq(S, n + 1, n) = <<>>
    BY SubSeqEmpty
  <2>3. SkipBlank(B) = SubSeq(S, n + 1, n)
    BY <1>2, <1>3, <2>2
  <2> QED BY <2>1, <2>3
<1>4. CASE I # {}
  <2> HIDE DEF B
  <2>1. I \subseteq Nat
    BY <1>1
  <2>2. i \in I /\ \A y \in I : i <= y
    BY <1>4, <2>1, Least
  <2> HIDE DEF i
  <2>3. i \in 1..n - a /\ B[i][1] # "blank" /\ B[i] = S[a + i] /\ i # 0
    BY <1>1, <2>2
  <2>4. ASSUME NEW j \in a + 1..a + i - 1
        PROVE  S[j][1] = "blank"
    <3>1. j - a \in 1..n - a /\ a + (j - a) = j /\ ~(i <= j - a)
      BY <2>3
    <3>2. j - a \notin I
      <4> HIDE DEF I
      <4> QED BY <2>2, <3>1
    <3>3. j - a \in 1..Len(B)
      BY <1>1, <3>1
    <3>4. B[j - a][1] = "blank"
      BY <3>2, <3>3
    <3>5. B[j - a] = S[j]
      BY <1>1, <3>1
    <3> QED BY <3>4, <3>5
  <2> HIDE DEF I
  <2>5. SubSeq(B, i, n - a) = SubSeq(S, a + i, n)
    <3>1. i \in Nat /\ n - a \in Nat /\ 1 <= i /\ i <= (n - a) + 1 /\ n - a <= n - a /\ a + (n - a) = n
      BY <2>3
    <3> QED BY <3>1, PartOfPart DEF B
  <2>6. SkipBlank(B) = SubSeq(S, (a + i - 1) + 1, n)
    <3>1. (a + i - 1) + 1 = a + i
      BY <2>3
    <3> QED BY <1>1, <1>2, <2>3, <2>5, <3>1
  <2>7. a + i - 1 \in a..n /\ (a + i - 1) + 1 = a + i
    BY <2>3
  <2> QED BY <2>3, <2>4, <2>6, <2>7 DEF B
<1> QED
  BY <1>3, <1>4

\* Between two bodies the parser stands at the end of a part, unless the buffer
\* was cut in the middle of one (c is the last part it was cut in).
InHeaders(S, pos, c) == pos > 0 /\ S[pos][1] \notin Ends => S[pos][2] <= c

\* In a body the parser stands at its first token and knows how long it is,
\* where the firmware says so.
Size(S, pos) == IF S[pos + 1][1] = "text" THEN 1 ELSE 2
InBody(expected, S, pos, c) ==
    /\ pos + 1 \in 1..Len(S) /\ S[pos + 1][1] \in {"code", "text"}
    /\ \/ expected = Size(S, pos) /\ format = "length"
       \/ expected = 0 /\ (format # "length" \/ S[pos + 1][2] <= c)

ParserOK(p, S, n, pos, c) ==
    /\ DOMAIN p = {"buffer", "in_body", "expected", "out"}
    /\ p.buffer = SubSeq(S, pos + 1, n)
    /\ ~p.in_body => InHeaders(S, pos, c)
    /\ p.in_body => InBody(p.expected, S, pos, c)

\* All of event e is among the first n tokens.
Whole(e, S, n) ==
    /\ \E i \in 1..n : S[i] = <<"data", e>>
    /\ format = "length" \/ \E i \in 1..n : S[i] = <<"boundary", e + 1>>

\* The events told so far: in order, before all that are to come, only whole
\* ones and, of those off the buffer, all but what was cut.
Told(Q, S, n, pos, c) ==
    /\ Q \in Seq(Nat) /\ Len(earlier) \in 0..Len(Q)
    /\ \A i, j \in 1..Len(Q) : i < j => Q[i] < Q[j]
    /\ \A i \in 1..Len(Q), j \in pos + 1..Len(S) : S[j][1] = "code" => Q[i] < S[j][2]
    /\ \A i \in Len(earlier) + 1..Len(Q) : Whole(Q[i], S, n)
    /\ \A j \in 1..pos : S[j][1] = "data" /\ S[j][2] > c =>
           \E i \in Len(earlier) + 1..Len(Q) : Q[i] = S[j][2]

\* No event is lost with tokens that are no code.
LEMMA Passes ==
  ASSUME NEW S, IsStream(S), format \in Formats, NEW n \in Nat, n <= Len(S),
         NEW pos \in 0..n, NEW to \in pos..n, NEW c \in Nat, NEW Q,
         Told(Q, S, n, pos, c), InHeaders(S, pos, c), \A j \in pos + 1..to : S[j][1] # "code"
  PROVE  Told(Q, S, n, to, c)
<1>1. Len(S) \in Nat
  BY LenProperties DEF IsStream
<1>2. \A i \in 1..Len(Q), j \in to + 1..Len(S) : S[j][1] = "code" => Q[i] < S[j][2]
  <2>1. \A j \in to + 1..Len(S) : j \in pos + 1..Len(S)
    BY <1>1
  <2> QED BY <2>1 DEF Told
<1>3. ASSUME NEW j \in 1..to, S[j][1] = "data", S[j][2] > c
      PROVE  \E i \in Len(earlier) + 1..Len(Q) : Q[i] = S[j][2]
  <2>1. CASE j <= pos
    BY <1>3, <2>1 DEF Told
  <2>2. CASE j > pos
    <3>1. j \in 1..Len(S)
      BY <1>1
    <3>2. j - 1 \in 1..Len(S) /\ S[j - 1][1] = "code" /\ S[j - 1][2] = S[j][2]
      BY <1>3, <3>1, TokenBefore
    <3>3. j - 1 \notin pos + 1..to
      BY <3>2
    <3>4. j - 1 = pos /\ pos > 0
      BY <1>1, <2>2, <3>1, <3>2, <3>3
    <3>5. S[pos][2] <= c
      BY <3>2, <3>4 DEF InHeaders, Ends
    <3>6. S[j][2] \in Nat
      BY <3>1, TokenOfStream
    <3> QED BY <1>3, <3>2, <3>4, <3>5, <3>6
  <2> QED BY <2>1, <2>2
<1> QED
  BY <1>2, <1>3 DEF Told

\* _consume_headers
LEMMA HeadersOK ==
  ASSUME NEW S, IsStream(S), format \in Formats, NEW n \in Nat, n <= Len(S),
         NEW pos \in 0..n, NEW c \in Nat, NEW Q, NEW p,
         ParserOK(p, S, n, pos, c), Told(Q, S, n, pos, c), ~p.in_body
  PROVE  LET h == ConsumeHeaders(p)
         IN  \E to \in pos..n :
                 /\ ParserOK(h, S, n, to, c) /\ Told(Q, S, n, to, c)
                 /\ h.out = p.out
                 /\ ~h.in_body => \A j \in to + 1..n : S[j][1] \notin {"blank", "code"}
                 /\ h.in_body => \E j \in pos + 1..n : S[j][1] \in {"blank", "code"}
<1>1. S \in Seq(Token) /\ Len(S) \in Nat /\ pos \in Nat /\ pos <= n
  BY LenProperties DEF IsStream
<1>2. p.buffer = SubSeq(S, pos + 1, n) /\ InHeaders(S, pos, c)
      /\ DOMAIN p = {"buffer", "in_body", "expected", "out"}
  BY DEF ParserOK
<1>3. PICK at \in pos..n : /\ SkipBlank(p.buffer) = SubSeq(S, at + 1, n)
                           /\ \A j \in pos + 1..at : S[j][1] = "blank"
                           /\ at < n => S[at + 1][1] # "blank"
  <2>1. \E at \in pos..n :
            /\ SkipBlank(SubSeq(S, pos + 1, n)) = SubSeq(S, at + 1, n)
            /\ \A j \in pos + 1..at : S[j][1] = "blank"
            /\ at < n => S[at + 1][1] # "blank"
    BY <1>1, Skips
  <2> QED BY <1>2, <2>1
<1>4. InHeaders(S, at, c)
  <2>1. CASE at = pos
    BY <1>2, <2>1
  <2>2. CASE at # pos
    <3>1. at \in pos + 1..at
      BY <2>2
    <3>2. pos + 1 \in pos + 1..at /\ pos + 1 \in 1..Len(S) /\ at \in 1..Len(S)
      BY <1>1, <3>1
    <3>3. S[at][1] = "blank" /\ S[pos + 1][1] = "blank"
      BY <1>3, <3>1, <3>2
    <3>4. at = pos + 1
      <4>1. SUFFICES ASSUME at # pos + 1
                     PROVE  FALSE
        OBVIOUS
      <4>2. at - 1 \in pos + 1..at
        BY <3>1, <4>1
      <4>3. S[at - 1][1] = "blank"
        BY <1>3, <4>2
      <4>4. S[at - 1][1] \in {"length", "type"}
        BY <3>2, <3>3, TokenBefore
      <4> QED BY <4>3, <4>4
    <3>5. (pos + 1) - 1 = pos
      BY <1>1
    <3>6. pos \in 1..Len(S) /\ S[pos][1] \in {"length", "type"} /\ S[pos][2] = S[at][2]
      BY <3>2, <3>3, <3>4, <3>5, TokenBefore
    <3> QED BY <1>2, <3>4, <3>6 DEF InHeaders, Ends
  <2> QED BY <2>1, <2>2
<1>5. Told(Q, S, n, at, c)
  <2>1. \A j \in pos + 1..at : S[j][1] # "code"
    BY <1>3
  <2> QED BY <1>2, <2>1, Passes
<1> DEFINE b == SubSeq(S, at + 1, n)
           sep == First("blank", b)
           head == IF sep = 0 THEN b ELSE SubSeq(b, 1, sep - 1)
           code == First("code", head)
           h == ConsumeHeaders(p)
           last == IF sep = 0 THEN n ELSE at + sep - 1
<1>6. h = IF code # 0 THEN [p EXCEPT !.buffer = From(b, code), !.in_body = TRUE, !.expected = 0]
          ELSE IF sep = 0 THEN [p EXCEPT !.buffer = b]
          ELSE [p EXCEPT !.buffer = From(b, sep + 1), !.in_body = TRUE, !.expected = Announced(head)]
  BY <1>3 DEF ConsumeHeaders
<1>7. at \in Nat /\ at <= n /\ at \in 0..n
  BY <1>1
<1>8. \/ sep = 0 /\ \A j \in at + 1..n : S[j][1] # "blank"
      \/ sep \in 1..n - at /\ S[at + sep][1] = "blank" /\ \A j \in at + 1..at + sep - 1 : S[j][1] # "blank"
  BY <1>1, <1>7, FirstOf
<1> HIDE DEF sep, h
<1>9. last \in Nat /\ at <= last /\ last <= n /\ (sep # 0 => sep \in 1..n - at)
  BY <1>7, <1>8
<1>10. head = SubSeq(S, at + 1, last)
  <2>1. CASE sep = 0
    BY <2>1
  <2>2. CASE sep # 0
    <3>1. sep - 1 \in Nat /\ 1 \in Nat /\ 1 <= 1 /\ 1 <= (sep - 1) + 1 /\ sep - 1 <= n - at /\ at + (sep - 1) = at + sep - 1
      BY <1>7, <1>9, <2>2
    <3>2. SubSeq(b, 1, sep - 1) = SubSeq(S, at + 1, at + (sep - 1))
      BY <1>1, <1>7, <3>1, PartOfPart
    <3> QED BY <2>2, <3>1, <3>2
  <2> QED BY <2>1, <2>2
<1>11. \/ code = 0 /\ \A j \in at + 1..last : S[j][1] # "code"
       \/ code \in 1..last - at /\ S[at + code][1] = "code" /\ \A j \in at + 1..at + code - 1 : S[j][1] # "code"
  <2>1. last <= Len(S)
    BY <1>1, <1>9
  <2> HIDE DEF last
  <2> DEFINE k == First("code", SubSeq(S, at + 1, last))
  <2>2. \/ k = 0 /\ \A j \in at + 1..last : S[j][1] # "code"
        \/ k \in 1..last - at /\ S[at + k][1] = "code" /\ \A j \in at + 1..at + k - 1 : S[j][1] # "code"
    BY <1>1, <1>7, <1>9, <2>1, FirstOf
  <2>3. code = k
    BY <1>10
  <2> HIDE DEF k, head, code
  <2> QED BY <2>2, <2>3
<1>12. \A i \in 1..n - at + 1 : From(b, i) = SubSeq(S, at + i, n)
  BY <1>1, <1>7, RestOfPart
<1> HIDE DEF b, head, code
<1>13. CASE code # 0
  <2> DEFINE to == at + code - 1
  <2>1. /\ h.buffer = From(b, code) /\ h.in_body /\ h.expected = 0 /\ h.out = p.out
        /\ DOMAIN h = {"buffer", "in_body", "expected", "out"}
    BY <1>2, <1>6, <1>13
  <2>2. code \in 1..n - at + 1 /\ to \in pos..n /\ to \in at..n /\ to + 1 = at + code /\ to + 1 \in 1..Len(S)
        /\ at + code \in 1..Len(S)
    <3> HIDE DEF last
    <3>1. code \in 1..last - at
      BY <1>11, <1>13
    <3> QED BY <1>1, <1>7, <1>9, <3>1
  <2>3. h.buffer = SubSeq(S, to + 1, n)
    BY <1>12, <2>1, <2>2
  <2>4. S[to + 1][1] = "code" /\ \A j \in at + 1..to : S[j][1] # "code"
    BY <1>11, <1>13, <2>2
  <2> HIDE DEF to
  <2>5. Told(Q, S, n, to, c)
    BY <1>4, <1>5, <1>7, <2>2, <2>4, Passes
  <2>6. format # "length" \/ S[to + 1][2] <= c
    <3>1. SUFFICES ASSUME format = "length"
                   PROVE  S[to + 1][2] <= c
      OBVIOUS
    <3>2. (to + 1) - 1 = to
      BY <1>7, <2>2
    <3>3. to \in 1..Len(S) /\ S[to][1] = "blank" /\ S[to][2] = S[to + 1][2]
      BY <2>2, <2>4, <3>1, <3>2, TokenBefore
    <3>4. to = at
      <4>1. to \notin at + 1..to
        <5>1. to \in at + 1..to => to \in at + 1..last
          BY <1>9, <1>11, <1>13, <2>2 DEF to
        <5>2. \A j \in at + 1..last : S[j][1] # "blank"
          BY <1>8
        <5> QED BY <3>3, <5>1, <5>2
      <4> QED BY <1>7, <2>2, <4>1
    <3> QED BY <1>4, <3>3, <3>4 DEF InHeaders, Ends
  <2>7. ParserOK(h, S, n, to, c)
    BY <2>1, <2>2, <2>3, <2>4, <2>6 DEF ParserOK, InBody
  <2>8. \E j \in pos + 1..n : S[j][1] \in {"blank", "code"}
    <3>1. to + 1 \in pos + 1..n
      BY <1>1, <1>7, <1>9, <1>11, <1>13 DEF to
    <3> QED BY <2>4, <3>1
  <2> QED BY <2>1, <2>2, <2>5, <2>7, <2>8 DEF h
<1>14. CASE code = 0 /\ sep = 0
  <2>1. /\ h.buffer = b /\ ~h.in_body /\ h.out = p.out
        /\ DOMAIN h = {"buffer", "in_body", "expected", "out"}
    BY <1>2, <1>6, <1>14
  <2>2. ParserOK(h, S, n, at, c)
    BY <1>4, <2>1 DEF ParserOK, b
  <2>3. \A j \in at + 1..n : S[j][1] \notin {"blank", "code"}
    BY <1>8, <1>11, <1>14
  <2> QED BY <1>5, <2>1, <2>2, <2>3 DEF h
<1>15. CASE code = 0 /\ sep # 0
  <2> DEFINE to == at + sep
  <2>1. /\ h.buffer = From(b, sep + 1) /\ h.in_body /\ h.expected = Announced(head) /\ h.out = p.out
        /\ DOMAIN h = {"buffer", "in_body", "expected", "out"}
    BY <1>2, <1>6, <1>15
  <2>2. sep + 1 \in 1..n - at + 1 /\ to \in pos..n /\ to \in at..n /\ to + 1 = at + (sep + 1) /\ to \in 1..Len(S)
    BY <1>1, <1>7, <1>9, <1>15
  <2>3. h.buffer = SubSeq(S, to + 1, n)
    BY <1>12, <2>1, <2>2
  <2>4. S[to][1] = "blank" /\ \A j \in at + 1..to - 1 : S[j][1] # "blank"
    BY <1>8, <1>15
  <2>5. \A j \in at + 1..to : S[j][1] # "code"
    <3>1. last = to - 1
      BY <1>7, <1>9, <1>15
    <3>2. \A j \in at + 1..to - 1 : S[j][1] # "code"
      BY <1>11, <1>15, <3>1
    <3>3. \A j \in at + 1..to : j = to \/ j \in at + 1..to - 1
      BY <1>7, <2>2
    <3> QED BY <2>4, <3>2, <3>3
  <2>6. head = SubSeq(S, at + 1, to - 1) /\ to - 1 \in at..n /\ to - 1 \in Nat
    BY <1>7, <1>9, <1>10, <1>15
  <2> HIDE DEF to
  <2>7. Told(Q, S, n, to, c)
    BY <1>4, <1>5, <1>7, <2>2, <2>5, Passes
  <2>8. /\ to + 1 \in 1..Len(S) /\ S[to + 1][2] = S[to][2]
        /\ S[to + 1][1] = IF S[to][2] \in beats THEN "text" ELSE "code"
    BY <2>2, <2>4, NextToken DEF Follows, Ends
  <2>9. /\ to - 1 \in 1..Len(S) /\ S[to - 1][2] = S[to][2] /\ format # "bare"
        /\ format = "length" => S[to - 1][1] = "length"
    BY <2>2, <2>4, TokenBefore
  <2>10. at < to - 1
    <3>1. at + 1 # to
      <4>1. at < n
        BY <1>7, <1>9, <1>15
      <4> QED BY <1>3, <2>4, <4>1
    <3>2. at < to
      BY <1>7, <1>9, <1>15 DEF to
    <3> QED BY <1>7, <2>2, <3>1, <3>2
  <2>11. \E j \in pos + 1..n : S[j][1] \in {"blank", "code"}
    <3>1. to \in pos + 1..n
      BY <1>1, <1>7, <2>2, <2>10
    <3> QED BY <2>4, <3>1
  <2> DEFINE k == First("length", head)
  <2>12. \/ k = 0 /\ \A j \in at + 1..to - 1 : S[j][1] # "length"
         \/ k \in 1..(to - 1) - at /\ S[at + k][1] = "length" /\ \A j \in at + 1..at + k - 1 : S[j][1] # "length"
    <3>1. to - 1 <= Len(S) /\ at <= to - 1
      BY <1>1, <2>6, <2>9
    <3> QED BY <1>1, <1>7, <2>6, <3>1, FirstOf
  <2>13. CASE format = "open"
    <3>1. k = 0
      <4>1. SUFFICES ASSUME k # 0
                     PROVE  FALSE
        OBVIOUS
      <4>2. at + k \in 1..Len(S) /\ S[at + k][1] = "length"
        BY <1>1, <1>7, <2>6, <2>12, <4>1
      <4> HIDE DEF k
      <4>3. format # "open"
        BY <4>2, TokenBefore
      <4> QED BY <2>13, <4>3
    <3>2. h.expected = 0
      BY <2>1, <3>1 DEF Announced
    <3>3. ParserOK(h, S, n, to, c)
      BY <2>1, <2>3, <2>8, <2>13, <3>2 DEF ParserOK, InBody
    <3> QED BY <2>1, <2>2, <2>7, <2>11, <3>3 DEF h
  <2>14. CASE format = "length"
    <3>1. S[to - 1][1] = "length" /\ to - 1 \in at + 1..to - 1
      BY <1>7, <2>6, <2>9, <2>10, <2>14
    <3>2. k \in 1..(to - 1) - at /\ S[at + k][1] = "length"
      BY <2>12, <3>1
    <3>3. at + k = to - 1
      <4>1. SUFFICES ASSUME at + k # to - 1
                     PROVE  FALSE
        OBVIOUS
      <4> HIDE DEF k
      <4>2. at + k \in 1..Len(S) /\ at + k + 1 \in at + 1..to - 1
        BY <1>1, <1>7, <2>6, <3>2, <4>1
      <4>3. S[at + k + 1][1] = "blank"
        BY <2>14, <3>2, <4>2, NextToken DEF Follows, Ends
      <4> QED BY <2>4, <4>2, <4>3
    <3>4. head[k] = S[to - 1]
      <4> HIDE DEF k
      <4>1. to - 1 <= Len(S) /\ at <= to - 1 /\ 1 \in Nat /\ 0 \in Nat /\ 1 <= 0 + 1 /\ 0 <= (to - 1) - at
        BY <1>1, <2>6, <2>9
      <4>2. \A j \in 1..(to - 1) - at : SubSeq(S, at + 1, to - 1)[j] = S[at + j]
        BY <1>1, <1>7, <2>6, <4>1, PartOfPart
      <4> QED BY <2>6, <3>2, <3>3, <4>2
    <3>5. Announced(head) = Len(Body(S[to][2], S[to][2] \in beats))
      <4>1. k # 0
        BY <3>2
      <4> QED BY <2>9, <3>4, <4>1 DEF Announced
    <3>6. h.expected = Size(S, to)
      <4>1. CASE S[to][2] \in beats
        BY <2>1, <2>8, <3>5, <4>1 DEF Body, Size
      <4>2. CASE S[to][2] \notin beats
        BY <2>1, <2>8, <3>5, <4>2 DEF Body, Size
      <4> QED BY <4>1, <4>2
    <3>7. ParserOK(h, S, n, to, c)
      BY <2>1, <2>3, <2>8, <2>14, <3>6 DEF ParserOK, InBody
    <3> QED BY <2>1, <2>2, <2>7, <2>11, <3>7 DEF h
  <2> QED BY <2>9, <2>13, <2>14 DEF Formats
<1> QED
  BY <1>13, <1>14, <1>15

\* The body that the parser stands at, and what comes after it.
LEMMA BodyAhead ==
  ASSUME NEW S, IsStream(S), NEW pos \in Nat, pos + 1 \in 1..Len(S), S[pos + 1][1] \in {"code", "text"}
  PROVE  LET size == Size(S, pos)
             e == S[pos + 1][2]
         IN  /\ size \in 1..2 /\ pos + size \in 1..Len(S)
             /\ S[pos + size][1] \in Ends /\ S[pos + size][2] = e
             /\ \A j \in pos + 1..pos + size : S[j][1] # "boundary"
             /\ pos + size < Len(S) => S[pos + size + 1] = <<"boundary", e + 1>>
             /\ S[pos + 1][1] = "code" => size = 2 /\ S[pos + 2] = <<"data", e>>
             /\ S[pos + 1][1] = "text" => size = 1
<1>1. Len(S) \in Nat
  BY TokenOfStream
<1>2. CASE S[pos + 1][1] = "text"
  <2>1. Size(S, pos) = 1
    BY <1>2 DEF Size
  <2>2. ASSUME pos + 1 < Len(S)
        PROVE  S[pos + 1 + 1] = <<"boundary", S[pos + 1][2] + 1>>
    <3>1. pos + 1 + 1 \in 1..Len(S) /\ Follows(format, beats, S[pos + 1], S[pos + 1 + 1])
      BY <2>2, NextToken
    <3>2. S[pos + 1 + 1][1] = "boundary" /\ S[pos + 1 + 1][2] = S[pos + 1][2] + 1
      BY <1>2, <3>1 DEF Follows, Ends
    <3>3. S[pos + 1 + 1] = <<S[pos + 1 + 1][1], S[pos + 1 + 1][2]>>
      BY <3>1, TokenOfStream
    <3> QED BY <3>2, <3>3
  <2>3. \A j \in pos + 1..pos + 1 : S[j][1] # "boundary"
    BY <1>2
  <2> QED BY <1>2, <2>1, <2>2, <2>3 DEF Ends
<1>3. CASE S[pos + 1][1] = "code"
  <2>1. Size(S, pos) = 2 /\ pos + 1 + 1 = pos + 2
    BY <1>3 DEF Size
  <2>2. pos + 2 \in 1..Len(S) /\ Follows(format, beats, S[pos + 1], S[pos + 2])
    BY <1>3, <2>1, NextToken DEF Ends
  <2>3. S[pos + 2][1] = "data" /\ S[pos + 2][2] = S[pos + 1][2] /\ S[pos + 2] = <<S[pos + 2][1], S[pos + 2][2]>>
    BY <1>3, <2>2, TokenOfStream DEF Follows, Ends
  <2>4. ASSUME pos + 2 < Len(S)
        PROVE  S[pos + 2 + 1] = <<"boundary", S[pos + 1][2] + 1>>
    <3>1. pos + 2 + 1 \in 1..Len(S) /\ Follows(format, beats, S[pos + 2], S[pos + 2 + 1])
      BY <2>2, <2>4, NextToken
    <3>2. S[pos + 2 + 1][1] = "boundary" /\ S[pos + 2 + 1][2] = S[pos + 1][2] + 1
      BY <2>3, <3>1 DEF Follows, Ends
    <3>3. S[pos + 2 + 1] = <<S[pos + 2 + 1][1], S[pos + 2 + 1][2]>>
      BY <3>1, TokenOfStream
    <3> QED BY <3>2, <3>3
  <2>5. \A j \in pos + 1..pos + 2 : S[j][1] # "boundary"
    <3>1. \A j \in pos + 1..pos + 2 : j = pos + 1 \/ j = pos + 2
      OBVIOUS
    <3> QED BY <1>3, <2>3, <3>1
  <2> QED BY <1>3, <2>1, <2>2, <2>3, <2>4, <2>5 DEF Ends
<1> QED
  BY <1>2, <1>3

\* Where the body ends, if the end has arrived.
LEMMA EndOfBody ==
  ASSUME NEW S, IsStream(S), NEW n \in Nat, n <= Len(S), NEW pos \in 0..n, NEW c \in Nat,
         NEW p, ParserOK(p, S, n, pos, c), p.in_body
  PROVE  \/ BodyEnd(p) < 0 /\ \/ p.expected # 0 /\ n < pos + Size(S, pos)
                              \/ p.expected = 0 /\ n < pos + Size(S, pos) + 1
         \/ /\ ~(BodyEnd(p) < 0) /\ BodyEnd(p) = Size(S, pos) /\ pos + Size(S, pos) <= n
            /\ format = "length" \/ pos + Size(S, pos) + 1 <= n
<1>1. S \in Seq(Token) /\ Len(S) \in Nat /\ pos \in Nat /\ pos <= n
  BY LenProperties DEF IsStream
<1>2. p.buffer = SubSeq(S, pos + 1, n) /\ InBody(p.expected, S, pos, c)
  BY DEF ParserOK
<1>3. Len(p.buffer) = n - pos
  BY <1>1, <1>2, PartOfPart
<1> DEFINE size == Size(S, pos)
<1>4. /\ size \in 1..2 /\ pos + size \in 1..Len(S)
      /\ \A j \in pos + 1..pos + size : S[j][1] # "boundary"
      /\ pos + size < Len(S) => S[pos + size + 1][1] = "boundary"
  BY <1>1, <1>2, BodyAhead DEF InBody
<1> HIDE DEF size
<1>5. CASE p.expected # 0
  <2>1. p.expected = size /\ format = "length"
    BY <1>2, <1>5 DEF InBody, size
  <2>2. BodyEnd(p) = IF n - pos < size THEN 0 - 1 ELSE size
    BY <1>3, <1>5, <2>1 DEF BodyEnd
  <2>3. CASE n - pos < size
    BY <1>1, <1>4, <1>5, <2>2, <2>3 DEF size
  <2>4. CASE ~(n - pos < size)
    BY <1>1, <1>4, <2>1, <2>2, <2>4 DEF size
  <2> QED BY <2>3, <2>4
<1>6. CASE p.expected = 0
  <2> DEFINE k == First("boundary", p.buffer)
  <2>1. BodyEnd(p) = k - 1
    BY <1>6 DEF BodyEnd
  <2>2. \/ k = 0 /\ \A j \in pos + 1..n : S[j][1] # "boundary"
        \/ k \in 1..n - pos /\ S[pos + k][1] = "boundary" /\ \A j \in pos + 1..pos + k - 1 : S[j][1] # "boundary"
    <3> DEFINE m == First("boundary", SubSeq(S, pos + 1, n))
    <3>1. \/ m = 0 /\ \A j \in pos + 1..n : S[j][1] # "boundary"
          \/ m \in 1..n - pos /\ S[pos + m][1] = "boundary" /\ \A j \in pos + 1..pos + m - 1 : S[j][1] # "boundary"
      BY <1>1, FirstOf
    <3>2. k = m
      BY <1>2
    <3> HIDE DEF k, m
    <3> QED BY <3>1, <3>2
  <2> HIDE DEF k
  <2>3. CASE k = 0
    <3>1. ~(pos + size + 1 <= n)
      <4>1. SUFFICES ASSUME pos + size + 1 <= n
                     PROVE  FALSE
        OBVIOUS
      <4>2. S[pos + size + 1][1] = "boundary" /\ pos + size + 1 \in pos + 1..n
        BY <1>1, <1>4, <4>1
      <4> QED BY <2>2, <2>3, <4>2
    <3> QED BY <1>1, <1>4, <1>6, <2>1, <2>3, <3>1 DEF size
  <2>4. CASE k # 0
    <3>1. k \in 1..n - pos /\ S[pos + k][1] = "boundary"
      BY <2>2, <2>4
    <3>2. k > size
      <4>1. SUFFICES ASSUME k <= size
                     PROVE  FALSE
        BY <1>4, <3>1
      <4>2. pos + k \in pos + 1..pos + size
        BY <1>1, <1>4, <3>1, <4>1
      <4> QED BY <1>4, <3>1, <4>2
    <3>3. pos + size + 1 <= n
      BY <1>1, <1>4, <3>1, <3>2
    <3>4. k = size + 1
      <4>1. SUFFICES ASSUME k # size + 1
                     PROVE  FALSE
        OBVIOUS
      <4>2. S[pos + size + 1][1] = "boundary" /\ pos + size + 1 \in pos + 1..pos + k - 1
        BY <1>1, <1>4, <3>1, <3>2, <3>3, <4>1
      <4> QED BY <2>2, <2>4, <4>2
    <3> QED BY <1>1, <1>4, <2>1, <3>3, <3>4 DEF size
  <2> QED BY <2>3, <2>4
<1> QED
  BY <1>5, <1>6

LEMMA Joined ==
  \A s, t, u \in Seq(Nat) : s \o (t \o u) = (s \o t) \o u
<1> SUFFICES ASSUME NEW s \in Seq(Nat), NEW t \in Seq(Nat), NEW u \in Seq(Nat)
             PROVE  s \o (t \o u) = (s \o t) \o u
  OBVIOUS
<1> QED BY ConcatAssociative

\* _consume_body
LEMMA BodyOK ==
  ASSUME NEW S, IsStream(S), NEW n \in Nat, n <= Len(S), NEW pos \in 0..n, NEW c \in Nat,
         NEW p, ParserOK(p, S, n, pos, c), p.in_body, ~(BodyEnd(p) < 0),
         NEW Q \in Seq(Nat), p.out \in Seq(Nat), Told(Q \o p.out, S, n, pos, c)
  PROVE  LET after == ConsumeBody(p)
         IN  \E to \in pos + 1..n :
                 /\ ParserOK(after, S, n, to, c) /\ after.out \in Seq(Nat)
                 /\ Told(Q \o after.out, S, n, to, c)
<1>1. S \in Seq(Token) /\ Len(S) \in Nat /\ pos \in Nat /\ pos <= n
  BY LenProperties DEF IsStream
<1>2. p.buffer = SubSeq(S, pos + 1, n) /\ InBody(p.expected, S, pos, c)
  BY DEF ParserOK
<1> DEFINE size == Size(S, pos)
           to == pos + size
           e == S[pos + 1][2]
           body == SubSeq(S, pos + 1, to)
           after == ConsumeBody(p)
<1>3. /\ BodyEnd(p) = size /\ to <= n
      /\ format = "length" \/ to + 1 <= n
  BY EndOfBody
<1>4. /\ size \in 1..2 /\ to \in 1..Len(S) /\ pos + 1 \in 1..Len(S)
      /\ S[to][1] \in Ends /\ S[to][2] = e
      /\ to < Len(S) => S[to + 1] = <<"boundary", e + 1>>
      /\ S[pos + 1][1] = "code" => size = 2 /\ S[pos + 2] = <<"data", e>>
      /\ S[pos + 1][1] = "text" => size = 1
      /\ S[pos + 1][1] \in {"code", "text"}
  BY <1>1, <1>2, BodyAhead DEF InBody
<1>5. e \in Nat
  BY <1>4, TokenOfStream
<1> HIDE DEF size, e
<1>6. to \in pos + 1..n /\ to \in Nat
  BY <1>1, <1>3, <1>4
<1>7. /\ From(p.buffer, size + 1) = SubSeq(S, to + 1, n)
      /\ SubSeq(p.buffer, 1, size) = body
  <2>1. size + 1 \in 1..n - pos + 1 /\ pos + (size + 1) = to + 1
    BY <1>1, <1>3, <1>4
  <2> DEFINE i == size + 1
  <2>2. From(p.buffer, size + 1) = SubSeq(S, to + 1, n)
    <3>1. i \in 1..n - pos + 1 /\ pos + i = to + 1
      BY <2>1
    <3> HIDE DEF i, to
    <3>2. From(SubSeq(S, pos + 1, n), i) = SubSeq(S, pos + i, n)
      BY <1>1, <3>1, RestOfPart
    <3> QED BY <1>2, <3>1, <3>2 DEF i
  <2>3. size \in Nat /\ 1 \in Nat /\ 1 <= 1 /\ 1 <= size + 1 /\ size <= n - pos
    BY <1>1, <1>3, <1>4
  <2>4. SubSeq(p.buffer, 1, size) = body
    BY <1>1, <1>2, <2>3, PartOfPart
  <2> QED BY <2>2, <2>4
<1>8. /\ DOMAIN after = {"buffer", "in_body", "expected", "out"}
      /\ after.buffer = SubSeq(S, to + 1, n) /\ ~after.in_body
      /\ after.out = p.out \o Built(body)
  BY <1>3, <1>7 DEF ConsumeBody
<1>9. ParserOK(after, S, n, to, c)
  BY <1>4, <1>8 DEF ParserOK, InHeaders
<1> DEFINE k == First("code", body)
<1>10. /\ Len(body) = size /\ \A j \in 1..size : body[j] = S[pos + j]
       /\ \/ k = 0 /\ \A j \in pos + 1..to : S[j][1] # "code"
          \/ k \in 1..to - pos /\ S[pos + k][1] = "code" /\ \A j \in pos + 1..pos + k - 1 : S[j][1] # "code"
  <2>1. to \in Nat /\ pos <= to /\ to <= Len(S) /\ to - pos = size
        /\ 1 \in Nat /\ 0 \in Nat /\ 1 <= 0 + 1 /\ 0 <= to - pos
    BY <1>1, <1>4, <1>6
  <2> HIDE DEF to
  <2>2. Len(body) = to - pos /\ \A j \in 1..to - pos : body[j] = S[pos + j]
    BY <1>1, <2>1, PartOfPart
  <2>3. \/ k = 0 /\ \A j \in pos + 1..to : S[j][1] # "code"
        \/ k \in 1..to - pos /\ S[pos + k][1] = "code" /\ \A j \in pos + 1..pos + k - 1 : S[j][1] # "code"
    BY <1>1, <2>1, FirstOf
  <2> QED BY <2>1, <2>2, <2>3
<1> HIDE DEF k, body, after
<1> DEFINE R == Q \o p.out
<1>11. R \in Seq(Nat)
  BY ConcatProperties
<1>12. CASE S[pos + 1][1] = "text"
  <2>1. size = 1 /\ to = pos + 1
    BY <1>4, <1>12
  <2>2. \A j \in pos + 1..to : S[j][1] # "code"
    <3>1. \A j \in pos + 1..to : j = pos + 1
      BY <1>1, <2>1
    <3> QED BY <1>12, <3>1
  <2>3. k = 0
    <3>1. k \in 1..to - pos => pos + k \in pos + 1..to
      BY <1>1, <1>6
    <3> QED BY <1>10, <2>2, <3>1
  <2>4. Built(body) = <<>>
    BY <2>3 DEF Built, k
  <2>5. after.out = p.out
    BY <1>8, <2>4, ConcatEmptySeq
  <2>6. Told(R, S, n, to, c)
    <3>1. \A j \in to + 1..Len(S) : j \in pos + 1..Len(S)
      BY <1>1, <2>1
    <3>2. \A j \in 1..to : j \in 1..pos \/ j = pos + 1
      BY <1>1, <2>1
    <3> HIDE DEF R, to
    <3> QED BY <1>12, <3>1, <3>2 DEF Told, R
  <2> QED BY <1>6, <1>9, <2>5, <2>6 DEF after
<1>13. CASE S[pos + 1][1] = "code"
  <2>1. size = 2 /\ to = pos + 2 /\ S[pos + 2] = <<"data", e>>
    BY <1>4, <1>13
  <2>2. k = 1
    <3>1. pos + 1 \in pos + 1..to
      BY <1>1, <2>1
    <3>2. k \in 1..to - pos /\ \A j \in pos + 1..pos + k - 1 : S[j][1] # "code"
      BY <1>10, <1>13, <3>1
    <3>3. k # 1 => pos + 1 \in pos + 1..pos + k - 1
      BY <1>1, <3>2
    <3> QED BY <1>13, <3>2, <3>3
  <2>3. Built(body) = <<e>>
    BY <1>1, <1>10, <2>1, <2>2 DEF Built, k, e
  <2>4. after.out = p.out \o <<e>> /\ <<e>> \in Seq(Nat)
    BY <1>5, <1>8, <2>3
  <2>5. after.out \in Seq(Nat)
    BY <2>4, ConcatProperties
  <2>6. Q \o after.out = R \o <<e>>
    <3>1. <<e>> \in Seq(Nat) /\ p.out \in Seq(Nat) /\ Q \in Seq(Nat)
      BY <2>4
    <3>2. Q \o (p.out \o <<e>>) = (Q \o p.out) \o <<e>>
      BY <3>1, Joined, Zenon
    <3> QED BY <2>4, <3>2
  <2> DEFINE T == R \o <<e>>
  <2> HIDE DEF R
  <2>7. /\ T \in Seq(Nat) /\ Len(T) = Len(R) + 1 /\ Len(R) \in Nat
        /\ \A i \in 1..Len(R) : T[i] = R[i]
        /\ T[Len(R) + 1] = e
    <3>1. Len(R) \in Nat /\ Len(<<e>>) = 1 /\ <<e>>[1] = e
      BY <1>11, LenProperties
    <3>2. /\ T \in Seq(Nat) /\ Len(T) = Len(R) + Len(<<e>>)
          /\ \A i \in 1..Len(R) + Len(<<e>>) : T[i] = IF i <= Len(R) THEN R[i] ELSE <<e>>[i - Len(R)]
      BY <1>11, <2>4, ConcatProperties
    <3>3. Len(R) + 1 \in 1..Len(R) + 1 /\ ~(Len(R) + 1 <= Len(R)) /\ (Len(R) + 1) - Len(R) = 1
      BY <3>1
    <3>4. \A i \in 1..Len(R) : i \in 1..Len(R) + 1 /\ i <= Len(R)
      BY <3>1
    <3> HIDE DEF T
    <3> QED BY <3>1, <3>2, <3>3, <3>4
  <2> HIDE DEF T
  <2>8. Told(R, S, n, pos, c)
    BY DEF R
  <2>9. \A i \in 1..Len(R) : R[i] < e /\ R[i] \in Nat
    <3>1. pos + 1 \in pos + 1..Len(S)
      BY <1>1, <1>4
    <3> QED BY <1>11, <1>13, <2>8, <3>1, ElementOfSeq DEF Told, e
  <2>10. Len(earlier) \in 0..Len(R) /\ Len(earlier) \in 0..Len(T) /\ Len(R) + 1 \in Len(earlier) + 1..Len(T)
    BY <2>7, <2>8 DEF Told
  <2>11. ASSUME NEW i \in 1..Len(T), NEW j \in 1..Len(T), i < j
         PROVE  T[i] < T[j]
    <3>1. CASE j \in 1..Len(R)
      <4>1. i \in 1..Len(R)
        BY <2>7, <2>11, <3>1
      <4> QED BY <2>7, <2>8, <2>11, <3>1, <4>1 DEF Told
    <3>2. CASE j = Len(R) + 1
      <4>1. i \in 1..Len(R)
        BY <2>7, <2>11, <3>2
      <4> QED BY <2>7, <2>9, <3>2, <4>1
    <3> QED BY <2>7, <3>1, <3>2
  <2>12. ASSUME NEW i \in 1..Len(T), NEW j \in to + 1..Len(S), S[j][1] = "code"
         PROVE  T[i] < S[j][2]
    <3>1. j \in pos + 1..Len(S) /\ to + 1 \in 1..Len(S) /\ j \in 1..Len(S) /\ to + 1 <= j /\ to < Len(S)
      BY <1>1, <1>6, <2>1
    <3>2. CASE i \in 1..Len(R)
      BY <2>7, <2>8, <2>12, <3>1, <3>2 DEF Told
    <3>3. CASE i = Len(R) + 1
      <4> HIDE DEF to
      <4>1. S[to + 1][2] = e + 1
        BY <1>4, <3>1
      <4>2. S[to + 1][2] <= S[j][2] /\ S[j][2] \in Nat
        BY <3>1, PartsGrow, TokenOfStream
      <4>3. T[i] = e
        BY <2>7, <3>3
      <4> QED BY <1>5, <4>1, <4>2, <4>3
    <3> QED BY <2>7, <3>2, <3>3
  <2>13. Whole(e, S, n)
    <3>1. pos + 2 \in 1..n
      BY <1>1, <1>3, <2>1
    <3>2. format = "length" \/ (to + 1 \in 1..n /\ S[to + 1] = <<"boundary", e + 1>>)
      BY <1>1, <1>3, <1>4, <1>6
    <3> QED BY <2>1, <3>1, <3>2 DEF Whole
  <2>14. ASSUME NEW i \in Len(earlier) + 1..Len(T)
         PROVE  Whole(T[i], S, n)
    <3>1. CASE i \in 1..Len(R)
      <4>1. i \in Len(earlier) + 1..Len(R)
        BY <2>7, <2>10, <3>1
      <4> QED BY <2>7, <2>8, <3>1, <4>1 DEF Told
    <3>2. CASE i = Len(R) + 1
      BY <2>7, <2>13, <3>2
    <3> QED BY <2>7, <2>10, <3>1, <3>2
  <2>15. ASSUME NEW j \in 1..to, S[j][1] = "data", S[j][2] > c
         PROVE  \E i \in Len(earlier) + 1..Len(T) : T[i] = S[j][2]
    <3>1. CASE j \in 1..pos
      <4>1. PICK i \in Len(earlier) + 1..Len(R) : R[i] = S[j][2]
        BY <2>8, <2>15, <3>1 DEF Told
      <4>2. i \in 1..Len(R) /\ i \in Len(earlier) + 1..Len(T)
        BY <2>7, <2>10
      <4> QED BY <2>7, <4>1, <4>2
    <3>2. CASE j = pos + 1
      BY <1>13, <2>15, <3>2
    <3>3. CASE j = pos + 2
      <4>1. S[j][2] = e
        BY <2>1, <3>3
      <4> QED BY <2>7, <2>10, <4>1
    <3> QED BY <1>1, <2>1, <3>1, <3>2, <3>3
  <2>16. Told(T, S, n, to, c)
    BY <2>7, <2>10, <2>11, <2>12, <2>14, <2>15 DEF Told
  <2> QED BY <1>6, <1>9, <2>5, <2>6, <2>16 DEF after, T
<1> QED
  BY <1>4, <1>12, <1>13

\* Nothing more can be told from what is in the buffer.
Rests(p, S, n, pos) ==
    \/ ~p.in_body /\ \A j \in pos + 1..n : S[j][1] \notin {"blank", "code"}
    \/ p.in_body /\ BodyEnd(p) < 0

ParserIs(p, Q, S, n, pos, c) ==
    /\ ParserOK(p, S, n, pos, c)
    /\ p.out \in Seq(Nat)
    /\ Told(Q \o p.out, S, n, pos, c)

\* One round of _drain.
LEMMA RoundOK ==
  ASSUME NEW S, IsStream(S), format \in Formats, NEW n \in Nat, n <= Len(S),
         NEW pos \in 0..n, NEW c \in Nat, NEW Q \in Seq(Nat), NEW p, ParserIs(p, Q, S, n, pos, c)
  PROVE  \E to \in pos..n :
             /\ ParserIs(Round(p), Q, S, n, to, c)
             /\ Rests(Round(p), S, n, to) \/ (~Rests(p, S, n, pos) /\ pos < to)
<1> DEFINE h == IF p.in_body THEN p ELSE ConsumeHeaders(p)
<1>1. /\ ParserOK(p, S, n, pos, c) /\ p.out \in Seq(Nat) /\ Told(Q \o p.out, S, n, pos, c)
  BY DEF ParserIs
<1>2. Round(p) = IF ~h.in_body \/ BodyEnd(h) < 0 THEN h ELSE ConsumeBody(h)
  BY DEF Round
<1>3. PICK at \in pos..n :
          /\ ParserIs(h, Q, S, n, at, c)
          /\ ~h.in_body => \A j \in at + 1..n : S[j][1] \notin {"blank", "code"}
          /\ h.in_body /\ ~(BodyEnd(h) < 0) => ~Rests(p, S, n, pos)
  <2>1. CASE p.in_body
    <3>1. h = p /\ pos \in pos..n
      BY <2>1
    <3> HIDE DEF h
    <3> QED BY <2>1, <3>1 DEF Rests
  <2>2. CASE ~p.in_body
    <3>1. h = ConsumeHeaders(p)
      BY <2>2
    <3>2. PICK at \in pos..n :
              /\ ParserOK(h, S, n, at, c) /\ Told(Q \o p.out, S, n, at, c)
              /\ h.out = p.out
              /\ ~h.in_body => \A j \in at + 1..n : S[j][1] \notin {"blank", "code"}
              /\ h.in_body => \E j \in pos + 1..n : S[j][1] \in {"blank", "code"}
      BY <1>1, <2>2, <3>1, HeadersOK
    <3>3. ParserIs(h, Q, S, n, at, c)
      BY <1>1, <3>2 DEF ParserIs
    <3>4. h.in_body => ~Rests(p, S, n, pos)
      BY <2>2, <3>2 DEF Rests
    <3> HIDE DEF h
    <3> QED BY <3>2, <3>3, <3>4
  <2> QED BY <2>1, <2>2
<1> HIDE DEF h
<1>4. CASE ~h.in_body \/ BodyEnd(h) < 0
  <2>1. Round(p) = h
    BY <1>2, <1>4
  <2>2. Rests(h, S, n, at)
    BY <1>3, <1>4 DEF Rests
  <2> QED BY <1>3, <2>1, <2>2
<1>5. CASE h.in_body /\ ~(BodyEnd(h) < 0)
  <2>1. Round(p) = ConsumeBody(h)
    BY <1>2, <1>5
  <2>2. at \in 0..n /\ ParserOK(h, S, n, at, c) /\ h.out \in Seq(Nat) /\ Told(Q \o h.out, S, n, at, c)
    BY <1>3 DEF ParserIs
  <2>3. PICK to \in at + 1..n :
            /\ ParserOK(ConsumeBody(h), S, n, to, c) /\ ConsumeBody(h).out \in Seq(Nat)
            /\ Told(Q \o ConsumeBody(h).out, S, n, to, c)
    BY <1>5, <2>2, BodyOK
  <2>4. ParserIs(Round(p), Q, S, n, to, c)
    BY <2>1, <2>3 DEF ParserIs
  <2>5. to \in pos..n /\ pos < to
    BY <2>2
  <2> QED BY <1>3, <1>5, <2>4, <2>5
<1> QED
  BY <1>4, <1>5

\* Induction over the natural numbers, with a set in the place of a predicate.
LEMMA CountingUp ==
  ASSUME NEW Good, 0 \in Good, \A n \in Nat : n \in Good => n + 1 \in Good
  PROVE  Nat \subseteq Good
<1> SUFFICES ASSUME Nat \ Good # {}
             PROVE  FALSE
  OBVIOUS
<1>1. PICK x \in Nat \ Good : \A y \in Nat \ Good : x <= y
  BY Least
<1>2. x \in Nat /\ x # 0
  BY <1>1
<1>3. x - 1 \in Nat /\ (x - 1) + 1 = x /\ ~(x <= x - 1)
  BY <1>2
<1>4. x - 1 \in Good
  BY <1>1, <1>3
<1> QED BY <1>1, <1>3, <1>4

\* The rounds of _drain, one after the other.
Rounds(p, after, m) == after = [i \in 0..m |-> IF i = 0 THEN p ELSE Round(after[i - 1])]

LEMMA RoundsRun ==
  ASSUME NEW p, NEW n \in Nat
  PROVE  \E after : Rounds(p, after, n)
<1>1. \E after : Rounds(p, after, 0)
  <2>1. Rounds(p, [i \in 0..0 |-> p], 0)
    BY DEF Rounds
  <2> QED BY <2>1
<1>2. ASSUME NEW m \in Nat, NEW after, Rounds(p, after, m)
      PROVE  \E more : Rounds(p, more, m + 1)
  <2> DEFINE more == [i \in 0..(m + 1) |-> IF i = 0 THEN p ELSE Round(after[i - 1])]
  <2>1. ASSUME NEW i \in 0..m
        PROVE  more[i] = after[i]
    <3>1. after[i] = IF i = 0 THEN p ELSE Round(after[i - 1])
      BY <1>2 DEF Rounds
    <3> QED BY <3>1
  <2>2. ASSUME NEW i \in 0..(m + 1)
        PROVE  more[i] = IF i = 0 THEN p ELSE Round(more[i - 1])
    <3>1. i # 0 => i - 1 \in 0..m
      OBVIOUS
    <3>2. i # 0 => more[i - 1] = after[i - 1]
      BY <2>1, <3>1
    <3> QED BY <3>2
  <2>3. Rounds(p, more, m + 1)
    BY <2>2 DEF Rounds
  <2> QED BY <2>3
<1> DEFINE Good == {m \in Nat : \E after : Rounds(p, after, m)}
<1>3. 0 \in Good /\ \A m \in Nat : m \in Good => m + 1 \in Good
  BY <1>1, <1>2
<1>4. Nat \subseteq Good
  <2> HIDE DEF Good
  <2> QED BY <1>3, CountingUp
<1> QED BY <1>4

\* _drain leaves nothing that could be told.
LEMMA DrainOK ==
  ASSUME NEW S, IsStream(S), format \in Formats, NEW n \in Nat, n <= Len(S),
         NEW pos \in 0..n, NEW c \in Nat, NEW Q \in Seq(Nat), NEW p, ParserIs(p, Q, S, n, pos, c)
  PROVE  \E to \in pos..n : ParserIs(Drain(p), Q, S, n, to, c) /\ Rests(Drain(p), S, n, to)
<1>1. S \in Seq(Token) /\ Len(S) \in Nat /\ pos \in Nat /\ pos <= n
  BY LenProperties DEF IsStream
<1>2. Len(p.buffer) = n - pos
  <2>1. p.buffer = SubSeq(S, pos + 1, n)
    BY DEF ParserIs, ParserOK
  <2> QED BY <1>1, <2>1, PartOfPart
<1> DEFINE m == n - pos + 1
           after == CHOOSE f : Rounds(p, f, m)
<1>3. m \in Nat /\ m = Len(p.buffer) + 1
  BY <1>1, <1>2
<1>4. Rounds(p, after, m)
  BY <1>3, RoundsRun
<1>5. Drain(p) = after[m]
  BY <1>3 DEF Drain, Rounds
<1> HIDE DEF after, m
<1> DEFINE Done(i) == \E to \in pos..n :
                          /\ ParserIs(after[i], Q, S, n, to, c)
                          /\ Rests(after[i], S, n, to) \/ pos + i <= to
           Good == {i \in Nat : i \in 0..m => Done(i)}
<1>6. Done(0)
  <2>1. after[0] = p
    BY <1>3, <1>4 DEF Rounds
  <2> QED BY <1>1, <2>1
<1>7. ASSUME NEW i \in Nat, i + 1 \in 0..m, Done(i)
      PROVE  Done(i + 1)
  <2>1. PICK at \in pos..n : /\ ParserIs(after[i], Q, S, n, at, c)
                             /\ Rests(after[i], S, n, at) \/ pos + i <= at
    BY <1>7
  <2>2. after[i + 1] = Round(after[i])
    <3>1. i + 1 # 0 /\ (i + 1) - 1 = i
      OBVIOUS
    <3> QED BY <1>4, <1>7, <3>1 DEF Rounds
  <2>3. at \in 0..n
    BY <1>1
  <2>4. PICK to \in at..n : /\ ParserIs(Round(after[i]), Q, S, n, to, c)
                            /\ Rests(Round(after[i]), S, n, to) \/ (~Rests(after[i], S, n, at) /\ at < to)
    BY <2>1, <2>3, RoundOK
  <2>5. to \in pos..n
    BY <1>1
  <2>6. Rests(Round(after[i]), S, n, to) \/ pos + (i + 1) <= to
    BY <1>1, <2>1, <2>4
  <2> QED BY <2>2, <2>4, <2>5, <2>6
<1> HIDE DEF Done
<1>8. Nat \subseteq Good
  <2>1. 0 \in Good
    BY <1>6
  <2>2. ASSUME NEW i \in Nat, i \in Good
        PROVE  i + 1 \in Good
    <3>1. i + 1 \in 0..m => i \in 0..m
      BY <1>3
    <3> QED BY <1>7, <2>2, <3>1
  <2> HIDE DEF Good
  <2> QED BY <2>1, <2>2, CountingUp
<1>9. Done(m)
  BY <1>3, <1>8
<1>10. PICK to \in pos..n : ParserIs(after[m], Q, S, n, to, c) /\ (Rests(after[m], S, n, to) \/ pos + m <= to)
  BY <1>9 DEF Done
<1>11. ~(pos + m <= to)
  BY <1>1 DEF m
<1> QED
  BY <1>5, <1>10, <1>11

\* At rest, every whole event is told but what was cut.
LEMMA AllTold ==
  ASSUME NEW S, IsStream(S), format \in Formats, NEW n \in Nat, n <= Len(S),
         NEW pos \in 0..n, NEW c \in Nat, NEW Q, NEW p,
         ParserOK(p, S, n, pos, c), Told(Q, S, n, pos, c), Rests(p, S, n, pos),
         NEW e \in Nat, e > c, Whole(e, S, n)
  PROVE  \E i \in Len(earlier) + 1..Len(Q) : Q[i] = e
<1>1. S \in Seq(Token) /\ Len(S) \in Nat /\ pos \in Nat /\ pos <= n
  BY LenProperties DEF IsStream
<1>2. PICK j \in 1..n : S[j] = <<"data", e>>
  BY DEF Whole
<1>3. j \in 1..Len(S) /\ S[j][1] = "data" /\ S[j][2] = e
  BY <1>1, <1>2
<1>4. CASE j <= pos
  <2>1. j \in 1..pos
    BY <1>1, <1>4
  <2> QED BY <1>3, <2>1 DEF Told
<1>5. CASE j > pos /\ ~p.in_body
  <2>1. j - 1 \in 1..Len(S) /\ S[j - 1][1] = "code" /\ S[j - 1][2] = e
    BY <1>3, TokenBefore
  <2>2. \A i \in pos + 1..n : S[i][1] # "code"
    BY <1>5 DEF Rests
  <2>3. j - 1 = pos /\ pos > 0
    <3>1. j - 1 \notin pos + 1..n
      BY <2>1, <2>2
    <3> QED BY <1>1, <1>5, <2>1, <3>1
  <2>4. S[pos][2] <= c
    BY <1>5, <2>1, <2>3 DEF ParserOK, InHeaders, Ends
  <2> QED BY <2>1, <2>3, <2>4
<1>6. CASE j > pos /\ p.in_body
  <2> DEFINE size == Size(S, pos)
  <2>1. InBody(p.expected, S, pos, c) /\ BodyEnd(p) < 0
    BY <1>6 DEF ParserOK, Rests
  <2>2. (p.expected # 0 /\ n < pos + size) \/ (p.expected = 0 /\ n < pos + size + 1)
    BY <1>6, <2>1, EndOfBody
  <2>3. /\ size \in 1..2 /\ pos + 1 \in 1..Len(S)
        /\ S[pos + 1][1] \in {"code", "text"}
        /\ S[pos + 1][1] = "text" => size = 1
        /\ S[pos + 1][1] = "code" => S[pos + 2] = <<"data", S[pos + 1][2]>>
    BY <1>1, <2>1, BodyAhead DEF InBody
  <2> HIDE DEF size
  <2>4. j # pos + 1
    BY <1>3, <2>3
  <2>5. p.expected = 0 /\ size = 2 /\ j = pos + 2 /\ n = pos + 2
    BY <1>1, <1>6, <2>2, <2>3, <2>4
  <2>6. S[pos + 1][2] = e
    BY <1>3, <2>3, <2>5
  <2>7. format # "length"
    BY <2>1, <2>3, <2>5, <2>6 DEF InBody, size
  <2>8. PICK i \in 1..n : S[i] = <<"boundary", e + 1>>
    BY <2>7 DEF Whole
  <2>9. i # pos + 2
    BY <1>3, <2>5, <2>8
  <2>10. i \in 1..Len(S) /\ i <= pos + 1
    BY <1>1, <2>5, <2>9
  <2>11. S[i][2] <= S[pos + 1][2]
    BY <2>3, <2>10, PartsGrow
  <2>12. e + 1 <= e
    BY <2>6, <2>8, <2>11
  <2> QED BY <2>12
<1> QED
  BY <1>1, <1>4, <1>5, <1>6

\* More tokens take no event away.
LEMMA MoreArrived ==
  ASSUME NEW S, NEW n \in Nat, NEW m \in Nat, n <= m, NEW pos \in 0..n, NEW c \in Nat, NEW Q,
         Told(Q, S, n, pos, c)
  PROVE  Told(Q, S, m, pos, c)
<1>1. ASSUME NEW e, Whole(e, S, n)
      PROVE  Whole(e, S, m)
  <2>1. \A i \in 1..n : i \in 1..m
    OBVIOUS
  <2> QED BY <1>1, <2>1 DEF Whole
<1> QED
  BY <1>1 DEF Told

\* feed puts a chunk into the buffer, or cuts it in its last part.
Buffered(tokens) == IF Overflows(tokens) THEN Resync(tokens) ELSE [parser EXCEPT !.buffer = tokens]
CutAt(tokens, last) == IF Overflows(tokens) THEN last[2] ELSE cut
StartsAt(tokens, c, Q, S, n, pos) ==
    /\ ParserOK(Buffered(tokens), S, n, pos, c) /\ Buffered(tokens).out = <<>>
    /\ Told(Q, S, n, pos, c)

LEMMA BufferOK ==
  ASSUME NEW S, IsStream(S), NEW n \in Nat, NEW m \in Nat, n < m, m <= Len(S),
         NEW pos \in 0..n, cut \in Nat, NEW Q, NEW tokens, tokens = SubSeq(S, pos + 1, m),
         ParserOK(parser, S, n, pos, cut), parser.out = <<>>, Told(Q, S, n, pos, cut)
  PROVE  \E to \in 0..m : StartsAt(tokens, CutAt(tokens, S[m]), Q, S, m, to)
<1>1. S \in Seq(Token) /\ Len(S) \in Nat /\ pos \in Nat /\ pos <= n /\ pos <= m /\ pos \in 0..m
  BY LenProperties DEF IsStream
<1>2. Told(Q, S, m, pos, cut)
  BY MoreArrived
<1>3. CASE ~Overflows(tokens)
  <2> DEFINE p == [parser EXCEPT !.buffer = tokens]
  <2>1. DOMAIN parser = {"buffer", "in_body", "expected", "out"}
    BY DEF ParserOK
  <2>2. /\ DOMAIN p = {"buffer", "in_body", "expected", "out"} /\ p.buffer = tokens
        /\ p.in_body = parser.in_body /\ p.expected = parser.expected /\ p.out = parser.out
    BY <2>1
  <2> HIDE DEF p
  <2>3. ParserOK(p, S, m, pos, cut)
    BY <2>2 DEF ParserOK
  <2>4. p = Buffered(tokens) /\ cut = CutAt(tokens, S[m])
    BY <1>3 DEF p, Buffered, CutAt
  <2> QED BY <1>1, <1>2, <2>2, <2>3, <2>4 DEF StartsAt
<1>4. CASE Overflows(tokens)
  <2> DEFINE I == {i \in 1..Len(tokens) : tokens[i][1] = "boundary"}
             i == IF boundary THEN IF I # {} THEN Max(I) ELSE 0 ELSE 0
             p == Resync(tokens)
             c == S[m][2]
             to == IF i > 1 THEN pos + i - 1 ELSE m
  <2>1. Len(tokens) = m - pos
    BY <1>1, PartOfPart
  <2>2. i \in 0..m - pos
    <3>1. CASE boundary /\ I # {}
      <4>1. I \subseteq 0..m - pos /\ m - pos \in Nat
        BY <1>1, <2>1
      <4>2. Max(I) \in I
        <5> HIDE DEF I
        <5> QED BY <3>1, <4>1, Greatest
      <4> HIDE DEF I
      <4> QED BY <3>1, <4>1, <4>2
    <3>2. CASE ~(boundary /\ I # {})
      BY <1>1, <3>2
    <3> QED BY <3>1, <3>2
  <2>3. p = [NewParser EXCEPT !.buffer = IF i > 1 THEN From(tokens, i) ELSE <<>>]
    BY DEF Resync, SelectLastInSeq
  <2>4. /\ DOMAIN p = {"buffer", "in_body", "expected", "out"} /\ ~p.in_body /\ p.out = <<>>
        /\ p.buffer = IF i > 1 THEN From(tokens, i) ELSE <<>>
    <3> HIDE DEF i, p
    <3> QED BY <2>3 DEF NewParser
  <2> HIDE DEF i, p
  <2>5. to \in pos..m /\ to \in 0..m
    BY <1>1, <2>2
  <2>6. p.buffer = SubSeq(S, to + 1, m)
    <3>1. CASE i > 1
      <4>1. i \in 1..m - pos + 1 /\ pos + i = to + 1
        BY <1>1, <2>2, <3>1
      <4>2. From(tokens, i) = SubSeq(S, pos + i, m)
        BY <1>1, <4>1, RestOfPart
      <4> QED BY <2>4, <3>1, <4>1, <4>2
    <3>2. CASE ~(i > 1)
      BY <2>4, <3>2, SubSeqEmpty
    <3> QED BY <3>1, <3>2
  <2>7. m \in 1..Len(S) /\ c \in Nat
    <3>1. m \in 1..Len(S)
      BY <1>1
    <3> QED BY <3>1, TokenOfStream
  <2> HIDE DEF to, c
  <2>8. \A j \in 1..m : S[j][2] <= c /\ S[j][2] \in Nat
    <3>1. ASSUME NEW j \in 1..m
          PROVE  S[j][2] <= c /\ S[j][2] \in Nat
      <4>1. j \in 1..Len(S) /\ j <= m
        BY <2>7
      <4> QED BY <2>7, <4>1, PartsGrow, TokenOfStream DEF c
    <3> QED BY <3>1
  <2>9. InHeaders(S, to, c)
    <3>1. to > 0 => to \in 1..m
      BY <2>5
    <3> QED BY <2>8, <3>1 DEF InHeaders
  <2>10. ParserOK(p, S, m, to, c)
    BY <2>4, <2>6, <2>9 DEF ParserOK
  <2>11. Told(Q, S, m, to, c)
    <3>1. \A j \in to + 1..Len(S) : j \in pos + 1..Len(S)
      BY <1>1, <2>5
    <3>2. \A j \in 1..to : ~(S[j][2] > c)
      <4>1. \A j \in 1..to : j \in 1..m
        BY <2>5
      <4> QED BY <2>7, <2>8, <4>1
    <3> QED BY <1>2, <3>1, <3>2 DEF Told
  <2>12. p = Buffered(tokens) /\ c = CutAt(tokens, S[m])
    BY <1>4 DEF p, c, Buffered, CutAt
  <2> QED BY <2>4, <2>5, <2>10, <2>11, <2>12 DEF StartsAt
<1> QED
  BY <1>3, <1>4

\* External: a part is a stream by itself.
LEMMA PartIsStream ==
  ASSUME format \in Formats, NEW e \in Nat, NEW beat \in BOOLEAN, NEW B, beat <=> e \in B
  PROVE  LET P == PartOf(e, beat)
         IN  /\ P \in Seq(Token) /\ Len(P) \in 3..5
             /\ P[1] = <<"boundary", e>> /\ P[Len(P)][1] \in Ends
             /\ \A i \in 1..Len(P) : P[i][2] = e
             /\ \A i \in 1..Len(P) - 1 : Follows(format, B, P[i], P[i + 1])
<1>1. ASSUME NEW head, NEW body, NEW P, P = head \o body, head \in Seq(Token), body \in Seq(Token),
             NEW m \in Nat, NEW n \in Nat, Len(head) = m, Len(body) = n
      PROVE  /\ P \in Seq(Token) /\ Len(P) = m + n
             /\ \A i \in 1..m : P[i] = head[i]
             /\ \A i \in 1..n : P[m + i] = body[i]
  <2>1. /\ P \in Seq(Token) /\ Len(P) = m + n
        /\ \A i \in 1..m + n : P[i] = IF i <= m THEN head[i] ELSE body[i - m]
    BY <1>1, ConcatProperties
  <2>2. ASSUME NEW i \in 1..n
        PROVE  P[m + i] = body[i]
    <3>1. m + i \in 1..m + n /\ ~(m + i <= m) /\ (m + i) - m = i
      OBVIOUS
    <3> QED BY <2>1, <3>1
  <2>3. ASSUME NEW i \in 1..m
        PROVE  P[i] = head[i]
    BY <2>1
  <2> QED BY <2>1, <2>2, <2>3
<1>2. ASSUME NEW a \in Token, NEW b \in Token
      PROVE  /\ <<a>> \in Seq(Token) /\ Len(<<a>>) = 1 /\ <<a>>[1] = a
             /\ <<a, b>> \in Seq(Token) /\ Len(<<a, b>>) = 2 /\ <<a, b>>[1] = a /\ <<a, b>>[2] = b
  OBVIOUS
<1>3. ASSUME NEW a \in Token, NEW b \in Token, NEW c \in Token
      PROVE  /\ <<a, b, c>> \in Seq(Token) /\ Len(<<a, b, c>>) = 3
             /\ <<a, b, c>>[1] = a /\ <<a, b, c>>[2] = b /\ <<a, b, c>>[3] = c
  OBVIOUS
<1>4. \A k \in Kinds : <<k, e>> \in Token
  BY DEF Token
<1> DEFINE T(k) == <<k, e>>
           P == PartOf(e, beat)
<1>5. \A k \in Kinds : T(k) \in Token /\ T(k)[1] = k /\ T(k)[2] = e
  BY <1>4
<1> HIDE DEF T
<1>6. CASE format = "bare"
  <2> DEFINE b == T("boundary")
             l == T("length")
  <2>1. CASE beat
    <3> DEFINE x == T("text")
    <3>1. P = <<b, l>> \o <<x>>
      BY <1>6, <2>1 DEF PartOf, Body, T
    <3>2. b \in Token /\ l \in Token /\ x \in Token
      BY <1>5 DEF Kinds
    <3>3. P \in Seq(Token) /\ Len(P) = 3 /\ P[1] = b /\ P[2] = l /\ P[3] = x
      <4> HIDE DEF P, b, l, x
      <4>1. /\ P \in Seq(Token) /\ Len(P) = 2 + 1 /\ P[2 + 1] = x
            /\ P[1] = <<b, l>>[1] /\ P[2] = <<b, l>>[2]
        BY <1>1, <1>2, <3>1, <3>2
      <4> QED BY <1>2, <3>2, <4>1
    <3>4. Follows(format, B, b, l) /\ Follows(format, B, l, x)
      BY <1>5, <1>6, <2>1 DEF Follows, Kinds, Ends
    <3>5. /\ b[2] = e /\ l[2] = e /\ x[2] = e /\ x[1] = "text" /\ b = <<"boundary", e>>
      BY <1>5 DEF Kinds, T
    <3> HIDE DEF P, b, l, x
    <3>6. \A i \in 1..3 : i \in {1, 2, 3}
      OBVIOUS
    <3>7. \A i \in 1..3 - 1 : i \in {1, 2}
      OBVIOUS
    <3> QED BY <3>3, <3>4, <3>5, <3>6, <3>7 DEF Ends, P
  <2>2. CASE ~beat
    <3> DEFINE x == T("code")
               y == T("data")
    <3>1. P = <<b, l>> \o <<x, y>>
      BY <1>6, <2>2 DEF PartOf, Body, T
    <3>2. b \in Token /\ l \in Token /\ x \in Token /\ y \in Token
      BY <1>5 DEF Kinds
    <3>3. P \in Seq(Token) /\ Len(P) = 4 /\ P[1] = b /\ P[2] = l /\ P[3] = x /\ P[4] = y
      <4> HIDE DEF P, b, l, x, y
      <4>1. /\ P \in Seq(Token) /\ Len(P) = 2 + 2 /\ P[2 + 1] = x /\ P[2 + 2] = y
            /\ P[1] = <<b, l>>[1] /\ P[2] = <<b, l>>[2]
        BY <1>1, <1>2, <3>1, <3>2
      <4> QED BY <1>2, <3>2, <4>1
    <3>4. Follows(format, B, b, l) /\ Follows(format, B, l, x) /\ Follows(format, B, x, y)
      BY <1>5, <1>6, <2>2 DEF Follows, Kinds, Ends
    <3>5. /\ b[2] = e /\ l[2] = e /\ x[2] = e /\ y[2] = e /\ y[1] = "data" /\ b = <<"boundary", e>>
      BY <1>5 DEF Kinds, T
    <3> HIDE DEF P, b, l, x, y
    <3>6. \A i \in 1..4 : i \in {1, 2, 3, 4}
      OBVIOUS
    <3>7. \A i \in 1..4 - 1 : i \in {1, 2, 3}
      OBVIOUS
    <3> QED BY <3>3, <3>4, <3>5, <3>6, <3>7 DEF Ends, P
  <2> QED BY <2>1, <2>2
<1>7. CASE format # "bare"
  <2> DEFINE b == T("boundary")
             l == T(IF format = "open" THEN "type" ELSE "length")
             z == T("blank")
  <2>1. format \in {"length", "open"}
    BY <1>7 DEF Formats
  <2>2. CASE beat
    <3> DEFINE x == T("text")
    <3>1. P = <<b, l, z>> \o <<x>>
      BY <2>1, <2>2 DEF PartOf, Body, T
    <3>2. b \in Token /\ l \in Token /\ z \in Token /\ x \in Token
      BY <1>5 DEF Kinds
    <3>3. P \in Seq(Token) /\ Len(P) = 4 /\ P[1] = b /\ P[2] = l /\ P[3] = z /\ P[4] = x
      <4> HIDE DEF P, b, l, z, x
      <4>1. /\ P \in Seq(Token) /\ Len(P) = 3 + 1 /\ P[3 + 1] = x
            /\ P[1] = <<b, l, z>>[1] /\ P[2] = <<b, l, z>>[2] /\ P[3] = <<b, l, z>>[3]
        BY <1>1, <1>2, <1>3, <3>1, <3>2
      <4> QED BY <1>3, <3>2, <4>1
    <3>4. Follows(format, B, b, l) /\ Follows(format, B, l, z) /\ Follows(format, B, z, x)
      BY <1>5, <2>1, <2>2 DEF Follows, Kinds, Ends
    <3>5. /\ b[2] = e /\ l[2] = e /\ z[2] = e /\ x[2] = e /\ x[1] = "text" /\ b = <<"boundary", e>>
      BY <1>5 DEF Kinds, T
    <3> HIDE DEF P, b, l, z, x
    <3>6. \A i \in 1..4 : i \in {1, 2, 3, 4}
      OBVIOUS
    <3>7. \A i \in 1..4 - 1 : i \in {1, 2, 3}
      OBVIOUS
    <3> QED BY <3>3, <3>4, <3>5, <3>6, <3>7 DEF Ends, P
  <2>3. CASE ~beat
    <3> DEFINE x == T("code")
               y == T("data")
    <3>1. P = <<b, l, z>> \o <<x, y>>
      BY <2>1, <2>3 DEF PartOf, Body, T
    <3>2. b \in Token /\ l \in Token /\ z \in Token /\ x \in Token /\ y \in Token
      BY <1>5 DEF Kinds
    <3>3. P \in Seq(Token) /\ Len(P) = 5 /\ P[1] = b /\ P[2] = l /\ P[3] = z /\ P[4] = x /\ P[5] = y
      <4> HIDE DEF P, b, l, z, x, y
      <4>1. /\ P \in Seq(Token) /\ Len(P) = 3 + 2 /\ P[3 + 1] = x /\ P[3 + 2] = y
            /\ P[1] = <<b, l, z>>[1] /\ P[2] = <<b, l, z>>[2] /\ P[3] = <<b, l, z>>[3]
        BY <1>1, <1>2, <1>3, <3>1, <3>2
      <4> QED BY <1>3, <3>2, <4>1
    <3>4. Follows(format, B, b, l) /\ Follows(format, B, l, z) /\ Follows(format, B, z, x) /\ Follows(format, B, x, y)
      BY <1>5, <2>1, <2>3 DEF Follows, Kinds, Ends
    <3>5. /\ b[2] = e /\ l[2] = e /\ z[2] = e /\ x[2] = e /\ y[2] = e /\ y[1] = "data" /\ b = <<"boundary", e>>
      BY <1>5 DEF Kinds, T
    <3> HIDE DEF P, b, l, z, x, y
    <3>6. \A i \in 1..5 : i \in {1, 2, 3, 4, 5}
      OBVIOUS
    <3>7. \A i \in 1..5 - 1 : i \in {1, 2, 3, 4}
      OBVIOUS
    <3> QED BY <3>3, <3>4, <3>5, <3>6, <3>7 DEF Ends, P
  <2> QED BY <2>2, <2>3
<1> QED
  BY <1>6, <1>7

(***************************************************************************)
(* The inductive invariant of the attach stream.                           *)
(***************************************************************************)
Stream == received \o wire

\* The connection: whole parts up to the last one sent, and a parser that has
\* told what it took off its buffer.
Connected ==
    /\ received \in Seq(Token) /\ wire \in Seq(Token)
    /\ IsStream(Stream)
    /\ \A i \in 1..Len(Stream) : Stream[i][2] \in 1..part
    /\ Stream # <<>> => Stream[Len(Stream)][2] = part
    /\ parser.out = <<>>
    /\ \E pos \in 0..Len(received) :
           /\ ParserOK(parser, Stream, Len(received), pos, cut)
           /\ Told(collected, Stream, Len(received), pos, cut)

FeedInv ==
    /\ format \in Formats /\ part \in Nat /\ beats \subseteq 1..part /\ cut \in Nat
    /\ collected \in Seq(Nat) /\ Len(earlier) \in 0..Len(collected)
    /\ \A i \in 1..Len(collected) : collected[i] <= part
    /\ EveryEventOnce
    /\ link \in {"up", "down"}
    /\ link = "down" => wire = <<>>
    /\ link = "up" => Connected

\* The events of a connection are the end of all that were collected.
LEMMA EndOfCollected ==
  ASSUME NEW Q \in Seq(Nat), NEW n \in 0..Len(Q)
  PROVE  ToSet(From(Q, n + 1)) = {Q[i] : i \in n + 1..Len(Q)}
<1>1. Len(Q) \in Nat /\ n \in Nat /\ n <= Len(Q)
  BY LenProperties
<1> DEFINE T == SubSeq(Q, n + 1, Len(Q))
<1>2. \A i \in n + 1..Len(Q) : Q[i] \in Nat
  <2>1. \A i \in n + 1..Len(Q) : i \in 1..Len(Q)
    BY <1>1
  <2> QED BY <2>1, ElementOfSeq
<1>3. /\ T \in Seq(Nat) /\ Len(T) = Len(Q) - n /\ \A j \in 1..Len(Q) - n : T[j] = Q[n + j]
  <2>1. /\ T \in Seq(Nat) /\ Len(T) = IF n + 1 <= Len(Q) THEN Len(Q) - (n + 1) + 1 ELSE 0
        /\ \A j \in 1..Len(Q) - (n + 1) + 1 : T[j] = Q[(n + 1) + j - 1]
    BY <1>1, <1>2, SubSeqProperties
  <2> QED BY <1>1, <2>1
<1> HIDE DEF T
<1>4. DOMAIN T = 1..Len(Q) - n
  BY <1>3, LenProperties
<1>5. ASSUME NEW j \in 1..Len(Q) - n
      PROVE  T[j] \in {Q[i] : i \in n + 1..Len(Q)}
  <2>1. n + j \in n + 1..Len(Q)
    BY <1>1
  <2> QED BY <1>3, <2>1
<1>6. ASSUME NEW i \in n + 1..Len(Q)
      PROVE  Q[i] \in {T[j] : j \in 1..Len(Q) - n}
  <2>1. i - n \in 1..Len(Q) - n /\ n + (i - n) = i
    BY <1>1
  <2> QED BY <1>3, <2>1
<1>7. ToSet(From(Q, n + 1)) = {T[j] : j \in 1..Len(Q) - n}
  BY <1>4 DEF ToSet, From, T
<1> QED BY <1>5, <1>6, <1>7

LEMMA FeedStarts ==
  ASSUME FeedInit
  PROVE  FeedInv
<1>1. collected = <<>> /\ earlier = <<>> /\ received = <<>> /\ part = 0
  BY DEF FeedInit
<1>2. collected \in Seq(Nat) /\ Len(collected) = 0 /\ Len(earlier) = 0 /\ Len(received) = 0
  BY <1>1
<1>3. OnThisConnection = <<>>
  BY <1>1, <1>2, SubSeqEmpty DEF OnThisConnection, From
<1>4. ToSet(OnThisConnection) = {}
  BY <1>3 DEF ToSet
<1>5. Complete = {}
  BY <1>1 DEF Complete
<1>6. EveryEventOnce
  BY <1>2, <1>4, <1>5 DEF EveryEventOnce
<1> QED
  BY <1>2, <1>6 DEF FeedInit, FeedInv

\* A new connection begins with nothing told of it.
LEMMA AttachKeeps ==
  ASSUME FeedInv, Attach
  PROVE  FeedInv'
<1>1. /\ link = "down" /\ link' = "up" /\ parser' = NewParser /\ received' = <<>> /\ earlier' = collected
      /\ cut' = 0 /\ UNCHANGED <<format, beats, part, wire, collected>>
  BY DEF Attach
<1>2. wire' = <<>> /\ collected \in Seq(Nat) /\ Len(collected) \in Nat
  BY <1>1, LenProperties DEF FeedInv
<1> DEFINE Q == collected
<1>3. \A i, j \in 1..Len(Q) : i < j => Q[i] < Q[j]
  BY DEF FeedInv, EveryEventOnce
<1>4. Len(received') = 0 /\ Len(Stream') = 0 /\ Stream' = <<>> /\ received' \in Seq(Token) /\ wire' \in Seq(Token)
      /\ Stream' \in Seq(Token)
  <2>1. <<>> \o <<>> = <<>> /\ <<>> \in Seq(Token) /\ Len(<<>>) = 0
    BY EmptySeq, ConcatEmptySeq
  <2> QED BY <1>1, <1>2, <2>1 DEF Stream
<1>5. IsStream(Stream)'
  BY <1>4 DEF IsStream
<1>6. ParserOK(parser, Stream, Len(received), 0, cut)'
  <2>1. SubSeq(<<>>, 0 + 1, 0) = <<>>
    BY SubSeqEmpty
  <2> QED BY <1>1, <1>4, <2>1 DEF ParserOK, InHeaders, NewParser
<1>7. Told(collected, Stream, Len(received), 0, cut)'
  BY <1>1, <1>2, <1>3, <1>4 DEF Told
<1>8. Connected'
  <2>1. (parser.out = <<>>)'
    BY <1>1 DEF NewParser
  <2>2. 0 \in 0..Len(received')
    BY <1>4
  <2> QED BY <1>4, <1>5, <1>6, <1>7, <2>1, <2>2 DEF Connected
<1>9. EveryEventOnce'
  <2>1. OnThisConnection' = <<>>
    BY <1>1, <1>2, SubSeqEmpty DEF OnThisConnection, From
  <2>2. ToSet(OnThisConnection') = {}
    BY <2>1 DEF ToSet
  <2>3. Complete' = {}
    BY <1>4 DEF Complete, Arrived
  <2> QED BY <1>1, <1>3, <2>2, <2>3 DEF EveryEventOnce
<1> QED
  BY <1>1, <1>2, <1>8, <1>9 DEF FeedInv

LEMMA JoinedTokens ==
  \A s, t, u \in Seq(Token) : s \o (t \o u) = (s \o t) \o u
<1> SUFFICES ASSUME NEW A, NEW s \in Seq(A), NEW t \in Seq(A), NEW u \in Seq(A)
             PROVE  s \o (t \o u) = (s \o t) \o u
  OBVIOUS
<1> QED BY ConcatAssociative

\* What is added at the end of a sequence does not show in its beginning.
LEMMA PartOfFront ==
  ASSUME NEW S \in Seq(Token), NEW P \in Seq(Token), NEW a \in Nat, NEW n \in Nat, a <= n, n <= Len(S)
  PROVE  SubSeq(S \o P, a + 1, n) = SubSeq(S, a + 1, n)
<1>1. CASE a = n
  BY <1>1, SubSeqEmpty
<1>2. CASE a # n
  <2>1. a + 1 \in 1..Len(S) /\ n \in 1..Len(S)
    BY <1>2, LenProperties
  <2> QED BY <2>1, SubSeqOfConcat1
<1> QED BY <1>1, <1>2

\* The recorder adds a part to the stream.
LEMMA SendKeeps ==
  ASSUME FeedInv, Send
  PROVE  FeedInv'
<1>1. PICK beat \in BOOLEAN : /\ beats' = IF beat THEN beats \cup {part + 1} ELSE beats
                              /\ wire' = wire \o PartOf(part + 1, beat)
  BY DEF Send
<1>2. /\ link = "up" /\ part' = part + 1
      /\ UNCHANGED <<format, parser, link, collected, earlier, received, cut>>
  BY DEF Send
<1>3. /\ format \in Formats /\ part \in Nat /\ beats \subseteq 1..part /\ cut \in Nat /\ Connected
      /\ collected \in Seq(Nat) /\ Len(collected) \in Nat /\ Len(earlier) \in 0..Len(collected)
      /\ \A i \in 1..Len(collected) : collected[i] <= part /\ collected[i] \in Nat
  BY <1>2, LenProperties, ElementOfSeq DEF FeedInv
<1> DEFINE S == Stream
           P == PartOf(part + 1, beat)
           n == Len(received)
<1>4. /\ received \in Seq(Token) /\ wire \in Seq(Token) /\ IsStream(S)
      /\ \A i \in 1..Len(S) : S[i][2] \in 1..part
      /\ S # <<>> => S[Len(S)][2] = part
      /\ parser.out = <<>>
  BY <1>3 DEF Connected
<1>5. S \in Seq(Token) /\ Len(S) \in Nat /\ n \in Nat /\ n <= Len(S) /\ \A i \in 1..n : S[i] = received[i]
  <2>1. n \in Nat /\ Len(wire) \in Nat
    BY <1>4, LenProperties
  <2>2. /\ S \in Seq(Token) /\ Len(S) = n + Len(wire)
        /\ \A i \in 1..n + Len(wire) : S[i] = IF i <= n THEN received[i] ELSE wire[i - n]
    BY <1>4, ConcatProperties DEF Stream
  <2> QED BY <2>1, <2>2
<1>6. /\ P \in Seq(Token) /\ Len(P) \in 3..5
      /\ P[1] = <<"boundary", part + 1>> /\ P[Len(P)][1] \in Ends
      /\ \A i \in 1..Len(P) : P[i][2] = part + 1
      /\ \A i \in 1..Len(P) - 1 : Follows(format, beats', P[i], P[i + 1])
  <2>1. part + 1 \in Nat /\ part + 1 \notin beats
    BY <1>3
  <2>2. beat <=> part + 1 \in beats'
    BY <1>1, <2>1
  <2> QED BY <1>3, <2>1, <2>2, PartIsStream
<1> DEFINE T == S \o P
<1>7. Stream' = T
  BY <1>1, <1>2, <1>4, <1>6, JoinedTokens DEF Stream
<1> HIDE DEF P, S, n
<1>8. /\ T \in Seq(Token) /\ Len(T) = Len(S) + Len(P) /\ Len(T) \in Nat
      /\ \A i \in 1..Len(S) : T[i] = S[i]
      /\ \A i \in 1..Len(P) : T[Len(S) + i] = P[i]
  <2>1. /\ T \in Seq(Token) /\ Len(T) = Len(S) + Len(P)
        /\ \A i \in 1..Len(S) + Len(P) : T[i] = IF i <= Len(S) THEN S[i] ELSE P[i - Len(S)]
    BY <1>5, <1>6, ConcatProperties
  <2>2. ASSUME NEW i \in 1..Len(S)
        PROVE  T[i] = S[i]
    <3>1. i \in 1..Len(S) + Len(P) /\ i <= Len(S)
      BY <1>5, <1>6
    <3> QED BY <2>1, <3>1
  <2>3. ASSUME NEW i \in 1..Len(P)
        PROVE  T[Len(S) + i] = P[i]
    <3>1. Len(S) + i \in 1..Len(S) + Len(P) /\ ~(Len(S) + i <= Len(S)) /\ (Len(S) + i) - Len(S) = i
      BY <1>5, <1>6
    <3> HIDE DEF T
    <3> QED BY <2>1, <3>1
  <2>4. Len(S) + Len(P) \in Nat
    BY <1>5, <1>6
  <2> QED BY <2>1, <2>2, <2>3, <2>4
<1> HIDE DEF T
<1>9. ASSUME NEW j \in 1..Len(T)
      PROVE  j \in 1..Len(S) \/ \E i \in 1..Len(P) : j = Len(S) + i
  <2>1. j > Len(S) => j - Len(S) \in 1..Len(P) /\ j = Len(S) + (j - Len(S))
    BY <1>5, <1>6, <1>8
  <2>2. ~(j > Len(S)) => j \in 1..Len(S)
    BY <1>5
  <2> QED BY <2>1, <2>2
<1>10. IsStream(Stream)'
  <2>1. T[1][1] = "boundary" /\ T[Len(T)][1] \in Ends
    <3>1. CASE Len(S) = 0
      <4>1. T[1] = P[1]
        <5>1. 1 \in 1..Len(P) /\ Len(S) + 1 = 1
          BY <1>6, <3>1
        <5> QED BY <1>8, <5>1
      <4>2. Len(P) \in 1..Len(P) /\ Len(T) = Len(S) + Len(P)
        BY <1>6, <1>8
      <4> QED BY <1>6, <1>8, <4>1, <4>2
    <3>2. CASE Len(S) # 0
      <4>1. 1 \in 1..Len(S) /\ S # <<>>
        BY <1>5, <3>2
      <4>2. T[1][1] = "boundary"
        BY <1>4, <1>8, <4>1 DEF IsStream
      <4>3. Len(P) \in 1..Len(P) /\ Len(T) = Len(S) + Len(P)
        BY <1>6, <1>8
      <4> QED BY <1>6, <1>8, <4>2, <4>3
    <3> QED BY <3>1, <3>2
  <2>2. ASSUME NEW i \in 1..Len(T) - 1
        PROVE  Follows(format, beats', T[i], T[i + 1])
    <3>1. CASE i < Len(S)
      <4>1. i \in 1..Len(S) - 1 /\ i \in 1..Len(S) /\ i + 1 \in 1..Len(S)
        BY <1>5, <3>1
      <4>2. Follows(format, beats, S[i], S[i + 1])
        BY <1>4, <4>1 DEF IsStream
      <4>3. S[i][2] \in beats <=> S[i][2] \in beats'
        <5>1. S[i][2] # part + 1
          BY <1>3, <1>4, <4>1
        <5> QED BY <1>1, <5>1
      <4>4. Follows(format, beats', S[i], S[i + 1])
        BY <4>2, <4>3 DEF Follows
      <4> QED BY <1>8, <4>1, <4>4
    <3>2. CASE i = Len(S)
      <4>1. i \in 1..Len(S) /\ S # <<>> /\ 1 \in 1..Len(P)
        BY <1>5, <1>6, <3>2
      <4>2. T[i] = S[i] /\ T[i + 1] = P[1]
        BY <1>8, <3>2, <4>1
      <4>3. S[i][1] \in Ends /\ S[i][2] = part
        BY <1>4, <3>2, <4>1 DEF IsStream
      <4>4. P[1][1] = "boundary" /\ P[1][2] = part + 1
        BY <1>6
      <4> QED BY <4>2, <4>3, <4>4 DEF Follows, Ends
    <3>3. CASE i > Len(S)
      <4> DEFINE k == i - Len(S)
      <4>1. k \in 1..Len(P) - 1 /\ k \in 1..Len(P) /\ k + 1 \in 1..Len(P) /\ i = Len(S) + k /\ i + 1 = Len(S) + (k + 1)
        BY <1>5, <1>6, <1>8, <3>3
      <4> HIDE DEF k
      <4>2. T[i] = P[k] /\ T[i + 1] = P[k + 1]
        BY <1>8, <4>1
      <4> QED BY <1>6, <4>1, <4>2
    <3> QED BY <1>5, <3>1, <3>2, <3>3
  <2>3. /\ T \in Seq(Token)
        /\ T # <<>> => T[1][1] = "boundary" /\ T[Len(T)][1] \in Ends
        /\ \A i \in 1..Len(T) - 1 : Follows(format', beats', T[i], T[i + 1])
    BY <1>2, <1>8, <2>1, <2>2
  <2> QED BY <1>7, <2>3 DEF IsStream
<1>11. PICK pos \in 0..n : ParserOK(parser, S, n, pos, cut) /\ Told(collected, S, n, pos, cut)
  BY <1>3 DEF Connected, S, n
<1>12. pos \in Nat /\ pos <= n /\ pos <= Len(S) /\ Len(S) <= Len(T)
  BY <1>5, <1>6, <1>8
<1>13. \A i \in 1..n : T[i] = S[i] /\ i \in 1..Len(S)
  BY <1>5, <1>8
<1>14. ParserOK(parser, Stream, Len(received), pos, cut)'
  <2>1. SubSeq(T, pos + 1, n) = SubSeq(S, pos + 1, n)
    BY <1>5, <1>6, <1>12, PartOfFront DEF T
  <2>2. InHeaders(S, pos, cut) => InHeaders(T, pos, cut)
    <3>1. pos > 0 => T[pos] = S[pos]
      BY <1>12, <1>13
    <3> QED BY <3>1 DEF InHeaders
  <2>3. InBody(parser.expected, S, pos, cut) => InBody(parser.expected, T, pos, cut)
    <3>1. ASSUME pos + 1 \in 1..Len(S)
          PROVE  T[pos + 1] = S[pos + 1] /\ pos + 1 \in 1..Len(T)
      BY <1>8, <1>12, <3>1
    <3> QED BY <3>1 DEF InBody, Size
  <2>4. ParserOK(parser, T, n, pos, cut)
    BY <1>11, <2>1, <2>2, <2>3 DEF ParserOK
  <2> QED BY <1>2, <1>7, <2>4 DEF ParserOK, InBody, Size, InHeaders, n
<1>15. Told(collected, Stream, Len(received), pos, cut)'
  <2>1. ASSUME NEW i \in 1..Len(collected), NEW j \in pos + 1..Len(T), T[j][1] = "code"
        PROVE  collected[i] < T[j][2]
    <3>1. j \in 1..Len(T)
      BY <1>12
    <3>2. CASE j \in 1..Len(S)
      <4>1. j \in pos + 1..Len(S) /\ T[j] = S[j]
        BY <1>8, <1>12, <3>2
      <4> QED BY <1>11, <2>1, <4>1 DEF Told
    <3>3. CASE \E k \in 1..Len(P) : j = Len(S) + k
      <4>1. T[j][2] = part + 1
        BY <1>6, <1>8, <3>3
      <4> QED BY <1>3, <4>1
    <3> QED BY <1>9, <3>1, <3>2, <3>3
  <2>2. ASSUME NEW e, Whole(e, S, n)
        PROVE  Whole(e, T, n)
    BY <1>13, <2>2 DEF Whole
  <2>3. \A j \in 1..pos : T[j] = S[j]
    <3>1. \A j \in 1..pos : j \in 1..n
      BY <1>5, <1>12
    <3> QED BY <1>13, <3>1
  <2>4. Told(collected, T, n, pos, cut)
    BY <1>11, <2>1, <2>2, <2>3 DEF Told
  <2> QED BY <1>2, <1>7, <2>4 DEF Told, Whole, n
<1>16. \A i \in 1..Len(T) : T[i][2] \in 1..part + 1
  <2>1. ASSUME NEW i \in 1..Len(T)
        PROVE  T[i][2] \in 1..part + 1
    <3>1. CASE i \in 1..Len(S)
      <4>1. T[i][2] \in 1..part
        BY <1>4, <1>8, <3>1
      <4> QED BY <1>3, <4>1
    <3>2. CASE \E k \in 1..Len(P) : i = Len(S) + k
      <4>1. T[i][2] = part + 1
        BY <1>6, <1>8, <3>2
      <4> QED BY <1>3, <4>1
    <3> QED BY <1>9, <3>1, <3>2
  <2> QED BY <2>1
<1>17. T[Len(T)][2] = part + 1
  <2>1. Len(P) \in 1..Len(P) /\ Len(T) = Len(S) + Len(P)
    BY <1>6, <1>8
  <2> QED BY <1>6, <1>8, <2>1
<1>18. Connected'
  <2>1. received' \in Seq(Token) /\ wire' \in Seq(Token)
    BY <1>1, <1>2, <1>4, <1>6, ConcatProperties DEF P
  <2>2. /\ (\A i \in 1..Len(Stream) : Stream[i][2] \in 1..part)'
        /\ (Stream # <<>> => Stream[Len(Stream)][2] = part)'
    BY <1>2, <1>7, <1>16, <1>17
  <2>3. (parser.out = <<>>)' /\ pos \in 0..Len(received')
    BY <1>2, <1>4 DEF n
  <2> QED BY <1>10, <1>14, <1>15, <2>1, <2>2, <2>3 DEF Connected
<1>19. EveryEventOnce'
  <2>1. OnThisConnection' = OnThisConnection
    BY <1>2 DEF OnThisConnection
  <2>2. Complete' = Complete
    <3>1. \A e, kind : Arrived(e, kind)' <=> Arrived(e, kind)
      BY <1>2 DEF Arrived
    <3>2. ~Arrived(part + 1, "data")
      <4>1. SUFFICES ASSUME NEW i \in 1..n, received[i] = <<"data", part + 1>>
                     PROVE  FALSE
        BY DEF Arrived, n
      <4>2. S[i][2] \in 1..part /\ S[i][2] = part + 1
        BY <1>4, <1>5, <1>13, <4>1
      <4> QED BY <1>3, <4>2
    <3>3. \A e \in 1..part' : e \in 1..part \/ e = part + 1
      BY <1>2, <1>3
    <3>4. \A e \in 1..part : e \in 1..part'
      BY <1>2, <1>3
    <3> QED BY <1>2, <3>1, <3>2, <3>3, <3>4 DEF Complete
  <2>3. EveryEventOnce
    BY DEF FeedInv
  <2> QED BY <1>2, <2>1, <2>2, <2>3 DEF EveryEventOnce
<1>20. part' \in Nat /\ beats' \subseteq 1..part' /\ \A i \in 1..Len(collected) : collected[i] <= part'
  BY <1>1, <1>2, <1>3
<1> QED
  BY <1>2, <1>3, <1>18, <1>19, <1>20 DEF FeedInv

\* A chunk of the wire is the next piece of the stream.
LEMMA ChunkOfStream ==
  ASSUME NEW R \in Seq(Token), NEW W \in Seq(Token), NEW k \in 1..Len(W), NEW pos \in 0..Len(R)
  PROVE  LET S == R \o W
             chunk == SubSeq(W, 1, k)
         IN  /\ R \o chunk \in Seq(Token) /\ From(W, k + 1) \in Seq(Token)
             /\ (R \o chunk) \o From(W, k + 1) = S
             /\ Len(R \o chunk) = Len(R) + k
             /\ \A i \in 1..Len(R) + k : (R \o chunk)[i] = S[i]
             /\ SubSeq(S, pos + 1, Len(R)) \o chunk = SubSeq(S, pos + 1, Len(R) + k)
             /\ Last(chunk) = S[Len(R) + k]
<1> DEFINE S == R \o W
           chunk == SubSeq(W, 1, k)
           rest == SubSeq(W, k + 1, Len(W))
           n == Len(R)
<1>1. n \in Nat /\ Len(W) \in Nat /\ k \in Nat /\ pos \in Nat /\ pos <= n /\ 1 <= k /\ k <= Len(W)
  BY LenProperties
<1>2. \A i \in 1..Len(W) : W[i] \in Token
  BY ElementOfSeq
<1>3. /\ chunk \in Seq(Token) /\ Len(chunk) = k /\ \A i \in 1..k : chunk[i] = W[i]
  <2>1. \A i \in 1..k : W[i] \in Token
    BY <1>1, <1>2
  <2>2. /\ chunk \in Seq(Token) /\ Len(chunk) = IF 1 <= k THEN k - 1 + 1 ELSE 0
        /\ \A i \in 1..k - 1 + 1 : chunk[i] = W[1 + i - 1]
    BY <1>1, <2>1, SubSeqProperties
  <2> QED BY <1>1, <2>2
<1>4. rest \in Seq(Token)
  <2>1. \A i \in k + 1..Len(W) : W[i] \in Token
    BY <1>1, <1>2
  <2> QED BY <1>1, <2>1, SubSeqProperties
<1>5. chunk \o rest = W
  <2>1. 1 \in 1..Len(W) + 1 /\ k \in 1 - 1..Len(W) /\ Len(W) \in k..Len(W)
    BY <1>1
  <2> QED BY <2>1, ConcatAdjacentSubSeq, SubSeqFull
<1>6. (R \o chunk) \o rest = S
  <2> HIDE DEF chunk, rest
  <2>1. R \o (chunk \o rest) = (R \o chunk) \o rest
    BY <1>3, <1>4, JoinedTokens
  <2> QED BY <1>5, <2>1
<1>7. /\ S \in Seq(Token) /\ Len(S) = n + Len(W)
      /\ \A i \in 1..n + Len(W) : S[i] = IF i <= n THEN R[i] ELSE W[i - n]
  BY ConcatProperties
<1>8. /\ R \o chunk \in Seq(Token) /\ Len(R \o chunk) = n + k
      /\ \A i \in 1..n + k : (R \o chunk)[i] = IF i <= n THEN R[i] ELSE chunk[i - n]
  BY <1>3, ConcatProperties
<1>9. ASSUME NEW i \in 1..n + k
      PROVE  (R \o chunk)[i] = S[i]
  <2>1. i \in 1..n + Len(W) /\ (~(i <= n) => i - n \in 1..k)
    BY <1>1
  <2> HIDE DEF S, chunk
  <2> QED BY <1>3, <1>7, <1>8, <2>1
<1>10. SubSeq(S, n + 1, n + k) = chunk
  <2>1. n + 1 \in n + 1..n + Len(W) /\ n + k \in n + 1..n + Len(W)
        /\ (n + 1) - n = 1 /\ (n + k) - n = k
    BY <1>1
  <2>2. SubSeq(R \o W, n + 1, n + k) = SubSeq(W, (n + 1) - n, (n + k) - n)
    BY <2>1, SubSeqOfConcat2
  <2> QED BY <2>1, <2>2
<1>11. SubSeq(S, pos + 1, n) \o chunk = SubSeq(S, pos + 1, n + k)
  <2>1. pos + 1 \in 1..Len(S) + 1 /\ n \in (pos + 1) - 1..Len(S) /\ n + k \in n..Len(S)
    BY <1>1, <1>7
  <2> HIDE DEF S, chunk
  <2>2. SubSeq(S, pos + 1, n) \o SubSeq(S, n + 1, n + k) = SubSeq(S, pos + 1, n + k)
    BY <1>7, <2>1, ConcatAdjacentSubSeq
  <2> QED BY <1>10, <2>2
<1>12. Last(chunk) = S[n + k]
  <2>1. n + k \in 1..n + Len(W) /\ ~(n + k <= n) /\ (n + k) - n = k /\ k \in 1..k
    BY <1>1
  <2> HIDE DEF S, chunk
  <2> QED BY <1>3, <1>7, <2>1 DEF Last
<1> HIDE DEF S, chunk
<1> QED BY <1>4, <1>6, <1>8, <1>9, <1>11, <1>12 DEF S, chunk, From

SentParts(S) == \A i \in 1..Len(S) : S[i][2] \in 1..part

\* At rest, what the parser has told is what a reader of the wire expects.
LEMMA ToldIsEnough ==
  ASSUME NEW S, IsStream(S), NEW n \in Nat, n <= Len(S), NEW pos \in 0..n, NEW c \in Nat, NEW Q, NEW p,
         format \in Formats, part \in Nat, SentParts(S),
         ParserOK(p, S, n, pos, c), Rests(p, S, n, pos), Told(Q, S, n, pos, c)
  PROVE  /\ \A i \in Len(earlier) + 1..Len(Q) : Q[i] \in 1..part /\ Whole(Q[i], S, n)
         /\ \A e \in 1..part : Whole(e, S, n) /\ e > c => \E i \in Len(earlier) + 1..Len(Q) : Q[i] = e
<1>1. ASSUME NEW e, Whole(e, S, n)
      PROVE  e \in 1..part
  <2>1. PICK i \in 1..n : S[i] = <<"data", e>>
    BY <1>1 DEF Whole
  <2>2. i \in 1..Len(S)
    BY <2>1, LenProperties DEF IsStream
  <2> QED BY <2>1, <2>2 DEF SentParts
<1>2. ASSUME NEW e \in 1..part, Whole(e, S, n), e > c
      PROVE  \E i \in Len(earlier) + 1..Len(Q) : Q[i] = e
  BY <1>2, AllTold
<1> QED
  BY <1>1, <1>2 DEF Told

\* A chunk of the stream arrives.
LEMMA ReceiveKeeps ==
  ASSUME FeedInv, Receive
  PROVE  FeedInv'
<1>1. PICK k \in 1..Len(wire) :
        LET chunk == SubSeq(wire, 1, k)
            fed == feed(chunk)
        IN  /\ wire' = From(wire, k + 1)
            /\ received' = received \o chunk
            /\ parser' = [fed EXCEPT !.out = <<>>]
            /\ collected' = collected \o fed.out
            /\ cut' = IF Overflows(parser.buffer \o chunk) THEN Last(chunk)[2] ELSE cut
  BY DEF Receive
<1>2. link = "up" /\ UNCHANGED <<format, part, beats, link, earlier>>
  BY DEF Receive
<1>3. /\ format \in Formats /\ part \in Nat /\ beats \subseteq 1..part /\ cut \in Nat /\ Connected
      /\ collected \in Seq(Nat) /\ Len(earlier) \in 0..Len(collected)
      /\ \A i \in 1..Len(collected) : collected[i] <= part
  BY <1>2 DEF FeedInv
<1> DEFINE S == Stream
           n == Len(received)
           m == n + k
           chunk == SubSeq(wire, 1, k)
           tokens == parser.buffer \o chunk
           start == IF Overflows(tokens) THEN Resync(tokens) ELSE [parser EXCEPT !.buffer = tokens]
           fed == Drain(start)
<1>4. /\ wire' = From(wire, k + 1) /\ received' = received \o chunk
      /\ parser' = [fed EXCEPT !.out = <<>>] /\ collected' = collected \o fed.out
      /\ cut' = IF Overflows(tokens) THEN Last(chunk)[2] ELSE cut
  BY <1>1 DEF feed
<1>5. /\ received \in Seq(Token) /\ wire \in Seq(Token) /\ IsStream(S)
      /\ \A i \in 1..Len(S) : S[i][2] \in 1..part
      /\ S # <<>> => S[Len(S)][2] = part
      /\ parser.out = <<>>
  BY <1>3 DEF Connected
<1>6. PICK pos \in 0..n : ParserOK(parser, S, n, pos, cut) /\ Told(collected, S, n, pos, cut)
  BY <1>3 DEF Connected
<1>7. /\ received' \in Seq(Token) /\ wire' \in Seq(Token) /\ Stream' = S
      /\ Len(received') = m /\ \A i \in 1..m : received'[i] = S[i]
      /\ SubSeq(S, pos + 1, n) \o chunk = SubSeq(S, pos + 1, m)
      /\ Last(chunk) = S[m]
  BY <1>4, <1>5, ChunkOfStream DEF Stream
<1>8. n \in Nat /\ m \in Nat /\ n < m /\ m <= Len(S) /\ Len(S) \in Nat /\ m \in 1..Len(S)
  <2>1. n \in Nat /\ Len(wire) \in Nat /\ Len(S) = n + Len(wire)
    BY <1>5, LenProperties, ConcatProperties DEF Stream
  <2> QED BY <2>1
<1>9. tokens = SubSeq(S, pos + 1, m)
  BY <1>6, <1>7 DEF ParserOK
<1> HIDE DEF S, n, m, chunk, tokens
<1>10. cut' = IF Overflows(tokens) THEN S[m][2] ELSE cut
  BY <1>4, <1>7
<1>11. cut' \in Nat
  BY <1>3, <1>5, <1>8, <1>10
<1>12. PICK from \in 0..m : ParserOK(start, S, m, from, cut') /\ start.out = <<>> /\ Told(collected, S, m, from, cut')
  <2>1. \E from \in 0..m : StartsAt(tokens, CutAt(tokens, S[m]), collected, S, m, from)
    BY <1>3, <1>5, <1>6, <1>8, <1>9, BufferOK
  <2>2. start = Buffered(tokens) /\ cut' = CutAt(tokens, S[m])
    BY <1>10 DEF Buffered, CutAt
  <2> HIDE DEF start
  <2> QED BY <2>1, <2>2 DEF StartsAt
<1> HIDE DEF start
<1>13. ParserIs(start, collected, S, m, from, cut')
  <2>1. collected \o <<>> = collected /\ <<>> \in Seq(Nat)
    BY <1>3, ConcatEmptySeq
  <2> QED BY <1>12, <2>1 DEF ParserIs
<1>14. PICK to \in from..m : ParserIs(fed, collected, S, m, to, cut') /\ Rests(fed, S, m, to)
  <2>1. from \in 0..m
    OBVIOUS
  <2> QED BY <1>3, <1>5, <1>8, <1>11, <1>13, <2>1, DrainOK
<1> HIDE DEF fed
<1>15. to \in 0..m
  BY <1>8
<1>16. /\ parser'.out = <<>> /\ ParserOK(parser', S, m, to, cut')
       /\ Rests(parser', S, m, to) /\ Told(collected', S, m, to, cut')
  <2>1. DOMAIN fed = {"buffer", "in_body", "expected", "out"}
    BY <1>14 DEF ParserIs, ParserOK
  <2>2. /\ DOMAIN parser' = {"buffer", "in_body", "expected", "out"} /\ parser'.out = <<>>
        /\ parser'.buffer = fed.buffer /\ parser'.in_body = fed.in_body /\ parser'.expected = fed.expected
    BY <1>4, <2>1
  <2>3. ParserOK(parser', S, m, to, cut')
    BY <1>14, <2>2 DEF ParserIs, ParserOK
  <2>4. Rests(parser', S, m, to)
    BY <1>14, <2>2 DEF Rests, BodyEnd
  <2>5. Told(collected', S, m, to, cut')
    BY <1>4, <1>14 DEF ParserIs
  <2> QED BY <2>2, <2>3, <2>4, <2>5
<1>17. Connected'
  <2>1. IsStream(Stream)'
    BY <1>2, <1>5, <1>7 DEF IsStream, Follows
  <2>2. ParserOK(parser, Stream, Len(received), to, cut)'
    BY <1>2, <1>7, <1>16 DEF ParserOK, InHeaders, InBody, Size
  <2>3. Told(collected, Stream, Len(received), to, cut)'
    BY <1>2, <1>7, <1>16 DEF Told, Whole
  <2>4. /\ (\A i \in 1..Len(Stream) : Stream[i][2] \in 1..part)'
        /\ (Stream # <<>> => Stream[Len(Stream)][2] = part)'
    BY <1>2, <1>5, <1>7
  <2>5. to \in 0..Len(received')
    BY <1>7, <1>15
  <2> QED BY <1>7, <1>16, <2>1, <2>2, <2>3, <2>4, <2>5 DEF Connected
<1> DEFINE Q == collected'
           new == {Q[i] : i \in Len(earlier) + 1..Len(Q)}
           whole == {e \in 1..part : Whole(e, S, m)}
<1>18. /\ Q \in Seq(Nat) /\ Len(earlier) \in 0..Len(Q)
       /\ \A i, j \in 1..Len(Q) : i < j => Q[i] < Q[j]
  BY <1>16 DEF Told
<1>19. new \subseteq whole /\ (cut' = 0 => new = whole) /\ {e \in whole : e > cut'} \subseteq new
  <2>1. /\ \A i \in Len(earlier) + 1..Len(Q) : Q[i] \in 1..part /\ Whole(Q[i], S, m)
        /\ \A e \in 1..part : Whole(e, S, m) /\ e > cut' => \E i \in Len(earlier) + 1..Len(Q) : Q[i] = e
    <3>1. IsStream(S) /\ m \in Nat /\ m <= Len(S) /\ to \in 0..m /\ cut' \in Nat
          /\ format \in Formats /\ part \in Nat /\ SentParts(S)
      BY <1>3, <1>5, <1>8, <1>11, <1>15 DEF SentParts
    <3>2. ParserOK(parser', S, m, to, cut') /\ Rests(parser', S, m, to) /\ Told(Q, S, m, to, cut')
      BY <1>16
    <3> HIDE DEF Q
    <3> QED BY <3>1, <3>2, ToldIsEnough
  <2>2. new \subseteq whole
    BY <2>1
  <2>3. \A e \in whole : e > cut' => e \in new
    BY <2>1
  <2>4. cut' = 0 => \A e \in whole : e > cut'
    OBVIOUS
  <2> HIDE DEF new, whole
  <2> QED BY <2>2, <2>3, <2>4
<1>20. Complete' = whole
  <2>1. \A e, kind : Arrived(e, kind)' <=> \E i \in 1..m : S[i] = <<kind, e>>
    BY <1>7 DEF Arrived
  <2> QED BY <1>2, <2>1 DEF Complete, Whole
<1>21. ToSet(OnThisConnection)' = new
  <2>1. ToSet(From(Q, Len(earlier) + 1)) = new
    BY <1>18, EndOfCollected
  <2> QED BY <1>2, <2>1 DEF OnThisConnection
<1>22. \A i \in 1..Len(Q) : Q[i] <= part
  <2>1. Len(collected) \in Nat /\ Len(earlier) \in 0..Len(collected) /\ Len(Q) \in Nat
    BY <1>3, <1>18, LenProperties
  <2>2. ASSUME NEW i \in 1..Len(earlier)
        PROVE  Q[i] = collected[i] /\ i \in 1..Len(collected)
    <3>1. fed.out \in Seq(Nat)
      BY <1>14 DEF ParserIs
    <3>2. i \in 1..Len(collected) + Len(fed.out) /\ i <= Len(collected) /\ i \in 1..Len(collected)
      BY <2>1, <3>1, LenProperties
    <3> QED BY <1>3, <1>4, <3>1, <3>2, ConcatProperties
  <2>3. ASSUME NEW i \in 1..Len(Q)
        PROVE  Q[i] <= part
    <3>1. CASE i \in 1..Len(earlier)
      BY <1>3, <2>2, <3>1
    <3>2. CASE i \in Len(earlier) + 1..Len(Q)
      BY <1>19, <3>2
    <3> QED BY <2>1, <3>1, <3>2
  <2> QED BY <2>3
<1> HIDE DEF new, whole
<1>23. EveryEventOnce'
  BY <1>18, <1>19, <1>20, <1>21 DEF EveryEventOnce
<1> QED
  BY <1>2, <1>3, <1>11, <1>17, <1>18, <1>22, <1>23 DEF FeedInv

LEMMA LostKeeps ==
  ASSUME FeedInv, Lost
  PROVE  FeedInv'
<1>1. /\ link' = "down" /\ wire' = <<>>
      /\ UNCHANGED <<format, part, beats, collected, earlier, received, cut>>
  BY DEF Lost
<1>2. EveryEventOnce'
  BY <1>1 DEF FeedInv, EveryEventOnce, Complete, Arrived, OnThisConnection
<1> QED
  BY <1>1, <1>2 DEF FeedInv

LEMMA RestKeeps ==
  ASSUME FeedInv, UNCHANGED <<format, part, beats, wire, parser, link, collected, earlier, received, cut>>
  PROVE  FeedInv'
<1>1. EveryEventOnce'
  BY DEF FeedInv, EveryEventOnce, Complete, Arrived, OnThisConnection
<1>2. Connected' <=> Connected
  BY DEF Connected, Stream, IsStream, Follows, ParserOK, InHeaders, InBody, Size, Told, Whole
<1> QED
  BY <1>1, <1>2 DEF FeedInv

LEMMA FeedInvariant == AgentSpec => []FeedInv
<1>1. AgentInit => FeedInv
  BY FeedStarts DEF AgentInit
<1>2. FeedInv /\ [AgentNext]_agentVars => FeedInv'
  <2> SUFFICES ASSUME FeedInv, [AgentNext]_agentVars
               PROVE  FeedInv'
    OBVIOUS
  <2>1. [FeedNext]_feedVars
    BY OneCommandSteps
  <2>2. CASE Send
    BY <2>2, SendKeeps
  <2>3. CASE Receive
    BY <2>3, ReceiveKeeps
  <2>4. CASE Lost
    BY <2>4, LostKeeps
  <2>5. CASE Refused
    BY <2>5, RestKeeps DEF Refused
  <2>6. CASE Attach
    BY <2>6, AttachKeeps
  <2>7. CASE UNCHANGED feedVars
    BY <2>7, RestKeeps DEF feedVars
  <2> QED BY <2>1, <2>2, <2>3, <2>4, <2>5, <2>6, <2>7 DEF FeedNext
<1> QED
  BY <1>1, <1>2, PTL DEF AgentSpec

\* However the recorder's bytes are cut into chunks, and in every format of its
\* firmware, DahuaEventStreamParser.feed hands on each event of a connection
\* once, in order and as soon as it can be told from the next; an overflow of
\* the buffer (_resync) costs no event whose part begins after it.
THEOREM EventsToldOnce == AgentSpec => []EveryEventOnce
<1>1. FeedInv => EveryEventOnce
  BY DEF FeedInv
<1> QED
  BY <1>1, FeedInvariant, PTL
=============================================================================
