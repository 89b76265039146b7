------------------------------- MODULE Probe -------------------------------
(***************************************************************************)
(* The onboarding probe of a recorder and the channel numbering that the   *)
(* adapter takes from its report.  The recorder is what it is (truth); any *)
(* single call to it may also fail.  Warnings are left out: they change    *)
(* neither the verdict nor the mapping.                                    *)
(***************************************************************************)
EXTENDS Integers, FiniteSetsExt

CONSTANTS
    ChannelCount,  \* video inputs of the recorder
    MaxSeen        \* bound: different events the attach stream brings

ASSUME ProbeAssumption == ChannelCount \in Nat \ {0} /\ MaxSeen \in Nat

Channels == 1..ChannelCount

VARIABLES
    truth,    \* the recorder: numbering bases, channels with a picture
    options,  \* trigger channel (0 for none), ffprobe installed
    stage,
    report,
    seen      \* what the attach stream brought

probeVars == <<truth, options, stage, report, seen>>

Capability == {"SUPPORTED", "UNSUPPORTED", "UNKNOWN"}
from_bool(b) == IF b THEN "SUPPORTED" ELSE "UNSUPPORTED"

\* None, for a numbering base.
NoBase == 99

Truth == [snapshot_base : {0, 1}, index_base : {0, 1}, cameras : SUBSET Channels]
Options == [trigger_channel : Channels \cup {0}, ffprobe : BOOLEAN]

\* errors: what report.fail was called for; count: identity.channel_count, 0
\* if no endpoint told it; snapshot_ok: channels that showed a picture;
\* rtsp_ok: some channel's sub stream could be decoded.
NewReport ==
    [reachable |-> "UNKNOWN", digest_auth |-> "UNKNOWN", snapshot |-> "UNKNOWN",
     rtsp |-> "UNKNOWN", rtsp_playback |-> "UNKNOWN", event_stream |-> "UNKNOWN",
     smart_motion_human |-> "UNKNOWN", smart_motion_vehicle |-> "UNKNOWN",
     snapshot_channel_base |-> NoBase, event_index_base |-> NoBase, count |-> 0,
     snapshot_ok |-> {}, rtsp_ok |-> FALSE, observed |-> {}, errors |-> {}]

ProbeInit ==
    /\ truth \in Truth
    /\ options \in Options
    /\ stage = "tcp"
    /\ report = NewReport
    /\ seen = {}
-----------------------------------------------------------------------------
At(s) == stage = s /\ UNCHANGED <<truth, options>>

\* 1. reachability; an unreachable host ends the probe.
CheckTcp ==
    /\ At("tcp")
    /\ \E reachable \in BOOLEAN :
           /\ stage' = IF reachable THEN "auth" ELSE "done"
           /\ report' = [report EXCEPT
                            !.reachable = from_bool(reachable),
                            !.errors = IF reachable THEN @ ELSE @ \cup {"unreachable"}]
    /\ UNCHANGED seen

\* 2. a rejected login ends the probe; getSystemInfo may also be missing.
DigestAuth ==
    /\ At("auth")
    /\ \E answer \in Capability :
           /\ stage' = IF answer = "UNSUPPORTED" THEN "done" ELSE "identity"
           /\ report' = [report EXCEPT
                            !.digest_auth = answer,
                            !.errors = IF answer = "UNSUPPORTED" THEN @ \cup {"auth"} ELSE @]
    /\ UNCHANGED seen

\* 3. to 5. channel count, clock, caps and exposure events, all best effort.
Identity ==
    /\ At("identity")
    /\ stage' = "snapshots"
    /\ \E count \in {0, ChannelCount}, clock \in {"read", "unread", "skewed"} :
           report' = [report EXCEPT
                         !.count = count,
                         !.errors = IF clock = "skewed" THEN @ \cup {"clock"} ELSE @]
    /\ UNCHANGED seen

\* External: snapshot.cgi shows a camera on vendor channel v.
Picture(v) == v + 1 - truth.snapshot_base \in truth.cameras

\* try_snapshot
Tries(v) == {FALSE, Picture(v)}

vendor_snapshot_channel(logical, base) == logical - 1 + base

\* detect_snapshot_channel_base on logical channel 1: vendor channel 1 first, then 0.
DetectsBase(first, second) == IF first THEN 1 ELSE IF second THEN 0 ELSE NoBase

\* 6. the attempts of the detection are not repeated.
ProbeSnapshots ==
    /\ At("snapshots")
    /\ stage' = "rtsp"
    /\ \E first \in Tries(1), second \in Tries(0), more \in SUBSET Channels :
           LET base == DetectsBase(first, second)
               Vendor(c) == vendor_snapshot_channel(c, base)
               answered == {c \in Channels : IF Vendor(c) \in {base, 1}
                                             THEN Vendor(c) = base
                                             ELSE c \in more /\ Picture(Vendor(c))}
           IN  report' =
                   IF base = NoBase
                   THEN [report EXCEPT !.snapshot = "UNSUPPORTED", !.errors = @ \cup {"snapshot"}]
                   ELSE [report EXCEPT !.snapshot = "SUPPORTED",
                                       !.snapshot_channel_base = base,
                                       !.snapshot_ok = answered]
    /\ UNCHANGED seen

\* 7. and 8. the sub streams, then the main streams if asked for; one that
\* decodes is enough.
ProbeRtsp ==
    /\ At("rtsp")
    /\ stage' = "listen"
    /\ \/ /\ ~options.ffprobe
          /\ UNCHANGED report
       \/ /\ options.ffprobe
          /\ \E sub, main \in BOOLEAN :
                 report' = [report EXCEPT !.rtsp_ok = sub, !.rtsp = from_bool(sub \/ main)]
    /\ UNCHANGED seen

\* Codes of the events.  A motion event carries the recorder's index of the
\* channel.  Events that are not about a channel carry an index of their own (the
\* alarm input of AlarmLocal, 0 for StorageLowSpace) or none.
Human == "SmartMotionHuman"
Vehicle == "SmartMotionVehicle"
Smd == {Human, Vehicle}
NoIndex == 0 - 1
Event(code, channel) == [code |-> code, index |-> channel - 1 + truth.index_base]
Heartbeat == [code |-> "Heartbeat", index |-> NoIndex]
Events ==
    {Heartbeat} \cup {Event(code, c) : code \in Smd \cup {"VideoMotion"}, c \in Channels}
        \cup [code : {"AlarmLocal"}, index : NoIndex..ChannelCount]
Codes(events) == {e.code : e \in events}

\* Mutant: any smart motion event will do.
AnySmd(codes) == codes \cap Smd = {}

\* An SMD Human event is the one thing the product cannot do without.
Blocked(codes) == Human \notin codes

\* 9. to 13. the attach stream for a while (module EventFeed).  The report
\* lists the first 200 events that are no heartbeat; an event may come often,
\* so that is any nonempty part of them.
Listen ==
    /\ At("listen")
    /\ stage' = "index"
    /\ \E n \in 0..MaxSeen : seen' \in kSubset(n, Events)
    /\ \E listed \in SUBSET (seen' \ {Heartbeat}) :
           /\ listed = {} => seen' \subseteq {Heartbeat}
           /\ report' =
                  IF seen' = {}
                  THEN [report EXCEPT !.event_stream = "UNSUPPORTED", !.errors = @ \cup {"stream"}]
                  ELSE [report EXCEPT
                           !.event_stream = "SUPPORTED",
                           !.smart_motion_human = from_bool(Human \in Codes(seen')),
                           !.smart_motion_vehicle = from_bool(Vehicle \in Codes(seen')),
                           !.observed = listed,
                           !.errors = IF Blocked(Codes(seen')) THEN @ \cup {"human"} ELSE @]

\* Mutant: the trigger channel is taken for an index.
ForgetsChannelsStartAtOne ==
    LET indices == {e.index : e \in report.observed} \ {NoIndex}
        smd == {e.index : e \in {f \in report.observed : f.code \in Smd}}
    IN  IF indices = {} THEN NoBase
        ELSE IF options.trigger_channel # 0 /\ smd # {} THEN Min(smd) - options.trigger_channel
        ELSE IF Min(indices) = 0 THEN 0
        ELSE IF Min(indices) = 1 /\ Max(indices) >= report.count THEN 1 ELSE NoBase

\* _resolve_index_base: from the channel the operator walked in front of, or
\* from the range of the indices.
ResolvedIndexBase ==
    LET indices == {e.index : e \in report.observed} \ {NoIndex}
        smd == {e.index : e \in {f \in report.observed : f.code \in Smd}}
    IN  IF indices = {} THEN NoBase
        ELSE IF options.trigger_channel # 0 /\ smd # {}
             THEN Min(smd) - (options.trigger_channel - 1)
        ELSE IF Min(indices) = 0 THEN 0
        ELSE IF Min(indices) = 1 /\ Max(indices) >= report.count THEN 1 ELSE NoBase

\* 14.
ResolveIndexBase ==
    /\ At("index")
    /\ stage' = "playback"
    /\ report' = [report EXCEPT !.event_index_base = ResolvedIndexBase]
    /\ UNCHANGED seen

\* 15. on the first channel that works; a failure is a warning.
ProbePlayback ==
    /\ At("playback")
    /\ stage' = "done"
    /\ \/ /\ options.ffprobe /\ (report.rtsp_ok \/ report.snapshot_ok # {})
          /\ \E ok \in BOOLEAN : report' = [report EXCEPT !.rtsp_playback = from_bool(ok)]
       \/ /\ ~options.ffprobe \/ (~report.rtsp_ok /\ report.snapshot_ok = {})
          /\ UNCHANGED report
    /\ UNCHANGED seen

ProbeNext ==
    \/ CheckTcp \/ DigestAuth \/ Identity \/ ProbeSnapshots \/ ProbeRtsp
    \/ Listen \/ ResolveIndexBase \/ ProbePlayback
-----------------------------------------------------------------------------
\* ChannelMapping.from_report: what the probe left open is taken as documented.
Mapping ==
    [snapshot_base |-> IF report.snapshot_channel_base = NoBase THEN 1
                       ELSE report.snapshot_channel_base,
     event_index_base |-> IF report.event_index_base = NoBase THEN 0
                          ELSE report.event_index_base]

\* normalize_event
logical_channel(index) == index - Mapping.event_index_base + 1

Verdict == IF report.errors = {} THEN "PASS" ELSE "FAIL"
Reported == stage = "done" /\ report.reachable = "SUPPORTED"

\* A recorder that passes was heard and understood: a person was seen on the
\* attach stream and the adapter's snapshot of channel 1 is a picture.
PassIsEarned ==
    stage = "done" /\ Verdict = "PASS" =>
        /\ Human \in Codes(seen)
        /\ Picture(vendor_snapshot_channel(1, Mapping.snapshot_base))

\* The index base came from the trigger channel, not from the range of the indices.
Triggered == options.trigger_channel # 0 /\ \E e \in report.observed : e.code \in Smd

\* Other cameras saw somebody while the operator stood at the trigger channel.
Strays ==
    \E e \in report.observed : e.code \in Smd /\ e # Event(e.code, options.trigger_channel)

\* An index that is not a channel's was reported.
Others == \E e \in report.observed : e.code = "AlarmLocal" /\ e.index # NoIndex

\* The bases are "never a guess": the adapter asks for the camera that is
\* meant and puts an event on the channel it happened on.  A base can be
\* wrong only where a recorder that counts from 0 shows a picture on vendor
\* channel 1; where somebody else walked through the trigger test; and, when
\* the base is inferred from the range of the indices, where the recorder did
\* not tell how many channels it has or reported an index that is no channel's.
ChannelsAreRight ==
    Reported =>
        /\ report.snapshot_channel_base # NoBase /\ ~(truth.snapshot_base = 0 /\ Picture(1)) =>
               Mapping.snapshot_base = truth.snapshot_base
        /\ /\ report.event_index_base # NoBase
           /\ IF Triggered THEN ~Strays ELSE report.count # 0 /\ ~Others
           => \A c \in Channels : logical_channel(Event(Human, c).index) = c
=============================================================================
