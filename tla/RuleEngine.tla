----------------------------- MODULE RuleEngine -----------------------------
(***************************************************************************)
(* What process decides about one sighting: suppression, schedules, zones, *)
(* risk and rules.  Times are hours of the site's wall clock, Monday is 0; *)
(* confidences are percentages; severities are their places in             *)
(* INFO, LOW, MEDIUM, HIGH, CRITICAL; a detection is the set of zones that *)
(* contain its ground point.                                               *)
(***************************************************************************)
EXTENDS Integers, SequencesExt, FiniteSetsExt

(***************************************************************************)
(* Schedules.                                                              *)
(***************************************************************************)
ALL_DAYS == 0..6
\* Schedule.__post_init__: a window opens on one day at least.
Schedules == [start : 0..23, end : 0..23, days : (SUBSET ALL_DAYS) \ {{}}]
ALWAYS == [start |-> 0, end |-> 0, days |-> ALL_DAYS]

is_always_on(s) == s.start = s.end /\ s.days = ALL_DAYS
crosses_midnight(s) == s.end < s.start

\* Mutant: after midnight the new day is looked up.
SameDay(day) == day

\* The day a window that is open after midnight was opened on.
OpeningDay(day) == (day + 6) % 7

is_active(s, day, hour) ==
    \/ is_always_on(s)
    \/ ~crosses_midnight(s) /\ day \in s.days /\ s.start <= hour /\ hour < s.end
    \/ crosses_midnight(s) /\ day \in s.days /\ hour >= s.start
    \/ crosses_midnight(s) /\ OpeningDay(day) \in s.days /\ hour < s.end

is_outside_business_hours(day, hour) == day \notin 0..5 \/ hour < 7 \/ hour >= 19

(***************************************************************************)
(* Zones.                                                                  *)
(***************************************************************************)
Types(zones) == {z.type : z \in zones}
is_ignored(zones) == "IGNORE" \in Types(zones)
restricted(zones) == "RESTRICTED" \in Types(zones) /\ ~is_ignored(zones)

\* IGNORE holds only if every detection is in such a zone.
match_any(boxes) ==
    IF boxes = <<>> THEN {}
    ELSE IF \A b \in ToSet(boxes) : is_ignored(b) THEN boxes[1]
    ELSE UNION {b \in ToSet(boxes) : ~is_ignored(b)}

(***************************************************************************)
(* Risk.                                                                   *)
(***************************************************************************)
DEFAULT_WEIGHTS ==
    [person |-> 10, vehicle |-> 5, outside_hours |-> 25, restricted_zone |-> 30,
     perimeter |-> 15, repeated |-> 10, tamper |-> 20, vehicle_restricted |-> 20,
     low_confidence |-> 0 - 15, ai_unavailable |-> 0, device_silent |-> 25]

\* SEVERITY_BANDS
severity_for(score) == Cardinality({band \in {30, 50, 70, 85} : score >= band})

\* {**DEFAULT_WEIGHTS, **weights}
WeightTable(weights) ==
    [f \in DOMAIN DEFAULT_WEIGHTS |-> IF f \in DOMAIN weights THEN weights[f] ELSE DEFAULT_WEIGHTS[f]]

compute_risk(factors, weights) ==
    Max({0, Min({100, SumFunctionOnSet(WeightTable(weights), factors)})})

Perimeter == {"line_crossing", "zone_intrusion"}
NoConfidence == 0 - 1

collect_factors(c, zones) ==
    LET factor ==
            [person |-> c.type \in {"person_detected"} \cup Perimeter,
             vehicle |-> c.type = "vehicle_detected",
             perimeter |-> c.type \in Perimeter,
             outside_hours |-> is_outside_business_hours(c.day, c.hour),
             vehicle_restricted |-> restricted(zones) /\ c.type = "vehicle_detected",
             restricted_zone |-> restricted(zones) /\ c.type # "vehicle_detected",
             repeated |-> FALSE,  \* process never says so
             tamper |-> c.recent_tamper,
             device_silent |-> c.device_silent,
             ai_unavailable |-> ~c.ai_available,
             low_confidence |-> c.ai_available /\ c.confidence \in 0..59]
    IN  {f \in DOMAIN factor : factor[f]}

(***************************************************************************)
(* Rules.                                                                  *)
(***************************************************************************)

\* A schedule that cannot be read (<<>>) arms the rule around the clock.
schedule_of(row) == IF row.schedule = <<>> THEN ALWAYS ELSE row.schedule[1]

\* if_ai_unavailable is not taken from the row.
rule_from_row(row) ==
    [row EXCEPT !.schedule = schedule_of(row), !.if_ai_unavailable = "ALERT_ON_VENDOR_EVENT"]

Decision(matched, score, actions) == [matched |-> matched, score |-> score, actions |-> actions]
no_match == Decision(FALSE, 0, {})

\* The disqualifiers before the AI gate.
Concerns(rule, c, zones) ==
    /\ rule.enabled
    /\ c.type \in rule.event_types
    /\ rule.camera_ids # {} => c.camera \in rule.camera_ids
    /\ is_active(rule.schedule, c.day, c.hour)
    /\ ~is_ignored(zones)
    /\ rule.zone_names # {} => rule.zone_names \cap {z.name : z \in zones} # {}

evaluate(rule, c) ==
    LET zones == match_any(c.boxes)
        score == compute_risk(collect_factors(c, zones), rule.weights)
        severity == severity_for(score)
    IN  IF \/ ~Concerns(rule, c, zones)
           \/ ~c.ai_available /\ rule.if_ai_unavailable = "DROP"
           \/ /\ c.ai_available /\ c.confidence # NoConfidence
              /\ c.confidence < rule.min_ai_confidence
        THEN no_match
        ELSE IF ~c.ai_available /\ rule.if_ai_unavailable = "QUEUE_ONLY"
        THEN Decision(FALSE, 0, {"log_only"})
        ELSE IF severity < rule.min_severity
        THEN Decision(FALSE, score, {"log_only"})
        ELSE Decision(TRUE, score, rule.actions \cup IF severity = 4 THEN {"escalate"} ELSE {})

\* Mutant: the higher score wins, matched or not.
BeatsByScore(d, best) == d.score > best.score

Beats(d, best) ==
    \/ d.matched /\ ~best.matched
    \/ d.matched = best.matched /\ d.score > best.score

\* best[i] is the best of the first i rules.
evaluate_all(rules, c) ==
    LET best[i \in DOMAIN rules] ==
            LET d == evaluate(rules[i], c)
            IN  IF i = 1 \/ Beats(d, best[i - 1]) THEN d ELSE best[i - 1]
    IN  IF rules = <<>> THEN no_match ELSE best[Len(rules)]

(***************************************************************************)
(* Suppression.  Nothing in production marks an outage yet.                *)
(***************************************************************************)
NEVER_SUPPRESSED ==
    {"person_detected", "vehicle_detected", "line_crossing", "zone_intrusion",
     "video_tampering", "device_silent", "site_offline"}

\* CHANNEL is 1, DEVICE 2, SITE 3.
level_for(type) ==
    IF type = "site_offline" THEN 3
    ELSE IF type \in {"device_silent", "device_offline", "storage_not_exist",
                      "storage_failure", "storage_low_space"} THEN 2
    ELSE 1

\* outages: "site" if the site is marked offline, "device" if the recorder is silent.
should_suppress(type, outages) ==
    /\ type \notin NEVER_SUPPRESSED
    /\ \/ "site" \in outages /\ level_for(type) < 3
       \/ "device" \in outages /\ level_for(type) < 2
=============================================================================
