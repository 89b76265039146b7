----------------------------- MODULE AlertPath -----------------------------
(***************************************************************************)
(* From a sighting to a phone: how the rules judge it, how the flow folds  *)
(* it into the dedup window, and how its push is delivered.  The steps     *)
(* share no state, so a behaviour is about one of them.                    *)
(***************************************************************************)
EXTENDS RuleEngine, PushDelivery

CONSTANTS
    RuleRows,   \* rules a site may have
    MaxRules,   \* bound: rules of one site
    Sightings,  \* what a rule may have to judge
    Mails,      \* the ones among them production sees: no AI verdict
    Window      \* DEFAULT_WINDOW_SECONDS, in ticks

ASSUME AlertAssumption ==
    /\ MaxRules \in Nat /\ Window \in Nat \ {0}
    /\ \A c \in Mails : ~c.ai_available /\ c.boxes = <<>>
    /\ \A c \in Sightings : c.day \in ALL_DAYS /\ c.hour \in 0..23
    /\ \A row \in RuleRows :
           /\ {"enabled", "schedule", "weights"} \subseteq DOMAIN row
           /\ \A f \in DOMAIN row.weights : row.weights[f] \in Int
           /\ row.schedule # <<>> => row.schedule[1] \in Schedules

VARIABLES
    topic,
    rules,     \* the rows of the site's rules
    sighting,  \* the context of the sighting
    outages,   \* what is marked as down
    entry,     \* age of the dedup entry
    stage,     \* what became of the last sighting
    verdict,   \* evaluate_all's decision on it
    unheard    \* history: how long a sighting that would alarm has been folded

flowVars == <<topic, rules, sighting, outages, entry, stage, verdict, unheard>>
alertVars == <<flowVars, pushVars>>

None == 0 - 1

AlertInit ==
    /\ topic \in {"judge", "flow", "push"}
    /\ rules \in {s \in SeqOf(RuleRows, MaxRules) : IsInjective(s)}
    /\ sighting \in Sightings
    /\ topic # "judge" => sighting \in Mails
    /\ topic = "flow" => Len(rules) = 1
    /\ topic = "push" => rules = <<>> /\ sighting = CHOOSE c \in Mails : TRUE
    /\ outages \in SUBSET {"site", "device"}
    /\ topic # "flow" => outages = {}
    /\ entry = None
    /\ stage = "none"
    /\ verdict = no_match
    /\ unheard = None
    /\ PushInit
    /\ topic # "push" => cache = [t \in Transports |-> "none"]
-----------------------------------------------------------------------------
\* The rules as the engine takes them, every field of the row included.
EngineRules == [i \in DOMAIN rules |-> [rules[i] EXCEPT !.schedule = schedule_of(rules[i])]]

Judge ==
    /\ topic = "judge" /\ stage = "none"
    /\ stage' = "judged"
    /\ verdict' = evaluate_all(EngineRules, sighting)
    /\ UNCHANGED <<topic, rules, sighting, outages, entry, unheard>>

\* load_site_context
LoadedRules == [i \in DOMAIN rules |-> rule_from_row(rules[i])]
Judgement == evaluate_all(LoadedRules, sighting)

\* Mutant: every further sighting keeps the window open.
KeptOpen == 0

\* DedupWindow.check of a duplicate: first_seen stays.
Folded == entry

Duplicate == entry # None /\ entry < Window

\* process
Sighted ==
    /\ topic = "flow"
    /\ \/ /\ should_suppress(sighting.type, outages)
          /\ stage' = "suppressed"
          /\ UNCHANGED <<entry, verdict, unheard>>
       \/ /\ ~should_suppress(sighting.type, outages) /\ Duplicate
          /\ stage' = "duplicate"
          /\ entry' = Folded
          /\ unheard' = IF Judgement.matched /\ unheard = None THEN 0 ELSE unheard
          /\ UNCHANGED verdict
       \/ /\ ~should_suppress(sighting.type, outages) /\ ~Duplicate
          /\ entry' = 0
          /\ verdict' = Judgement
          /\ stage' = IF Judgement.matched THEN "alarmed" ELSE "no_rule_match"
          /\ unheard' = None
    /\ UNCHANGED <<topic, rules, sighting, outages>>

\* Somebody enables or disables the rule (update_rule).
Switch ==
    /\ topic = "flow"
    /\ rules' = [i \in DOMAIN rules |-> [rules[i] EXCEPT !.enabled = ~@]]
    /\ stage' = "none"
    /\ UNCHANGED <<topic, sighting, outages, entry, verdict, unheard>>

Later(age) == IF age = None THEN None ELSE IF age < Window THEN age + 1 ELSE Window

Pass ==
    /\ topic = "flow"
    /\ entry' = Later(entry)
    /\ unheard' = Later(unheard)
    /\ stage' = "none"
    /\ UNCHANGED <<topic, rules, sighting, outages, verdict>>

AlertNext ==
    \/ (Judge \/ Sighted \/ Switch \/ Pass) /\ UNCHANGED pushVars
    \/ topic = "push" /\ PushNext /\ UNCHANGED flowVars

AlertSpec == AlertInit /\ [][AlertNext]_alertVars
-----------------------------------------------------------------------------
(***************************************************************************)
(* Properties.                                                             *)
(***************************************************************************)

\* "The strongest match wins rather than the first": the site alarms if any of
\* its rules does, with the highest score among them, in whatever order they
\* come; a rule that only logs never hides one that alarms.
LoudestRuleWins ==
    stage = "judged" =>
        LET loud == {d \in {evaluate(EngineRules[i], sighting) : i \in DOMAIN rules} : d.matched}
        IN  /\ verdict.matched <=> loud # {}
            /\ verdict.matched => verdict \in loud /\ \A d \in loud : d.score <= verdict.score

\* Hours of the week in which a window is open, from the days it opens on.
OpenHours(s) ==
    {(24 * pair[1] + s.start + pair[2]) % 168 :
        pair \in s.days \X (0..(((s.end - s.start) % 24) - 1))}

\* A window belongs to the day it opens on: Friday's goes on into Saturday
\* morning, and one that is not armed on Friday is not open then.
ArmedByOpeningDay ==
    \A i \in DOMAIN rules :
        LET s == schedule_of(rules[i])
        IN  s.start # s.end =>
                (is_active(s, sighting.day, sighting.hour) <=>
                     24 * sighting.day + sighting.hour \in OpenHours(s))

\* What schedule.py says of a window with equal start and end: it means 24
\* hours, so it is open from its start on every day it opens on.  Violated:
\* with fewer than seven days such a window is never open at all.
EqualHoursMean24 ==
    stage = "judged" => \A i \in DOMAIN rules :
        LET s == schedule_of(rules[i])
        IN  s.start = s.end /\ sighting.day \in s.days /\ s.start <= sighting.hour =>
                is_active(s, sighting.day, sighting.hour)

\* An intruder is heard within one window: a sighting that would alarm may be
\* folded into a window that a sighting no rule matched has opened, before the
\* rule was switched on, but not for longer than the window lasts.
IntruderIsHeard == stage = "duplicate" => unheard < Window
=============================================================================
