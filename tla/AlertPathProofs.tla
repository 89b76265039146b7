-------------------------- MODULE AlertPathProofs --------------------------
(***************************************************************************)
(* Proofs about AlertPath for any rules and sightings, any dedup window,   *)
(* any number of phones and attempts.                                      *)
(***************************************************************************)
EXTENDS AlertPath, WellFoundedInduction, FiniteSetTheorems, SequenceTheorems, TLAPS

(***************************************************************************)
(* Schedules.  A pure fact about is_active, for every window and hour.     *)
(***************************************************************************)

\* Hours from the start of a window to its end.
Hours(s) == (s.end - s.start) % 24

\* The hour of the week is reached from the day the window opened on, which is
\* the same day, or the day before for a window that crosses midnight.
LEMMA OpenedOn ==
  ASSUME NEW s \in Schedules, NEW day \in 0..6, NEW hour \in 0..23, NEW d \in 0..6,
         NEW k \in 0..(Hours(s) - 1), 24 * day + hour = (24 * d + s.start + k) % 168
  PROVE  \/ day = d /\ s.start <= hour /\ (s.start < s.end => hour < s.end)
         \/ s.end < s.start /\ d = OpeningDay(day) /\ hour < s.end
<1> DEFINE a == s.start
           b == s.end
<1>1. a \in 0..23 /\ b \in 0..23
  BY DEF Schedules
<1>2. k >= 0 /\ k < (b - a) % 24 /\ k \in Int
  BY <1>1 DEF Hours
<1>3. 24 * day + hour = (24 * d + a + k) % 168
  OBVIOUS
<1> HIDE DEF a, b
<1>4. (b - a) % 24 = IF b >= a THEN b - a ELSE b - a + 24
  BY <1>1
<1>5. (24 * d + a + k) % 168 = IF 24 * d + a + k < 168 THEN 24 * d + a + k ELSE 24 * d + a + k - 168
  BY <1>1, <1>2, <1>4
<1>6. OpeningDay(day) = IF day = 0 THEN 6 ELSE day - 1
  BY DEF OpeningDay
<1>7. day \in Int /\ hour \in Int /\ d \in Int /\ 0 <= hour /\ hour <= 23 /\ 0 <= day /\ day <= 6
      /\ 0 <= d /\ d <= 6 /\ a \in Int /\ b \in Int /\ 0 <= a /\ a <= 23 /\ 0 <= b /\ b <= 23
  BY <1>1
<1>8. CASE b >= a
  <2>1. day = d /\ a <= hour /\ hour < b
    BY <1>2, <1>3, <1>4, <1>5, <1>7, <1>8
  <2> QED BY <2>1 DEF a, b
<1>9. CASE b < a
  <2>1. CASE a + k < 24
    <3>1. day = d /\ a <= hour
      BY <1>2, <1>3, <1>4, <1>5, <1>7, <1>9, <2>1
    <3> QED BY <1>7, <1>9, <3>1 DEF a, b
  <2>2. CASE a + k >= 24
    <3>1. hour = a + k - 24 /\ (day = d + 1 \/ (day = 0 /\ d = 6))
      BY <1>2, <1>3, <1>4, <1>5, <1>7, <1>9, <2>2
    <3>2. hour < b /\ d = OpeningDay(day)
      BY <1>2, <1>4, <1>6, <1>7, <1>9, <3>1
    <3> QED BY <1>9, <3>2 DEF a, b
  <2> QED BY <1>2, <1>7, <2>1, <2>2
<1> QED
  BY <1>7, <1>8, <1>9

\* The other way round: the hours on the day a window opens, and after midnight.
LEMMA OpensOn ==
  ASSUME NEW s \in Schedules, NEW day \in 0..6, NEW hour \in 0..23, NEW d \in s.days,
         \/ day = d /\ s.start <= hour /\ (s.start <= s.end => hour < s.end)
         \/ s.end < s.start /\ d = OpeningDay(day) /\ hour < s.end
  PROVE  24 * day + hour \in OpenHours(s)
<1> DEFINE a == s.start
           b == s.end
           k == IF day = d /\ a <= hour THEN hour - a ELSE hour - a + 24
<1>1. a \in 0..23 /\ b \in 0..23 /\ d \in 0..6
  BY DEF Schedules, ALL_DAYS
<1>2. \/ day = d /\ a <= hour /\ (a <= b => hour < b)
      \/ b < a /\ d = OpeningDay(day) /\ hour < b
  OBVIOUS
<1>3. OpeningDay(day) = IF day = 0 THEN 6 ELSE day - 1
  BY DEF OpeningDay
<1> HIDE DEF a, b
<1>4. (b - a) % 24 = IF b >= a THEN b - a ELSE b - a + 24
  BY <1>1
<1>5. day \in Int /\ hour \in Int /\ d \in Int /\ 0 <= hour /\ hour <= 23 /\ 0 <= day /\ day <= 6
      /\ 0 <= d /\ d <= 6 /\ a \in Int /\ b \in Int /\ 0 <= a /\ a <= 23 /\ 0 <= b /\ b <= 23
  BY <1>1
<1>6. k \in Int /\ 0 <= k /\ k <= ((b - a) % 24) - 1
  BY <1>2, <1>3, <1>4, <1>5
<1>7. (24 * d + a + k) % 168 = 24 * day + hour
  <2>1. 24 * d + a + k = 24 * day + hour \/ 24 * d + a + k = 24 * day + hour + 168
    BY <1>2, <1>3, <1>4, <1>5
  <2>2. 0 <= 24 * day + hour /\ 24 * day + hour < 168
    BY <1>5
  <2> QED BY <1>5, <1>6, <2>1, <2>2
<1> HIDE DEF k
<1>8. k \in 0..(Hours(s) - 1)
  BY <1>5, <1>6 DEF Hours, a, b
<1>9. <<d, k>> \in s.days \X (0..(Hours(s) - 1))
  BY <1>8
<1>10. 24 * day + hour = (24 * <<d, k>>[1] + s.start + <<d, k>>[2]) % 168
  BY <1>7 DEF a
<1> QED
  BY <1>9, <1>10 DEF OpenHours, Hours

\* A window is open on exactly the hours it has from the days it opens on.
LEMMA ActiveHours ==
  ASSUME NEW s \in Schedules, NEW day \in 0..6, NEW hour \in 0..23
  PROVE  is_active(s, day, hour) <=> is_always_on(s) \/ 24 * day + hour \in OpenHours(s)
<1>1. s.start \in 0..23 /\ s.end \in 0..23 /\ s.days \subseteq 0..6
  BY DEF Schedules, ALL_DAYS
<1>2. ASSUME ~is_always_on(s), is_active(s, day, hour)
      PROVE  24 * day + hour \in OpenHours(s)
  <2>1. \E d \in s.days :
            \/ day = d /\ s.start <= hour /\ (s.start <= s.end => hour < s.end)
            \/ s.end < s.start /\ d = OpeningDay(day) /\ hour < s.end
    BY <1>1, <1>2 DEF is_active, crosses_midnight
  <2> QED BY <2>1, OpensOn
<1>3. ASSUME 24 * day + hour \in OpenHours(s)
      PROVE  is_active(s, day, hour)
  <2>1. PICK d \in s.days, k \in 0..(Hours(s) - 1) : 24 * day + hour = (24 * d + s.start + k) % 168
    BY <1>3 DEF OpenHours, Hours
  <2>2. \/ day = d /\ s.start <= hour /\ (s.start < s.end => hour < s.end)
        \/ s.end < s.start /\ d = OpeningDay(day) /\ hour < s.end
    BY <1>1, <2>1, OpenedOn
  <2>3. s.start # s.end
    <3> SUFFICES ASSUME s.start = s.end
                 PROVE  FALSE
      OBVIOUS
    <3>1. Hours(s) = 0
      BY <1>1 DEF Hours
    <3> QED BY <2>1, <3>1
  <2>4. CASE day = d /\ s.start <= hour /\ (s.start < s.end => hour < s.end)
    <3>1. s.end < s.start \/ s.start < s.end
      BY <1>1, <2>3
    <3>2. hour >= s.start
      BY <1>1, <2>4
    <3>3. ~(s.start < s.end /\ s.end < s.start)
      BY <1>1
    <3> QED BY <2>4, <3>1, <3>2, <3>3 DEF is_active, crosses_midnight
  <2>5. CASE s.end < s.start /\ d = OpeningDay(day) /\ hour < s.end
    BY <2>5 DEF is_active, crosses_midnight
  <2> QED BY <2>2, <2>4, <2>5
<1> QED
  BY <1>2, <1>3 DEF is_active

(***************************************************************************)
(* The dedup window.  A folded sighting is never older than the entry it   *)
(* was folded into, and an entry folds nothing once its window is over.    *)
(***************************************************************************)
RowOK(row) ==
    /\ {"enabled", "schedule", "weights"} \subseteq DOMAIN row
    /\ schedule_of(row) \in Schedules
    /\ \A f \in DOMAIN row.weights : row.weights[f] \in Int

FlowInv ==
    /\ sighting \in Sightings
    /\ \E n \in Nat : rules = [i \in 1..n |-> rules[i]]
    /\ \A i \in DOMAIN rules : RowOK(rules[i])
    /\ entry \in {None} \cup 0..Window
    /\ unheard \in {None} \cup 0..Window
    /\ unheard # None => entry # None /\ unheard <= entry
    /\ IntruderIsHeard

\* The defaults of an unreadable schedule are one.
LEMMA ReadSchedule ==
  ASSUME NEW row, row.schedule # <<>> => row.schedule[1] \in Schedules
  PROVE  schedule_of(row) \in Schedules
<1>1. ALWAYS \in Schedules
  <2>1. ALL_DAYS \in (SUBSET ALL_DAYS) \ {{}}
    BY DEF ALL_DAYS
  <2> QED BY <2>1 DEF ALWAYS, Schedules
<1> QED
  BY <1>1 DEF schedule_of

LEMMA FlowInvariant == AlertSpec => []FlowInv
<1>1. AlertInit => FlowInv
  <2> SUFFICES ASSUME AlertInit
               PROVE  FlowInv
    OBVIOUS
  <2>1. \A i \in DOMAIN rules : rules[i] \in RuleRows
    BY AlertAssumption DEF AlertInit, SeqOf
  <2>2. \A i \in DOMAIN rules : RowOK(rules[i])
    BY <2>1, AlertAssumption, ReadSchedule DEF RowOK
  <2>3. \E n \in Nat : rules = [i \in 1..n |-> rules[i]]
    BY AlertAssumption DEF AlertInit, SeqOf
  <2> QED BY <2>2, <2>3 DEF AlertInit, FlowInv, IntruderIsHeard
<1>2. ASSUME FlowInv, [AlertNext]_alertVars
      PROVE  FlowInv'
  <2> USE AlertAssumption DEF FlowInv, None
  <2>1. CASE Judge
    BY <1>2, <2>1 DEF Judge, IntruderIsHeard
  <2>2. CASE Sighted
    <3>1. CASE should_suppress(sighting.type, outages)
      BY <1>2, <2>2, <3>1 DEF Sighted, IntruderIsHeard
    <3>2. CASE ~should_suppress(sighting.type, outages) /\ Duplicate
      BY <1>2, <2>2, <3>2 DEF Sighted, Duplicate, Folded, IntruderIsHeard
    <3>3. CASE ~should_suppress(sighting.type, outages) /\ ~Duplicate
      BY <1>2, <2>2, <3>3 DEF Sighted, IntruderIsHeard
    <3> QED BY <3>1, <3>2, <3>3
  <2>3. CASE Switch
    <3>1. /\ rules' = [i \in DOMAIN rules |-> [rules[i] EXCEPT !.enabled = ~@]]
          /\ UNCHANGED <<sighting, entry, unheard>> /\ stage' = "none"
      BY <2>3 DEF Switch
    <3>2. ASSUME NEW i \in DOMAIN rules'
          PROVE  RowOK(rules'[i])
      <4>1. /\ i \in DOMAIN rules
            /\ rules'[i] = [rules[i] EXCEPT !.enabled = ~rules[i].enabled]
        BY <3>1
      <4>2. /\ DOMAIN rules'[i] = DOMAIN rules[i] /\ rules'[i].schedule = rules[i].schedule
            /\ rules'[i].weights = rules[i].weights
        BY <1>2, <4>1 DEF RowOK
      <4>3. schedule_of(rules'[i]) = schedule_of(rules[i])
        BY <4>2 DEF schedule_of
      <4> QED BY <1>2, <4>1, <4>2, <4>3 DEF RowOK
    <3>3. \E n \in Nat : rules' = [i \in 1..n |-> rules'[i]]
      BY <1>2, <3>1
    <3> QED BY <1>2, <3>1, <3>2, <3>3 DEF IntruderIsHeard, RowOK, schedule_of
  <2>4. CASE Pass
    BY <1>2, <2>4 DEF Pass, Later, IntruderIsHeard
  <2>5. CASE UNCHANGED flowVars
    BY <1>2, <2>5 DEF flowVars, IntruderIsHeard
  <2> QED BY <1>2, <2>1, <2>2, <2>3, <2>4, <2>5 DEF AlertNext, alertVars
<1> QED
  BY <1>1, <1>2, PTL DEF AlertSpec

\* A window belongs to the day it opens on, for every window of unequal start
\* and end a rule can have and every hour of the week (Schedule.is_active).
THEOREM WindowsKeepTheirDay == AlertSpec => []ArmedByOpeningDay
<1>1. FlowInv => ArmedByOpeningDay
  <2> SUFFICES ASSUME FlowInv, NEW i \in DOMAIN rules
               PROVE  LET s == schedule_of(rules[i])
                      IN  s.start # s.end =>
                              (is_active(s, sighting.day, sighting.hour) <=>
                                   24 * sighting.day + sighting.hour \in OpenHours(s))
    BY DEF ArmedByOpeningDay
  <2>1. /\ schedule_of(rules[i]) \in Schedules
        /\ sighting.day \in 0..6 /\ sighting.hour \in 0..23
    BY AlertAssumption DEF FlowInv, RowOK, ALL_DAYS
  <2> QED BY <2>1, ActiveHours DEF is_always_on
<1> QED
  BY <1>1, FlowInvariant, PTL

\* However often a sighting that would alarm is folded into a window opened
\* before its rule was switched on, it is heard within one window
\* (DedupWindow.check keeps first_seen).
THEOREM HeardInTime == AlertSpec => []IntruderIsHeard
<1>1. FlowInv => IntruderIsHeard
  BY DEF FlowInv
<1> QED
  BY <1>1, FlowInvariant, PTL

(***************************************************************************)
(* The loudest rule.  evaluate_all is a loop and its scores are sums; both *)
(* are recursive functions, so they are shown to exist before anything is  *)
(* shown of them, by induction on the rules and on the factors.            *)
(***************************************************************************)

\* Induction over the natural numbers, with a set in the place of a predicate.
LEMMA CountingUp ==
  ASSUME NEW Good, 0 \in Good, \A n \in Nat : n \in Good => n + 1 \in Good
  PROVE  Nat \subseteq Good
<1> SUFFICES ASSUME Nat \ Good # {}
             PROVE  FALSE
  OBVIOUS
<1>1. PICK x \in Nat \ Good : \A y \in Nat \ Good : <<y, x>> \notin OpToRel(<, Nat)
  BY WFMin, NatLessThanWellFounded
<1>2. x \in Nat /\ x # 0
  BY <1>1
<1>3. x - 1 \in Nat
  BY <1>2
<1>4. <<x - 1, x>> \in OpToRel(<, Nat)
  BY <1>2, <1>3 DEF OpToRel
<1>5. x - 1 \in Good
  BY <1>1, <1>3, <1>4
<1>6. x - 1 + 1 = x
  BY <1>2
<1> QED BY <1>1, <1>3, <1>5, <1>6

\* A sum of integers over a finite set is one.  The sum is a recursive function
\* of the subsets, which is shown to exist for subsets of ever more elements.
LEMMA SumIsInt ==
  ASSUME NEW S, IsFiniteSet(S), NEW w, \A x \in S : w[x] \in Int
  PROVE  SumFunctionOnSet(w, S) \in Int
<1> DEFINE Pick(s) == CHOOSE x \in s : TRUE
           Small(n) == {s \in SUBSET S : Cardinality(s) <= n}
           Sums(n, f) == f = [s \in Small(n) |-> IF s = {} THEN 0 ELSE w[Pick(s)] + f[s \ {Pick(s)}]]
<1>1. \A s \in SUBSET S : IsFiniteSet(s) /\ Cardinality(s) \in Nat
  BY FS_Subset, FS_CardinalityType
<1>2. ASSUME NEW s \in SUBSET S, s # {}
      PROVE  /\ Pick(s) \in s /\ w[Pick(s)] \in Int
             /\ s \ {Pick(s)} \in SUBSET S
             /\ Cardinality(s \ {Pick(s)}) = Cardinality(s) - 1
  <2>1. Pick(s) \in s
    BY <1>2
  <2> QED BY <1>1, <2>1, FS_RemoveElement
<1>3. \A s \in SUBSET S : Cardinality(s) = 0 <=> s = {}
  BY <1>1, FS_EmptySet
<1> HIDE DEF Pick
<1>4. \E f : Sums(0, f)
  <2> DEFINE f == [s \in Small(0) |-> 0]
  <2>1. \A s \in Small(0) : s = {}
    BY <1>1, <1>3
  <2>2. Sums(0, f)
    BY <2>1
  <2> QED BY <2>2
<1>5. ASSUME NEW n \in Nat, NEW f, Sums(n, f)
      PROVE  \E g : Sums(n + 1, g)
  <2> DEFINE g == [s \in Small(n + 1) |-> IF s = {} THEN 0 ELSE w[Pick(s)] + f[s \ {Pick(s)}]]
  <2>1. \A s \in Small(n + 1) : s # {} => s \ {Pick(s)} \in Small(n)
    BY <1>1, <1>2
  <2>2. ASSUME NEW s \in Small(n)
        PROVE  s \in Small(n + 1) /\ g[s] = f[s]
    <3>1. s \in Small(n + 1)
      BY <1>1
    <3>2. f[s] = IF s = {} THEN 0 ELSE w[Pick(s)] + f[s \ {Pick(s)}]
      BY <1>5
    <3> QED BY <3>1, <3>2
  <2>3. ASSUME NEW s \in Small(n + 1)
        PROVE  g[s] = IF s = {} THEN 0 ELSE w[Pick(s)] + g[s \ {Pick(s)}]
    BY <2>1, <2>2
  <2>4. Sums(n + 1, g)
    BY <2>3
  <2> QED BY <2>4
<1>6. PICK f : Sums(Cardinality(S), f)
  <2> HIDE DEF Sums
  <2> DEFINE Good == {n \in Nat : \E f : Sums(n, f)}
  <2>1. 0 \in Good /\ \A n \in Nat : n \in Good => n + 1 \in Good
    BY <1>4, <1>5
  <2>2. Nat \subseteq Good
    BY <2>1, CountingUp
  <2> QED BY <1>1, <2>2
<1> DEFINE Eqn(g) == g = [s \in SUBSET S |-> IF s = {} THEN 0 ELSE w[Pick(s)] + g[s \ {Pick(s)}]]
<1>7. Eqn(f)
  <2>1. Small(Cardinality(S)) = SUBSET S
    BY FS_Subset
  <2> QED BY <1>6, <2>1
<1> DEFINE it == CHOOSE g : Eqn(g)
<1>8. Eqn(it)
  BY <1>7
<1>9. SumFunctionOnSet(w, S) = it[S]
  BY DEF SumFunctionOnSet, FoldFunctionOnSet, MapThenFoldSet, Pick
<1> HIDE DEF it
<1>10. \A s \in SUBSET S : it[s] \in Int
  <2> DEFINE Good == {n \in Nat : \A s \in Small(n) : it[s] \in Int}
  <2>1. 0 \in Good
    <3>1. \A s \in Small(0) : s = {}
      BY <1>1, <1>3
    <3> QED BY <1>8, <3>1
  <2>2. ASSUME NEW n \in Nat, n \in Good
        PROVE  n + 1 \in Good
    <3>1. ASSUME NEW s \in Small(n + 1), s # {}
          PROVE  it[s] \in Int
      <4>1. s \ {Pick(s)} \in Small(n) /\ w[Pick(s)] \in Int
        BY <1>1, <1>2, <3>1
      <4>2. it[s] = w[Pick(s)] + it[s \ {Pick(s)}]
        BY <1>8, <3>1
      <4>3. it[s \ {Pick(s)}] \in Int
        BY <2>2, <4>1
      <4> QED BY <4>1, <4>2, <4>3
    <3>2. it[{}] = 0
      BY <1>8
    <3> QED BY <3>1, <3>2
  <2>3. Nat \subseteq Good
    <3> HIDE DEF Good
    <3> QED BY <2>1, <2>2, CountingUp
  <2>4. ASSUME NEW s \in SUBSET S
        PROVE  it[s] \in Int
    BY <1>1, <2>3
  <2> QED BY <2>4
<1> QED BY <1>9, <1>10

\* The names of the risk factors.
Factors == DOMAIN DEFAULT_WEIGHTS

\* A risk score is a number, and within 0..100 (compute_risk).
LEMMA RiskIsBounded ==
  ASSUME NEW factors \in SUBSET Factors, NEW weights, \A f \in DOMAIN weights : weights[f] \in Int
  PROVE  compute_risk(factors, weights) \in 0..100
<1>1. IsFiniteSet(factors)
  <2>1. Factors = {"person", "vehicle", "outside_hours", "restricted_zone"}
                  \cup {"perimeter", "repeated", "tamper", "vehicle_restricted"}
                  \cup {"low_confidence", "ai_unavailable", "device_silent"}
    BY DEF Factors, DEFAULT_WEIGHTS
  <2>2. ASSUME NEW a, NEW b, NEW c, NEW d
        PROVE  IsFiniteSet({a, b, c, d})
    <3>1. IsFiniteSet({a}) /\ IsFiniteSet({b}) /\ IsFiniteSet({c}) /\ IsFiniteSet({d})
      BY FS_Singleton
    <3>2. IsFiniteSet({a} \cup {b}) /\ IsFiniteSet({c} \cup {d})
      BY <3>1, FS_Union
    <3>3. IsFiniteSet(({a} \cup {b}) \cup ({c} \cup {d}))
      BY <3>2, FS_Union
    <3>4. ({a} \cup {b}) \cup ({c} \cup {d}) = {a, b, c, d}
      OBVIOUS
    <3> QED BY <3>3, <3>4
  <2>3. {"low_confidence", "ai_unavailable", "device_silent"}
            = {"low_confidence", "ai_unavailable", "device_silent", "device_silent"}
    OBVIOUS
  <2>4. IsFiniteSet(Factors)
    BY <2>1, <2>2, <2>3, FS_Union
  <2> QED BY <2>4, FS_Subset
<1>2. \A f \in factors : WeightTable(weights)[f] \in Int
  BY DEF WeightTable, Factors, DEFAULT_WEIGHTS
<1> DEFINE sum == SumFunctionOnSet(WeightTable(weights), factors)
<1>3. sum \in Int
  BY <1>1, <1>2, SumIsInt
<1> HIDE DEF sum
<1>4. Min({100, sum}) = IF sum < 100 THEN sum ELSE 100
  BY <1>3 DEF Min
<1> DEFINE low == Min({100, sum})
<1>5. low \in Int /\ low <= 100
  BY <1>3, <1>4
<1> HIDE DEF low
<1>6. Max({0, low}) = IF low > 0 THEN low ELSE 0
  BY <1>5 DEF Max
<1>7. compute_risk(factors, weights) = Max({0, low})
  BY DEF compute_risk, sum, low
<1> QED BY <1>5, <1>6, <1>7

\* What evaluate returns, as far as evaluate_all compares it.
LEMMA Decides ==
  ASSUME NEW rule, NEW c, \A f \in DOMAIN rule.weights : rule.weights[f] \in Int
  PROVE  evaluate(rule, c).matched \in BOOLEAN /\ evaluate(rule, c).score \in Int
<1> DEFINE zones == match_any(c.boxes)
           factors == collect_factors(c, zones)
           score == compute_risk(factors, rule.weights)
<1>1. factors \in SUBSET Factors
  BY DEF collect_factors, Factors, DEFAULT_WEIGHTS
<1>2. score \in 0..100
  <2> HIDE DEF factors
  <2> QED BY <1>1, RiskIsBounded
<1> HIDE DEF score
<1>3. \E actions : evaluate(rule, c) \in {no_match, Decision(FALSE, 0, actions), Decision(FALSE, score, actions), Decision(TRUE, score, actions)}
  BY DEF evaluate, score, factors, zones
<1>4. PICK actions : evaluate(rule, c) \in {no_match, Decision(FALSE, 0, actions),
                                            Decision(FALSE, score, actions), Decision(TRUE, score, actions)}
  BY <1>3
<1> DEFINE d == evaluate(rule, c)
<1>5. \/ d = [matched |-> FALSE, score |-> 0, actions |-> {}]
      \/ d = [matched |-> FALSE, score |-> 0, actions |-> actions]
      \/ d = [matched |-> FALSE, score |-> score, actions |-> actions]
      \/ d = [matched |-> TRUE, score |-> score, actions |-> actions]
  BY <1>4 DEF no_match, Decision
<1> HIDE DEF d
<1>6. d.matched \in BOOLEAN
  <2>1. ASSUME NEW b \in BOOLEAN, NEW p, NEW a, d = [matched |-> b, score |-> p, actions |-> a]
        PROVE  d.matched = b
    BY <2>1
  <2> QED BY <1>5, <2>1
<1>7. d.score = 0 \/ d.score = score
  BY <1>5
<1>8. d.score \in Int
  BY <1>2, <1>7
<1> QED BY <1>6, <1>8 DEF d

\* The loop of evaluate_all: D is what evaluate says of each rule.
Loop(D, best, n) ==
    best = [i \in 1..n |-> IF i = 1 \/ Beats(D[i], best[i - 1]) THEN D[i] ELSE best[i - 1]]

LEMMA LoopRuns ==
  ASSUME NEW D, NEW n \in Nat
  PROVE  \E best : Loop(D, best, n)
<1>1. \E best : Loop(D, best, 0)
  <2>1. Loop(D, [i \in 1..0 |-> 0], 0)
    BY DEF Loop
  <2> QED BY <2>1
<1>2. ASSUME NEW m \in Nat, NEW best, Loop(D, best, m)
      PROVE  \E more : Loop(D, more, m + 1)
  <2> DEFINE more == [i \in 1..(m + 1) |-> IF i = 1 \/ Beats(D[i], best[i - 1]) THEN D[i] ELSE best[i - 1]]
  <2>1. ASSUME NEW i \in 1..m
        PROVE  more[i] = best[i]
    <3>1. best[i] = IF i = 1 \/ Beats(D[i], best[i - 1]) THEN D[i] ELSE best[i - 1]
      BY <1>2 DEF Loop
    <3> QED BY <3>1
  <2>2. ASSUME NEW i \in 1..(m + 1)
        PROVE  more[i] = IF i = 1 \/ Beats(D[i], more[i - 1]) THEN D[i] ELSE more[i - 1]
    <3>1. i # 1 => i - 1 \in 1..m
      OBVIOUS
    <3> QED BY <2>1, <3>1
  <2>3. Loop(D, more, m + 1)
    BY <2>2 DEF Loop
  <2> QED BY <2>3
<1> DEFINE Good == {m \in Nat : \E best : Loop(D, best, m)}
<1>3. 0 \in Good /\ \A m \in Nat : m \in Good => m + 1 \in Good
  BY <1>1, <1>2
<1>4. Nat \subseteq Good
  <2> HIDE DEF Good
  <2> QED BY <1>3, CountingUp
<1> QED BY <1>4

\* After each turn of the loop the best is the loudest so far.
Loudest(D, n, d) ==
    LET loud == {D[i] : i \in {j \in 1..n : D[j].matched}}
    IN  /\ d.matched <=> loud # {}
        /\ d.matched => d \in loud /\ \A e \in loud : e.score <= d.score

AreDecisions(D, n) ==
    /\ \A i \in 1..n : D[i].matched \in BOOLEAN
    /\ \A i \in 1..n : D[i].score \in Int

LEMMA LoopFindsLoudest ==
  ASSUME NEW n \in Nat \ {0}, NEW D, NEW best, Loop(D, best, n), AreDecisions(D, n)
  PROVE  Loudest(D, n, best[n])
<1> DEFINE OK(m) == /\ \E i \in 1..m : best[m] = D[i]
                    /\ best[m].matched \/ \A i \in 1..m : ~D[i].matched
                    /\ best[m].matched => \A i \in 1..m : D[i].matched => D[i].score <= best[m].score
           Good == {m \in Nat : m \in 1..n => OK(m)}
<1>1. 0 \in Good
  OBVIOUS
<1>2. ASSUME NEW m \in Nat, m \in Good, m + 1 \in 1..n
      PROVE  OK(m + 1)
  <2>1. best[m + 1] = IF m + 1 = 1 \/ Beats(D[m + 1], best[m]) THEN D[m + 1] ELSE best[m]
    BY <1>2 DEF Loop
  <2>2. CASE m = 0
    <3>1. best[1] = D[1]
      BY <2>1, <2>2
    <3>2. D[1].score \in Int
      BY <1>2, <2>2 DEF AreDecisions
    <3>3. \A i \in 1..(m + 1) : i = 1
      BY <2>2
    <3> QED BY <2>2, <3>1, <3>2, <3>3
  <2>3. CASE m # 0
    <3>1. m \in 1..n /\ OK(m)
      BY <1>2, <2>3
    <3>2. PICK j \in 1..m : best[m] = D[j]
      BY <3>1
    <3>3. best[m].matched \in BOOLEAN /\ D[m + 1].matched \in BOOLEAN
      BY <1>2, <3>1, <3>2 DEF AreDecisions
    <3>4. best[m].score \in Int /\ D[m + 1].score \in Int
      BY <1>2, <3>1, <3>2 DEF AreDecisions
    <3>5. \A i \in 1..(m + 1) : i \in 1..m \/ i = m + 1
      OBVIOUS
    <3>6. CASE Beats(D[m + 1], best[m])
      <4>1. best[m + 1] = D[m + 1]
        BY <2>1, <3>6
      <4>2. CASE D[m + 1].matched /\ ~best[m].matched
        BY <1>2, <3>1, <3>3, <3>4, <3>5, <4>1, <4>2
      <4>3. CASE D[m + 1].matched = best[m].matched /\ D[m + 1].score > best[m].score
        <5>1. CASE D[m + 1].matched
          <6>1. best[m].matched
            BY <3>3, <4>3, <5>1
          <6>2. \A i \in 1..m : D[i].matched => D[i].score <= D[m + 1].score
            <7> SUFFICES ASSUME NEW i \in 1..m, D[i].matched
                         PROVE  D[i].score <= D[m + 1].score
              OBVIOUS
            <7>1. D[i].score <= best[m].score
              BY <3>1, <6>1
            <7>2. D[i].score \in Int
              BY <1>2, <3>1 DEF AreDecisions
            <7>3. D[m + 1].score > best[m].score
              BY <4>3
            <7> QED BY <3>4, <7>1, <7>2, <7>3
          <6> QED BY <3>4, <3>5, <4>1, <5>1, <6>2
        <5>2. CASE ~D[m + 1].matched
          <6>1. \A i \in 1..m : ~D[i].matched
            BY <3>1, <3>3, <4>3, <5>2
          <6> QED BY <3>5, <4>1, <5>2, <6>1
        <5> QED BY <5>1, <5>2
      <4> QED BY <3>6, <4>2, <4>3 DEF Beats
    <3>7. CASE ~Beats(D[m + 1], best[m])
      <4>1. best[m + 1] = best[m]
        BY <2>1, <2>3, <3>7
      <4>2. D[m + 1].matched => best[m].matched /\ D[m + 1].score <= best[m].score
        <5> SUFFICES ASSUME D[m + 1].matched
                     PROVE  best[m].matched /\ D[m + 1].score <= best[m].score
          OBVIOUS
        <5>1. best[m].matched
          BY <3>7 DEF Beats
        <5>2. D[m + 1].matched = best[m].matched
          BY <3>3, <5>1
        <5>3. ~(D[m + 1].score > best[m].score)
          BY <3>7, <5>2 DEF Beats
        <5>4. D[m + 1].score <= best[m].score
          BY <3>4, <5>3
        <5> QED BY <5>1, <5>4
      <4> QED BY <1>2, <3>1, <3>5, <4>1, <4>2
    <3> QED BY <3>6, <3>7
  <2> QED BY <2>2, <2>3
<1>3. Nat \subseteq Good
  <2>1. \A m \in Nat : m \in Good => m + 1 \in Good
    BY <1>2
  <2> HIDE DEF Good
  <2> QED BY <1>1, <2>1, CountingUp
<1>4. OK(n)
  BY <1>3
<1> QED BY <1>4 DEF Loudest

\* The verdict on a list of rules is that of the loudest (evaluate_all).
LEMMA LoudestIsKept ==
  ASSUME NEW n \in Nat, NEW rs, rs = [i \in 1..n |-> rs[i]], NEW c,
         \A i \in 1..n : \A f \in DOMAIN rs[i].weights : rs[i].weights[f] \in Int
  PROVE  Loudest([i \in 1..n |-> evaluate(rs[i], c)], n, evaluate_all(rs, c))
<1> DEFINE D == [i \in 1..n |-> evaluate(rs[i], c)]
<1>1. AreDecisions(D, n)
  <2>1. ASSUME NEW i \in 1..n
        PROVE  D[i].matched \in BOOLEAN
    BY Decides
  <2>2. ASSUME NEW i \in 1..n
        PROVE  D[i].score \in Int
    BY Decides
  <2> QED BY <2>1, <2>2 DEF AreDecisions
<1>2. rs \in Seq({rs[i] : i \in 1..n}) /\ Len(rs) = n /\ DOMAIN rs = 1..n
  BY IsASeq
<1>3. CASE n = 0
  <2>1. rs = <<>>
    BY <1>2, <1>3
  <2>2. evaluate_all(rs, c) = [matched |-> FALSE, score |-> 0, actions |-> {}]
    BY <2>1 DEF evaluate_all, no_match, Decision
  <2>3. ~evaluate_all(rs, c).matched
    BY <2>2
  <2> HIDE DEF D
  <2> QED BY <1>3, <2>3 DEF Loudest, D
<1>4. CASE n # 0
  <2> DEFINE Eqn(f) == f = [i \in DOMAIN rs |-> IF i = 1 \/ Beats(evaluate(rs[i], c), f[i - 1])
                                               THEN evaluate(rs[i], c) ELSE f[i - 1]]
             best == CHOOSE f : Eqn(f)
  <2>1. \A f : Eqn(f) <=> Loop(D, f, n)
    BY <1>2 DEF Loop
  <2>2. Loop(D, best, n)
    <3>1. \E f : Eqn(f)
      BY <2>1, LoopRuns
    <3>2. Eqn(best)
      BY <3>1
    <3> QED BY <2>1, <3>2
  <2>3. evaluate_all(rs, c) = best[n]
    BY <1>2, <1>4 DEF evaluate_all
  <2> HIDE DEF best, D
  <2>4. Loudest(D, n, best[n])
    BY <1>1, <1>4, <2>2, LoopFindsLoudest
  <2> QED BY <2>3, <2>4 DEF D
<1> QED BY <1>3, <1>4

\* Whatever rules a site has and in whatever order, it alarms if one of them
\* does, with the highest score among those (evaluate_all).
THEOREM StrongestWins == AlertSpec => []LoudestRuleWins
<1>1. AlertInit => LoudestRuleWins
  BY DEF AlertInit, LoudestRuleWins
<1>2. ASSUME FlowInv, LoudestRuleWins, [AlertNext]_alertVars
      PROVE  LoudestRuleWins'
  <2>1. CASE Judge
    <3>1. /\ verdict' = evaluate_all(EngineRules, sighting)
          /\ UNCHANGED <<rules, sighting>>
      BY <2>1 DEF Judge
    <3>2. PICK n \in Nat : rules = [i \in 1..n |-> rules[i]]
      BY <1>2 DEF FlowInv
    <3>3. EngineRules = [i \in 1..n |-> EngineRules[i]] /\ DOMAIN rules = 1..n
      BY <3>2 DEF EngineRules
    <3>4. ASSUME NEW i \in 1..n
          PROVE  \A f \in DOMAIN EngineRules[i].weights : EngineRules[i].weights[f] \in Int
      <4>1. EngineRules[i].weights = rules[i].weights
        BY <1>2, <3>3 DEF EngineRules, FlowInv, RowOK
      <4> QED BY <1>2, <3>3, <4>1 DEF FlowInv, RowOK
    <3> DEFINE D == [i \in 1..n |-> evaluate(EngineRules[i], sighting)]
    <3>5. Loudest(D, n, evaluate_all(EngineRules, sighting))
      BY <3>3, <3>4, LoudestIsKept
    <3>6. {d \in {evaluate(EngineRules[i], sighting) : i \in DOMAIN rules} : d.matched}
              = {D[i] : i \in {j \in 1..n : D[j].matched}}
      BY <3>3
    <3>7. LET loud == {d \in {evaluate(EngineRules[i], sighting) : i \in DOMAIN rules} : d.matched}
              d == evaluate_all(EngineRules, sighting)
          IN  /\ d.matched <=> loud # {}
              /\ d.matched => d \in loud /\ \A e \in loud : e.score <= d.score
      BY <3>5, <3>6 DEF Loudest
    <3>8. EngineRules' = EngineRules
      BY <3>1 DEF EngineRules
    <3> QED BY <3>1, <3>7, <3>8 DEF LoudestRuleWins
  <2>2. CASE Sighted \/ Switch \/ Pass
    <3>1. stage' # "judged"
      BY <2>2 DEF Sighted, Switch, Pass
    <3> QED BY <3>1 DEF LoudestRuleWins
  <2>3. CASE UNCHANGED flowVars
    BY <1>2, <2>3 DEF flowVars, LoudestRuleWins, EngineRules
  <2> QED BY <1>2, <2>1, <2>2, <2>3 DEF AlertNext, alertVars
<1> QED
  BY <1>1, <1>2, FlowInvariant, PTL DEF AlertSpec

(***************************************************************************)
(* The fan-out.  Every copy but that of a send that has ended in SENT was  *)
(* one whose answer was lost, and once the records are written no send is  *)
(* under way any more.                                                     *)
(***************************************************************************)
Bearers == {"none", "good", "refused"}
UnderWay == {"attempt", "mint", "post"}
Send == [pc : UnderWay \cup Results, attempt : Int, bearer : Bearers]

PushTypeOK ==
    /\ send \in [Recipients -> Send]
    /\ cache \in [Transports -> Bearers]
    /\ copies \in [Recipients -> Nat]
    /\ lost \in [Recipients -> Nat]

\* Only a phone with a transport is sent to.
HasTransport(p) == send[p].pc \in UnderWay => Platform[p] \in Transports

\* Copies and lost answers of phone p agree, but for the one that was SENT.
CopiesAdd(p) ==
    /\ send[p].pc = "SENT" => copies[p] = lost[p] + 1
    /\ send[p].pc # "SENT" => copies[p] = lost[p]

PrunedForCause(p) == send[p].pc = "UNREGISTERED" => p \notin installed \/ p \in blamed

\* The gather is over when the records are written.
Gathered(p) == fanout # "sending" => send[p].pc \in Results

RowsPruned(p) == fanout = "recorded" /\ send[p].pc = "UNREGISTERED" => p \notin rows

PhoneInv(p) ==
    HasTransport(p) /\ CopiesAdd(p) /\ PrunedForCause(p) /\ Gathered(p) /\ RowsPruned(p)

PushInv == PushTypeOK /\ \A p \in Recipients : PhoneInv(p)

\* The states of a send are told apart by their names.
LEMMA SendStates ==
  /\ UnderWay \cap Results = {}
  /\ "SENT" \in Results /\ "UNREGISTERED" \in Results /\ "FAILED" \in Results
  /\ "SENT" # "UNREGISTERED"
  BY DEF UnderWay, Results

\* A step of one send that is under way and comes back neither SENT nor
\* UNREGISTERED leaves the histories balanced.
LEMMA SendGoesOn ==
  ASSUME PushInv, NEW p \in Recipients, send[p].pc \in UnderWay,
         NEW new \in Send, send' = [send EXCEPT ![p] = new],
         new.pc \notin {"SENT", "UNREGISTERED"},
         cache' \in [Transports -> Bearers],
         UNCHANGED <<installed, rows, fanout, copies, lost, blamed>>
  PROVE  PushInv'
<1>1. PushTypeOK /\ PhoneInv(p)
  BY DEF PushInv
<1>2. /\ send' \in [Recipients -> Send] /\ send'[p] = new
      /\ \A q \in Recipients \ {p} : send'[q] = send[q]
  BY <1>1 DEF PushTypeOK
<1>3. PushTypeOK'
  BY <1>1, <1>2 DEF PushTypeOK
<1>4. PhoneInv(p)'
  <2>1. fanout = "sending" /\ Platform[p] \in Transports /\ copies[p] = lost[p]
    BY <1>1, SendStates DEF PhoneInv, Gathered, HasTransport, CopiesAdd, UnderWay
  <2> QED BY <1>2, <2>1 DEF PhoneInv, HasTransport, CopiesAdd, PrunedForCause, Gathered, RowsPruned
<1>5. ASSUME NEW q \in Recipients \ {p}
      PROVE  PhoneInv(q)'
  BY <1>2 DEF PushInv, PhoneInv, HasTransport, CopiesAdd, PrunedForCause, Gathered, RowsPruned
<1> QED
  BY <1>3, <1>4, <1>5 DEF PushInv

\* What the retry loop makes of an outcome.
LEMMA EndsEffect ==
  ASSUME PushTypeOK, NEW p \in Recipients, NEW outcome \in {"retry", "SENT", "UNREGISTERED", "FAILED"},
         Ends(p, outcome)
  PROVE  \E new \in Send :
             /\ send' = [send EXCEPT ![p] = new]
             /\ outcome = "retry" => new.pc \in {"attempt", "FAILED"}
             /\ outcome # "retry" => new.pc = outcome
<1>1. send[p] \in Send /\ send \in [Recipients -> Send]
  BY DEF PushTypeOK
<1>2. CASE outcome # "retry"
  <2> DEFINE new == [send[p] EXCEPT !.pc = outcome]
  <2>1. new \in Send /\ new.pc = outcome
    BY <1>1, <1>2 DEF Send, UnderWay, Results
  <2>2. send' = [send EXCEPT ![p] = new]
    BY <1>2 DEF Ends
  <2> QED BY <1>2, <2>1, <2>2
<1>3. CASE outcome = "retry" /\ send[p].attempt = MaxAttempts
  <2> DEFINE new == [send[p] EXCEPT !.pc = "FAILED"]
  <2>1. new \in Send /\ new.pc = "FAILED"
    BY <1>1 DEF Send, UnderWay, Results
  <2>2. send' = [send EXCEPT ![p] = new]
    BY <1>3 DEF Ends
  <2> QED BY <1>3, <2>1, <2>2
<1>4. CASE outcome = "retry" /\ send[p].attempt # MaxAttempts
  <2> DEFINE again == [send[p] EXCEPT !.pc = "attempt"]
             new == [again EXCEPT !.attempt = send[p].attempt + 1]
  <2>1. send' = [send EXCEPT ![p] = new]
    BY <1>4 DEF Ends
  <2>2. again \in Send /\ again.pc = "attempt"
    BY <1>1 DEF Send, UnderWay, Results
  <2>3. send[p].attempt + 1 \in Int
    BY <1>1 DEF Send
  <2> HIDE DEF again
  <2>4. new \in Send /\ new.pc = "attempt"
    BY <2>2, <2>3 DEF Send
  <2> QED BY <1>4, <2>1, <2>4
<1> QED
  BY <1>2, <1>3, <1>4

\* The answer to one attempt.
LEMMA AnswerKeeps ==
  ASSUME PushInv, NEW p \in Recipients, NEW answer \in Answers(p), Answer(p, answer)
  PROVE  PushInv'
<1>1. PushTypeOK /\ PhoneInv(p) /\ send[p].pc = "post"
  BY DEF PushInv, Answer
<1>2. /\ fanout = "sending" /\ Platform[p] \in Transports /\ copies[p] = lost[p]
  BY <1>1, SendStates DEF PhoneInv, Gathered, HasTransport, CopiesAdd, UnderWay
<1>3. Outcome(answer) \in {"retry", "SENT", "UNREGISTERED", "FAILED"}
  BY DEF Outcome
<1>4. PICK new \in Send :
          /\ send' = [send EXCEPT ![p] = new]
          /\ Outcome(answer) = "retry" => new.pc \in {"attempt", "FAILED"}
          /\ Outcome(answer) # "retry" => new.pc = Outcome(answer)
  BY <1>1, <1>3, EndsEffect DEF Answer
<1>5. /\ send' \in [Recipients -> Send] /\ send'[p] = new
      /\ \A q \in Recipients \ {p} : send'[q] = send[q]
  BY <1>1, <1>4 DEF PushTypeOK
<1>6. cache' \in [Transports -> Bearers]
  BY <1>1, <1>2 DEF Answer, PushTypeOK, Bearers
<1>7. /\ copies' = IF answer \in {"ok", "lost"} THEN [copies EXCEPT ![p] = @ + 1] ELSE copies
      /\ lost' = IF answer = "lost" THEN [lost EXCEPT ![p] = @ + 1] ELSE lost
      /\ blamed' = IF answer = "invalid" THEN blamed \cup {p} ELSE blamed
      /\ UNCHANGED <<installed, rows, fanout>>
  BY DEF Answer
<1>8. /\ copies' \in [Recipients -> Nat] /\ lost' \in [Recipients -> Nat]
      /\ \A q \in Recipients \ {p} : copies'[q] = copies[q] /\ lost'[q] = lost[q]
      /\ answer = "ok" => copies'[p] = lost'[p] + 1
      /\ answer # "ok" => copies'[p] = lost'[p]
  BY <1>1, <1>2, <1>7 DEF PushTypeOK
<1>9. PhoneInv(p)'
  <2>1. new.pc = "SENT" <=> answer = "ok"
    BY <1>4 DEF Outcome
  <2>2. new.pc = "UNREGISTERED" => p \notin installed \/ answer = "invalid"
    BY <1>4 DEF Outcome, Answers
  <2> QED BY <1>2, <1>5, <1>7, <1>8, <2>1, <2>2 DEF PhoneInv, HasTransport, CopiesAdd, PrunedForCause,
             Gathered, RowsPruned
<1>10. ASSUME NEW q \in Recipients \ {p}
       PROVE  PhoneInv(q)'
  BY <1>5, <1>7, <1>8 DEF PushInv, PhoneInv, HasTransport, CopiesAdd, PrunedForCause, Gathered, RowsPruned
<1> QED
  BY <1>5, <1>6, <1>8, <1>9, <1>10 DEF PushInv, PushTypeOK

LEMMA PushInvariant == AlertSpec => []PushInv
<1>1. AlertInit => PushInv
  <2> SUFFICES ASSUME AlertInit
               PROVE  PushInv
    OBVIOUS
  <2>1. PushInit
    BY DEF AlertInit
  <2>2. ASSUME NEW p \in Recipients
        PROVE  /\ send[p] \in Send
               /\ send[p].pc = IF Platform[p] \in Transports THEN "attempt" ELSE "UNCONFIGURED"
    BY <2>1 DEF PushInit, Send, UnderWay, Results, Bearers
  <2>3. PushTypeOK
    BY <2>1, <2>2 DEF PushInit, PushTypeOK, Bearers
  <2>4. ASSUME NEW p \in Recipients
        PROVE  PhoneInv(p)
    BY <2>1, <2>2 DEF PushInit, PhoneInv, HasTransport, CopiesAdd, PrunedForCause, Gathered, RowsPruned,
       UnderWay
  <2> QED BY <2>3, <2>4 DEF PushInv
<1>2. ASSUME PushInv, [AlertNext]_alertVars
      PROVE  PushInv'
  <2>1. PushTypeOK /\ \A p \in Recipients : PhoneInv(p)
    BY <1>2 DEF PushInv
  <2>2. ASSUME NEW p \in Recipients, NEW bearer \in Bearers, send[p].pc \in UnderWay,
               Posts(p, bearer), cache' \in [Transports -> Bearers],
               UNCHANGED <<installed, rows, fanout, copies, lost, blamed>>
        PROVE  PushInv'
    <3> DEFINE posted == [send[p] EXCEPT !.pc = "post"]
               new == [posted EXCEPT !.bearer = bearer]
    <3>1. send' = [send EXCEPT ![p] = new]
      BY <2>1, <2>2 DEF Posts, PushTypeOK
    <3>2. posted \in Send /\ posted.pc = "post"
      BY <2>1 DEF PushTypeOK, Send, UnderWay
    <3> HIDE DEF posted
    <3>3. new \in Send /\ new.pc = "post"
      BY <2>2, <3>2 DEF Send
    <3> HIDE DEF new
    <3> QED BY <1>2, <2>2, <3>1, <3>3, SendGoesOn
  <2>3. ASSUME NEW p \in Recipients, Bearer(p)
        PROVE  PushInv'
    <3>1. send[p].pc = "attempt" /\ Platform[p] \in Transports
      BY <2>1, <2>3 DEF Bearer, PhoneInv, HasTransport, UnderWay
    <3>2. /\ cache[Platform[p]] \in Bearers /\ "good" \in Bearers
          /\ UNCHANGED <<installed, rows, fanout, copies, lost, blamed>>
      BY <2>1, <2>3, <3>1 DEF Bearer, PushTypeOK, Bearers
    <3>3. cache' \in [Transports -> Bearers]
      BY <2>1, <2>3, <3>1 DEF Bearer, PushTypeOK, Bearers
    <3>4. CASE Posts(p, cache[Platform[p]]) \/ Posts(p, "good")
      BY <2>2, <3>1, <3>2, <3>3, <3>4 DEF UnderWay
    <3>5. CASE send' = [send EXCEPT ![p].pc = "mint", ![p].bearer = "good"]
      <4> DEFINE minting == [send[p] EXCEPT !.pc = "mint"]
                 new == [minting EXCEPT !.bearer = "good"]
      <4>1. send' = [send EXCEPT ![p] = new]
        BY <2>1, <3>5 DEF PushTypeOK
      <4>2. minting \in Send /\ minting.pc = "mint"
        BY <2>1 DEF PushTypeOK, Send, UnderWay
      <4> HIDE DEF minting
      <4>3. new \in Send /\ new.pc = "mint"
        BY <4>2 DEF Send, Bearers
      <4> HIDE DEF new
      <4>4. send[p].pc \in UnderWay
        BY <3>1 DEF UnderWay
      <4> QED BY <1>2, <3>2, <3>3, <4>1, <4>3, <4>4, SendGoesOn
    <3> QED BY <2>3, <3>4, <3>5 DEF Bearer
  <2>4. ASSUME NEW p \in Recipients, Minted(p)
        PROVE  PushInv'
    <3>1. send[p].pc \in UnderWay /\ send[p].bearer \in Bearers
      BY <2>1, <2>4 DEF Minted, UnderWay, PushTypeOK, Send
    <3>2. cache' \in [Transports -> Bearers]
      BY <2>1, <2>4, <3>1 DEF Minted, PushTypeOK, Transports
    <3> QED BY <2>2, <2>4, <3>1, <3>2 DEF Minted
  <2>5. ASSUME NEW p \in Recipients, MintFails(p)
        PROVE  PushInv'
    <3>1. send[p].pc \in UnderWay /\ cache' \in [Transports -> Bearers]
      BY <2>1, <2>5 DEF MintFails, UnderWay, PushTypeOK
    <3>2. PICK outcome \in {"retry", "FAILED"} : Ends(p, outcome)
      BY <2>5 DEF MintFails
    <3>3. PICK new \in Send : send' = [send EXCEPT ![p] = new] /\ new.pc \in {"attempt", "FAILED"}
      BY <2>1, <3>2, EndsEffect
    <3> QED BY <1>2, <2>5, <3>1, <3>3, SendGoesOn DEF MintFails
  <2>6. ASSUME NEW p \in Recipients, NEW answer \in Answers(p), Answer(p, answer)
        PROVE  PushInv'
    BY <1>2, <2>6, AnswerKeeps
  <2>7. ASSUME NEW p \in Recipients, Uninstall(p)
        PROVE  PushInv'
    BY <2>1, <2>7 DEF PushInv, Uninstall, PushTypeOK, PhoneInv, HasTransport, CopiesAdd, PrunedForCause,
       Gathered, RowsPruned
  <2>8. ASSUME NEW p \in Recipients, RowGone(p)
        PROVE  PushInv'
    BY <2>1, <2>8 DEF PushInv, RowGone, PushTypeOK, PhoneInv, HasTransport, CopiesAdd, PrunedForCause,
       Gathered, RowsPruned
  <2>9. CASE Record
    BY <2>1, <2>9 DEF PushInv, Record, PushTypeOK, PhoneInv, HasTransport, CopiesAdd, PrunedForCause,
       Gathered, RowsPruned
  <2>10. ASSUME NEW t \in Transports, Revoke(t)
         PROVE  PushInv'
    <3> DEFINE Refuse(b) == IF b = "good" THEN "refused" ELSE b
    <3>1. /\ cache' = [cache EXCEPT ![t] = Refuse(cache[t])]
          /\ send' = [p \in Recipients |->
                         IF Platform[p] = t THEN [send[p] EXCEPT !.bearer = Refuse(send[p].bearer)]
                         ELSE send[p]]
          /\ UNCHANGED <<installed, rows, fanout, copies, lost, blamed>>
      BY <2>10 DEF Revoke
    <3>2. \A b \in Bearers : Refuse(b) \in Bearers
      BY DEF Bearers
    <3> HIDE DEF Refuse
    <3>3. ASSUME NEW p \in Recipients
          PROVE  send'[p] \in Send /\ send'[p].pc = send[p].pc
      <4>1. send[p] \in Send
        BY <2>1 DEF PushTypeOK
      <4>2. send[p].bearer \in Bearers
        BY <4>1 DEF Send
      <4> DEFINE b == Refuse(send[p].bearer)
      <4>3. b \in Bearers
        BY <3>2, <4>2
      <4>4. send'[p] = IF Platform[p] = t THEN [send[p] EXCEPT !.bearer = b] ELSE send[p]
        BY <3>1
      <4> HIDE DEF b
      <4> QED BY <4>1, <4>3, <4>4 DEF Send
    <3>4. PushTypeOK'
      BY <2>1, <3>1, <3>2, <3>3 DEF PushTypeOK
    <3>5. ASSUME NEW p \in Recipients
          PROVE  PhoneInv(p)'
      BY <2>1, <3>1, <3>3 DEF PhoneInv, HasTransport, CopiesAdd, PrunedForCause, Gathered, RowsPruned
    <3> QED BY <3>4, <3>5 DEF PushInv
  <2>11. CASE UNCHANGED pushVars
    BY <2>1, <2>11 DEF pushVars, PushInv, PushTypeOK, PhoneInv, HasTransport, CopiesAdd, PrunedForCause,
       Gathered, RowsPruned
  <2> QED
    BY <1>2, <2>3, <2>4, <2>5, <2>6, <2>7, <2>8, <2>9, <2>10, <2>11 DEF AlertNext, PushNext, alertVars
<1> QED
  BY <1>1, <1>2, PTL DEF AlertSpec

\* Whatever the providers answer, lose or refuse and however the sends interleave,
\* a phone said to be reached was, and a row is pruned only of a phone without
\* the app or one the provider blamed for our error (dispatch, send_with_retry,
\* the FCM and APNs clients).
THEOREM RecordsAreTrue == AlertSpec => []PushIsHonest
<1>1. PushInv => PushIsHonest
  <2> SUFFICES ASSUME PushInv, NEW p \in Recipients
               PROVE  /\ send[p].pc = "SENT" => copies[p] > lost[p]
                      /\ copies[p] <= lost[p] + 1
                      /\ fanout = "recorded" /\ send[p].pc = "UNREGISTERED" => p \notin rows
                      /\ send[p].pc = "UNREGISTERED" => p \notin installed \/ p \in blamed
    BY DEF PushIsHonest
  <2>1. copies[p] \in Nat /\ lost[p] \in Nat
    BY DEF PushInv, PushTypeOK
  <2> QED BY <2>1 DEF PushInv, PhoneInv, CopiesAdd, RowsPruned, PrunedForCause
<1> QED
  BY <1>1, PushInvariant, PTL
=============================================================================
