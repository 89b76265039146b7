-------------------------- MODULE EscalationProofs --------------------------
(***************************************************************************)
(* Theorems about Escalation, for any set of alarms, any staffing and any  *)
(* number of faults.                                                       *)
(***************************************************************************)
EXTENDS Escalation, TLAPS

\* due_steps returns steps of the alarm's policy that no row records yet.
LEMMA DueStepsType ==
    ASSUME NEW a \in Alarms
    PROVE  /\ DueSteps(a) \subseteq AlarmSteps
           /\ \A d \in DueSteps(a) : d[1] = a /\ d \notin deliveries \cup staged
<1>1. DOMAIN PolicyFor(a) \subseteq Steps
  <2>1. CASE Severity[a] = "CRITICAL"
    <3>1. PolicyFor(a) = CRITICAL_POLICY
      BY <2>1 DEF PolicyFor
    <3>2. DOMAIN CRITICAL_POLICY = 1..4
      BY DEF CRITICAL_POLICY, GUARD, SITE_MANAGER, SECURITY_MANAGER, OWNER
    <3> QED BY <3>1, <3>2 DEF Steps
  <2>2. CASE Severity[a] # "CRITICAL"
    <3>1. PolicyFor(a) = DEFAULT_POLICY
      BY <2>2 DEF PolicyFor
    <3>2. DOMAIN DEFAULT_POLICY = 1..3
      BY DEF DEFAULT_POLICY, GUARD, SITE_MANAGER, SECURITY_MANAGER, OWNER
    <3> QED BY <3>1, <3>2 DEF Steps
  <2> QED BY <2>1, <2>2
<1>2. ASSUME NEW d \in DueSteps(a)
      PROVE  d \in AlarmSteps /\ d[1] = a /\ d \notin deliveries \cup staged
  <2> PICK k \in DOMAIN PolicyFor(a) : d = <<a, k>> /\ <<a, k>> \notin deliveries \cup staged
    BY DEF DueSteps
  <2> QED BY <1>1 DEF AlarmSteps
<1> QED BY <1>2

\* Every variable keeps its type through every step of the worker, the
\* notifier and the people around them.
THEOREM TypeCorrect == Spec => []TypeOK
<1>1. Init => TypeOK
  BY EscalationAssumption DEF Init, TypeOK, AlarmSteps, Unopened
<1>2. TypeOK /\ [Next]_vars => TypeOK'
  <2> SUFFICES ASSUME TypeOK, [Next]_vars PROVE TypeOK'
    OBVIOUS
  <2> USE EscalationAssumption DEF TypeOK, sweep
  <2>1. CASE \E a \in Alarms : Open(a) \/ Stop(a)
    BY <2>1 DEF Open, Stop, Unopened
  <2>2. CASE \E r \in Roles : Register(r) \/ Unregister(r)
    BY <2>2 DEF Register, Unregister
  <2>3. CASE Tick
    BY <2>3 DEF Tick, Unopened
  <2>4. CASE \E a \in Alarms : NotifierSend(a) \/ NotifierCommit(a) \/ NotifierFail(a)
    <3> PICK a \in Alarms : NotifierSend(a) \/ NotifierCommit(a) \/ NotifierFail(a)
      BY <2>4
    <3>1. <<a, 1>> \in AlarmSteps
      BY DEF AlarmSteps, Steps
    <3>2. CASE NotifierSend(a)
      BY <3>2 DEF NotifierSend
    <3>3. CASE NotifierCommit(a)
      BY <3>1, <3>3 DEF NotifierCommit
    <3>4. CASE NotifierFail(a)
      BY <3>4 DEF NotifierFail
    <3> QED BY <3>2, <3>3, <3>4
  <2>5. CASE SweepBegin
    BY <2>5 DEF SweepBegin, OpenAlarms
  <2>6. CASE SweepAlarm
    BY <2>6, DueStepsType DEF SweepAlarm
  <2>7. CASE ReachesNobody
    BY <2>7 DEF ReachesNobody
  <2>8. CASE Page
    BY <2>8 DEF Page, Audience
  <2>9. CASE PageRaises
    BY <2>9 DEF PageRaises
  <2>10. CASE SweepCommit
    BY <2>10 DEF SweepCommit, SweepOver
  <2>11. CASE SweepFail
    BY <2>11 DEF SweepFail, SweepOver
  <2>12. CASE UNCHANGED vars
    BY <2>12 DEF vars
  <2> QED
    BY <2>1, <2>2, <2>3, <2>4, <2>5, <2>6, <2>7, <2>8, <2>9, <2>10, <2>11, <2>12 DEF Next, Sweep
<1> QED BY <1>1, <1>2, PTL DEF Spec
-----------------------------------------------------------------------------
\* What a sweep still owes it has not paged since the last lost sweep, and
\* what it has paged since then is on record or staged.
RepageInv ==
    \A d \in AlarmSteps :
        /\ pages[d] <= lost + 1
        /\ d \notin deliveries \cup staged => pages[d] <= lost
        /\ d \in due => pages[d] <= lost

\* A page raises its own count by one and stages its own row.
LEMMA OnePage ==
    ASSUME TypeOK, RepageInv, NEW d \in due,
           pages' = [pages EXCEPT ![d] = @ + 1],
           staged' = staged \cup {d},
           due' \subseteq due \ {d},
           UNCHANGED <<deliveries, lost>>
    PROVE  RepageInv'
<1> SUFFICES ASSUME NEW e \in AlarmSteps
             PROVE  /\ pages'[e] <= lost + 1
                    /\ e \notin deliveries \cup staged' => pages'[e] <= lost
                    /\ e \in due' => pages'[e] <= lost
  BY DEF RepageInv
<1>1. CASE e = d
  <2>1. pages'[e] = pages[e] + 1 /\ pages[e] \in Nat /\ lost \in Nat
    BY <1>1 DEF TypeOK
  <2>2. pages[e] <= lost
    BY <1>1 DEF RepageInv
  <2> QED BY <1>1, <2>1, <2>2
<1>2. CASE e # d
  <2>1. pages'[e] = pages[e]
    BY <1>2 DEF TypeOK
  <2> QED BY <1>2, <2>1 DEF RepageInv
<1> QED BY <1>1, <1>2

\* The sweeps page a step again only for a sweep that was lost, for any number
\* of alarms, faults and phones (RepageBound).
THEOREM BoundedRepaging == Spec => []RepageBound
<1>1. Init => RepageInv
  BY DEF Init, RepageInv
<1>2. TypeOK /\ RepageInv /\ [Next]_vars => RepageInv'
  <2> SUFFICES ASSUME TypeOK, RepageInv, [Next]_vars PROVE RepageInv'
    OBVIOUS
  <2>0. lost \in Nat /\ pages \in [AlarmSteps -> Nat]
    BY DEF TypeOK
  <2>1. CASE \E a \in Alarms : Open(a) \/ Stop(a)
    BY <2>1 DEF Open, Stop, RepageInv, sweep
  <2>2. CASE \E r \in Roles : Register(r) \/ Unregister(r)
    BY <2>2 DEF Register, Unregister, RepageInv, sweep
  <2>3. CASE Tick
    BY <2>3 DEF Tick, RepageInv, sweep
  <2>4. CASE \E a \in Alarms : NotifierSend(a) \/ NotifierCommit(a) \/ NotifierFail(a)
    BY <2>4 DEF NotifierSend, NotifierCommit, NotifierFail, RepageInv, sweep
  <2>5. CASE SweepBegin
    BY <2>5 DEF SweepBegin, RepageInv
  <2>6. CASE SweepAlarm
    BY <2>6, DueStepsType DEF SweepAlarm, RepageInv, TypeOK
  <2>7. CASE ReachesNobody
    BY <2>7 DEF ReachesNobody, RepageInv
  <2>8. CASE Page
    <3> PICK d \in due : /\ pages' = [pages EXCEPT ![d] = @ + 1]
                         /\ staged' = staged \cup {d}
                         /\ due' = due \ {d}
      BY <2>8 DEF Page
    <3> QED BY <2>8, OnePage DEF Page
  <2>9. CASE PageRaises
    <3> PICK d \in due : /\ pages' = [pages EXCEPT ![d] = @ + 1]
                         /\ staged' = staged \cup {d}
      BY <2>9 DEF PageRaises
    <3> QED BY <2>9, OnePage DEF PageRaises
  <2>10. CASE SweepCommit
    BY <2>10 DEF SweepCommit, SweepOver, RepageInv
  <2>11. CASE SweepFail
    BY <2>0, <2>11 DEF SweepFail, SweepOver, RepageInv
  <2>12. CASE UNCHANGED vars
    BY <2>12 DEF vars, sweep, RepageInv
  <2> QED
    BY <2>1, <2>2, <2>3, <2>4, <2>5, <2>6, <2>7, <2>8, <2>9, <2>10, <2>11, <2>12 DEF Next, Sweep
<1>3. TypeOK /\ RepageInv => RepageBound
  BY DEF TypeOK, RepageInv, RepageBound
<1> QED BY <1>1, <1>2, <1>3, TypeCorrect, PTL DEF Spec
-----------------------------------------------------------------------------
(***************************************************************************)
(* The chain is climbed in order.  A step is skipped only when nobody at   *)
(* its rank or above holds a phone, and then no higher step has an         *)
(* audience either.  The committed rows are in order by themselves: a lost *)
(* sweep takes its staged rows away.                                       *)
(***************************************************************************)
Able(d) == {r \in staffed \ gone : r >= PolicyFor(d[1])[d[2]].role}

InOrder(S) == \A d \in S : \A k \in 1..(d[2] - 1) : <<d[1], k>> \in S

\* A step still due has every lower one due with it, recorded, or out of reach.
DueInOrder ==
    \A d \in due :
        /\ d[2] \in DOMAIN PolicyFor(d[1])
        /\ \A k \in 1..(d[2] - 1) :
              <<d[1], k>> \in due \cup deliveries \cup staged \/ Able(<<d[1], k>>) = {}

ClimbInv ==
    turnover = 0 => InOrder(deliveries) /\ InOrder(deliveries \cup staged) /\ DueInOrder

\* Both policies page later and higher with every step.
LEMMA PoliciesClimb ==
    ASSUME NEW a \in Alarms, NEW k \in DOMAIN PolicyFor(a), NEW j \in 1..(k - 1)
    PROVE  /\ k \in Steps /\ j \in DOMAIN PolicyFor(a)
           /\ PolicyFor(a)[j].after \in Int /\ PolicyFor(a)[k].after \in Int
           /\ PolicyFor(a)[j].after <= PolicyFor(a)[k].after
           /\ PolicyFor(a)[j].role \in Int /\ PolicyFor(a)[k].role \in Int
           /\ PolicyFor(a)[j].role <= PolicyFor(a)[k].role
<1>1. CASE Severity[a] = "CRITICAL"
  <2>1. PolicyFor(a) = CRITICAL_POLICY
    BY <1>1 DEF PolicyFor
  <2>2. /\ DOMAIN CRITICAL_POLICY = 1..4
        /\ CRITICAL_POLICY[1].after = 0 /\ CRITICAL_POLICY[1].role = 1
        /\ CRITICAL_POLICY[2].after = 1 /\ CRITICAL_POLICY[2].role = 3
        /\ CRITICAL_POLICY[3].after = 3 /\ CRITICAL_POLICY[3].role = 4
        /\ CRITICAL_POLICY[4].after = 8 /\ CRITICAL_POLICY[4].role = 6
    BY DEF CRITICAL_POLICY, GUARD, SITE_MANAGER, SECURITY_MANAGER, OWNER
  <2>3. k \in 1..4 /\ j \in 1..4 /\ j < k
    BY <2>1, <2>2
  <2>4. k \in {1, 2, 3, 4} /\ j \in {1, 2, 3, 4}
    BY <2>3
  <2> HIDE DEF CRITICAL_POLICY
  <2> QED BY <2>1, <2>2, <2>3, <2>4 DEF Steps
<1>2. CASE Severity[a] # "CRITICAL"
  <2>1. PolicyFor(a) = DEFAULT_POLICY
    BY <1>2 DEF PolicyFor
  <2>2. /\ DOMAIN DEFAULT_POLICY = 1..3
        /\ DEFAULT_POLICY[1].after = 0 /\ DEFAULT_POLICY[1].role = 1
        /\ DEFAULT_POLICY[2].after = 2 /\ DEFAULT_POLICY[2].role = 3
        /\ DEFAULT_POLICY[3].after = 6 /\ DEFAULT_POLICY[3].role = 4
    BY DEF DEFAULT_POLICY, GUARD, SITE_MANAGER, SECURITY_MANAGER
  <2>3. k \in 1..3 /\ j \in 1..3 /\ j < k
    BY <2>1, <2>2
  <2>4. k \in {1, 2, 3} /\ j \in {1, 2, 3}
    BY <2>3
  <2> QED BY <2>1, <2>2, <2>3, <2>4 DEF Steps
<1> QED BY <1>1, <1>2

\* No step is recorded before the steps below it while nobody changes phones,
\* through lost sweeps and beside the notifier (escalate_alarm,
\* recipients_for_role).
THEOREM ChainIsClimbed == Spec => []ClimbsInOrder
<1>1. Init => ClimbInv
  BY DEF Init, ClimbInv, InOrder, DueInOrder
<1>2. TypeOK /\ ClimbInv /\ [Next]_vars => ClimbInv'
  <2> SUFFICES ASSUME TypeOK, ClimbInv, [Next]_vars, turnover' = 0
               PROVE  (InOrder(deliveries) /\ InOrder(deliveries \cup staged) /\ DueInOrder)'
    BY DEF ClimbInv
  <2>0. turnover = 0
    BY DEF TypeOK, Next, Sweep, vars, sweep, Open, Stop, Register, Unregister, Tick, NotifierSend,
           NotifierCommit, NotifierFail, SweepBegin, SweepAlarm, ReachesNobody, Page, PageRaises,
           SweepCommit, SweepFail
  <2>i. InOrder(deliveries) /\ InOrder(deliveries \cup staged) /\ DueInOrder
    BY <2>0 DEF ClimbInv
  <2>a. ASSUME UNCHANGED <<deliveries, staged, due, staffed, gone>>
        PROVE  (InOrder(deliveries) /\ InOrder(deliveries \cup staged) /\ DueInOrder)'
    BY <2>a, <2>i DEF InOrder, DueInOrder, Able
  <2>1. CASE \/ \E a \in Alarms : Open(a) \/ Stop(a) \/ NotifierSend(a) \/ NotifierFail(a)
             \/ Tick \/ SweepBegin \/ UNCHANGED vars
    <3>1. UNCHANGED <<deliveries, staged, due, staffed, gone>>
      BY <2>1 DEF Open, Stop, NotifierSend, NotifierFail, Tick, SweepBegin, vars, sweep
    <3> QED BY <2>a, <3>1
  <2>2. CASE (\E r \in Roles : Register(r) \/ Unregister(r)) \/ PageRaises
    BY <2>0, <2>2 DEF Register, Unregister, PageRaises
  <2>3. ASSUME NEW a \in Alarms, NotifierCommit(a)
        PROVE  (InOrder(deliveries) /\ InOrder(deliveries \cup staged) /\ DueInOrder)'
    <3>1. /\ deliveries' = deliveries \cup {<<a, 1>>}
          /\ UNCHANGED <<staged, due, staffed, gone>>
      BY <2>0, <2>3 DEF NotifierCommit, sweep
    <3>2. \A k \in 1..(<<a, 1>>[2] - 1) : FALSE
      OBVIOUS
    <3>3. DueInOrder'
      BY <2>i, <3>1 DEF DueInOrder, Able
    <3>4. InOrder(deliveries)'
      BY <2>i, <3>1, <3>2 DEF InOrder
    <3>5. InOrder(deliveries \cup staged)'
      BY <2>i, <3>1, <3>2 DEF InOrder
    <3> QED BY <3>3, <3>4, <3>5
  <2>4. CASE SweepAlarm
    <3>1. PICK a \in todo : due' = DueSteps(a)
      BY <2>4 DEF SweepAlarm
    <3>2. a \in Alarms /\ UNCHANGED <<deliveries, staged, staffed, gone, seen>>
      BY <2>4 DEF SweepAlarm, TypeOK
    <3>3. ASSUME NEW d \in DueSteps(a)
          PROVE  /\ d[2] \in DOMAIN PolicyFor(d[1])
                 /\ \A j \in 1..(d[2] - 1) : <<d[1], j>> \in DueSteps(a) \cup deliveries \cup staged
      <4>1. PICK k \in DOMAIN PolicyFor(a) : d = <<a, k>> /\ seen[a] >= PolicyFor(a)[k].after
        BY DEF DueSteps
      <4>2. seen[a] \in Int
        BY <3>2, EscalationAssumption DEF TypeOK, Unopened
      <4>3. ASSUME NEW j \in 1..(k - 1)
            PROVE  j \in DOMAIN PolicyFor(a) /\ seen[a] >= PolicyFor(a)[j].after
        BY <3>2, <4>1, <4>2, PoliciesClimb
      <4>4. ASSUME NEW j \in 1..(k - 1), <<a, j>> \notin deliveries \cup staged
            PROVE  <<a, j>> \in DueSteps(a)
        BY <4>3, <4>4 DEF DueSteps
      <4> QED BY <4>1, <4>4
    <3>4. DueInOrder'
      BY <3>1, <3>2, <3>3 DEF DueInOrder
    <3> QED BY <2>i, <3>2, <3>4 DEF InOrder
  <2>5. CASE ReachesNobody
    <3>1. PICK d \in due : NextDue(d) /\ Audience(d) = {} /\ due' = due \ {d}
      BY <2>5 DEF ReachesNobody
    <3>2. UNCHANGED <<deliveries, staged, staffed, gone>>
      BY <2>5 DEF ReachesNobody
    <3>3. d \in AlarmSteps /\ d = <<d[1], d[2]>>
      BY DEF TypeOK, AlarmSteps
    <3>4. Able(d) = {}
      <4>1. Able(d) \subseteq 1..6
        BY DEF Able, TypeOK, Roles
      <4>2. Able(d) # {} => \E r \in Able(d) : \A s \in Able(d) : r <= s
        <5>1. \A r \in Able(d) : r \in {1, 2, 3, 4, 5, 6}
          BY <4>1
        <5>2. Able(d) # {} => \/ 1 \in Able(d) \/ 2 \in Able(d) \/ 3 \in Able(d)
                              \/ 4 \in Able(d) \/ 5 \in Able(d) \/ 6 \in Able(d)
          BY <5>1
        <5> QED BY <5>1, <5>2
      <4>3. Audience(d) = {r \in Able(d) : \A s \in Able(d) : r <= s}
        BY DEF Audience, Able
      <4> QED BY <3>1, <4>2, <4>3
    <3>5. DueInOrder'
      <4> SUFFICES ASSUME NEW e \in due \ {d}, NEW k \in 1..(e[2] - 1)
                   PROVE  <<e[1], k>> \in (due \ {d}) \cup deliveries \cup staged
                             \/ Able(<<e[1], k>>)' = {}
        BY <2>i, <3>1, <3>2 DEF DueInOrder
      <4>1. Able(<<e[1], k>>)' = Able(<<e[1], k>>)
        BY <3>2 DEF Able
      <4>2. CASE <<e[1], k>> = d
        BY <3>4, <4>1, <4>2
      <4>3. CASE <<e[1], k>> # d
        BY <2>i, <4>1, <4>3 DEF DueInOrder
      <4> QED BY <4>2, <4>3
    <3> QED BY <2>i, <3>2, <3>5 DEF InOrder
  <2>6. CASE Page
    <3>1. PICK d \in due : /\ NextDue(d) /\ Audience(d) # {}
                           /\ staged' = staged \cup {d} /\ due' = due \ {d}
                           /\ UNCHANGED <<gone, turnover>>
      BY <2>0, <2>6 DEF Page
    <3>2. UNCHANGED <<deliveries, staffed>>
      BY <2>6 DEF Page
    <3>3. d \in AlarmSteps /\ d[1] \in Alarms /\ d[2] \in 1..4
      BY DEF TypeOK, AlarmSteps, Steps
    <3>4. ASSUME NEW k \in 1..(d[2] - 1)
          PROVE  <<d[1], k>> \in deliveries \cup staged
      <4>1. <<d[1], k>> \notin due
        <5>1. \A e \in due : d[2] <= e[2]
          BY <3>1 DEF NextDue
        <5>2. <<d[1], k>>[2] < d[2]
          BY <3>3
        <5> QED BY <3>3, <5>1, <5>2
      <4>2. d[2] \in DOMAIN PolicyFor(d[1])
        BY <2>i DEF DueInOrder
      <4>3. /\ PolicyFor(d[1])[k].role <= PolicyFor(d[1])[d[2]].role
            /\ PolicyFor(d[1])[k].role \in Int /\ PolicyFor(d[1])[d[2]].role \in Int
        BY <3>3, <4>2, PoliciesClimb
      <4>4. PICK r \in staffed \ gone : r >= PolicyFor(d[1])[d[2]].role
        BY <3>1 DEF Audience
      <4>5. r \in Int
        BY DEF TypeOK, Roles
      <4>6. r >= PolicyFor(d[1])[k].role
        BY <4>3, <4>4, <4>5
      <4>7. Able(<<d[1], k>>) # {}
        BY <4>6 DEF Able
      <4> QED BY <2>i, <4>1, <4>7 DEF DueInOrder
    <3>5. InOrder(deliveries \cup staged)'
      BY <2>i, <3>1, <3>2, <3>4 DEF InOrder
    <3>6. DueInOrder'
      BY <2>i, <3>1, <3>2 DEF DueInOrder, Able
    <3> QED BY <2>i, <3>2, <3>5, <3>6 DEF InOrder
  <2>7. CASE SweepCommit
    <3>1. deliveries' = deliveries \cup staged /\ staged' = {} /\ due' = {}
      BY <2>7 DEF SweepCommit, SweepOver
    <3> QED BY <2>i, <3>1 DEF InOrder, DueInOrder
  <2>8. CASE SweepFail
    <3>1. deliveries' = deliveries /\ staged' = {} /\ due' = {}
      BY <2>8 DEF SweepFail, SweepOver
    <3> QED BY <2>i, <3>1 DEF InOrder, DueInOrder
  <2> QED BY <2>1, <2>2, <2>3, <2>4, <2>5, <2>6, <2>7, <2>8 DEF Next, Sweep
<1>3. ClimbInv => ClimbsInOrder
  BY DEF ClimbInv, InOrder, ClimbsInOrder
<1> QED BY <1>1, <1>2, <1>3, TypeCorrect, PTL DEF Spec
=============================================================================
