-------------------------- MODULE PurePursuitProofs --------------------------
(***************************************************************************)
(* What PurePursuit guarantees on every path, whatever its points and      *)
(* triggers and however the robot moves between two ticks.                 *)
(***************************************************************************)
EXTENDS PurePursuit, NumberLemmas

\* The path keeps its points and its length when it is negated.
LEMMA PathType == path \in Seq(Int \X Int) /\ Len(path) = Len(FilePath)
<1>1. Negated(FilePath) \in Seq(Int \X Int) /\ Len(Negated(FilePath)) = Len(FilePath)
  BY PathAssumption DEF Negated
<1>2. QED
  BY <1>1, PathAssumption, DistanceAssumption DEF path

\* The search window: never outside the actual points of the path.
LEMMA WindowBounds ==
  ASSUME NEW previous \in 0 .. NumberOfActualPoints
  PROVE  /\ Window(previous) \subseteq 1 .. NumberOfActualPoints
         /\ \A i \in Window(previous) : /\ i <= previous + SearchDistance
                                        /\ previous - SearchDistance <= i
<1> DEFINE first == IF previous - SearchDistance >= 1 THEN previous - SearchDistance ELSE 1
           last == IF previous + SearchDistance <= NumberOfActualPoints
                   THEN previous + SearchDistance ELSE NumberOfActualPoints
<1>1. previous \in Int /\ SearchDistance \in Nat /\ NumberOfActualPoints \in Nat
  BY DistanceAssumption, PathAssumption
<1>2. Max({previous - SearchDistance, 1}) = first
  BY <1>1, MaxOfTwo
<1>3. Min({previous + SearchDistance, NumberOfActualPoints}) = last
  BY <1>1, MinOfTwo
<1>4. Window(previous) = first .. last
  BY <1>2, <1>3 DEF Window
<1>5. QED
  BY <1>1, <1>4

\* findClosestPoint answers point 1 or a point of the search window.
LEMMA ClosestPointInWindowOrFirst ==
  ASSUME NEW p, NEW previous \in 0 .. NumberOfActualPoints
  PROVE  /\ FindClosestPoint(p, previous) \in {1} \cup Window(previous)
         /\ FindClosestPoint(p, previous) \in 1 .. NumberOfActualPoints
<1> DEFINE near == Nearest(p, previous)
<1>1. near \subseteq Window(previous)
  BY DEF Nearest
<1>2. Window(previous) \subseteq 1 .. NumberOfActualPoints
  BY WindowBounds
<1>3. ASSUME near # {} PROVE Max(near) \in near
  <2>1. near \in SUBSET (1 .. NumberOfActualPoints)
    BY <1>1, <1>2
  <2>2. 1 \in Int /\ NumberOfActualPoints \in Int
    BY PathAssumption
  <2> HIDE DEF near
  <2>3. QED
    BY <1>3, <2>1, <2>2, MaxOfInterval
<1>4. QED
  BY <1>1, <1>2, <1>3, PathAssumption DEF FindClosestPoint

\* The goal point is a point of the path, at or ahead of the closest one.
LEMMA GoalPointOnPath ==
  ASSUME NEW closest \in 1 .. NumberOfActualPoints
  PROVE  FindGoalPoint(closest) \in closest .. Len(path)
<1>1. Len(path) \in Nat /\ NumberOfActualPoints <= Len(path)
  BY PathType, PathAssumption
<1>2. FindGoalPoint(closest) = IF closest + LookaheadDistance <= Len(path)
                               THEN closest + LookaheadDistance ELSE Len(path)
  BY <1>1, MinOfTwo, DistanceAssumption DEF FindGoalPoint
<1>3. QED
  BY <1>1, <1>2, DistanceAssumption, PathAssumption

\* The trapezoid is positive wherever the robot still has a way to go, so a
\* speed of 0 means the end of the path and nothing else.
LEMMA SpeedIsZeroOnlyAtEnd ==
  ASSUME NEW closest \in 1 .. NumberOfActualPoints
  PROVE  /\ SpeedAt(closest) \in [num : Int, den : Nat \ {0}]
         /\ SpeedAt(closest).num = 0 <=> closest = NumberOfActualPoints
<1> DEFINE N == NumberOfActualPoints
           s == TrapezoidSpeed(1, 3, 2, N, RampDistance, RampDistance, closest)
<1>1. ASSUME closest < N
      PROVE  s \in [num : Int, den : Nat \ {0}] /\ s.num > 0
  <2>1. CASE RampDistance + RampDistance > N
    <3>1. s = Rational(2, 1)
      BY <1>1, <2>1, PathAssumption, DistanceAssumption DEF TrapezoidSpeed
    <3>2. QED
      BY <3>1 DEF Rational
  <2>2. CASE ~(RampDistance + RampDistance > N)
    <3>1. CASE closest < RampDistance
      <4>1. s = Rational((RampDistance - closest) * 1 + closest * 3, RampDistance)
        BY <1>1, <2>2, <3>1, PathAssumption, DistanceAssumption
           DEF TrapezoidSpeed, Lerp
      <4>2. QED
        BY <4>1, <3>1, PathAssumption, DistanceAssumption DEF Rational
    <3>2. CASE RampDistance <= closest /\ closest < N - RampDistance
      <4>1. s = Rational(3, 1)
        BY <1>1, <2>2, <3>2, PathAssumption, DistanceAssumption DEF TrapezoidSpeed
      <4>2. QED
        BY <4>1 DEF Rational
    <3>3. CASE RampDistance <= closest /\ N - RampDistance <= closest
      <4> DEFINE past == closest - (N - RampDistance)
      <4>1. s = Rational((RampDistance - past) * 3 + past * 2, RampDistance)
        BY <1>1, <2>2, <3>3, PathAssumption, DistanceAssumption
           DEF TrapezoidSpeed, Lerp
      <4>2. past \in 0 .. RampDistance - 1
        BY <1>1, <3>3, PathAssumption, DistanceAssumption
      <4>3. QED
        BY <4>1, <4>2, DistanceAssumption DEF Rational
    <3>4. QED
      BY <3>1, <3>2, <3>3, PathAssumption, DistanceAssumption
  <2>3. QED
    BY <2>1, <2>2
<1>2. CASE closest < N
  <2>1. SpeedAt(closest) = IF IsBackwards THEN Rational(-s.num, s.den) ELSE s
    BY <1>2, PathAssumption DEF SpeedAt
  <2>2. QED
    BY <1>1, <1>2, <2>1, DistanceAssumption DEF Rational
<1>3. CASE closest = N
  BY <1>3, PathAssumption DEF SpeedAt, Rational
<1>4. QED
  BY <1>2, <1>3, PathAssumption

\* The loop over the indexes meets the triggers between its bounds.
LEMMA MetFacts ==
  ASSUME NEW closest \in Int, previousClosestPoint \in Int
  PROVE  Met(closest) = {t \in Triggers : previousClosestPoint - 1 <= t /\ t <= closest}
<1>1. Triggers \subseteq Nat
  BY TriggerAssumption DEF Triggers
<1>2. ASSUME NEW t \in Triggers
      PROVE  t \in previousClosestPoint - 1 .. closest
               <=> previousClosestPoint - 1 <= t /\ t <= closest
  BY <1>1
<1>3. QED
  BY <1>2 DEF Met

\* The functions a run calls, in terms of the triggers its loop meets.
LEMMA CalledFacts ==
  ASSUME NEW closest \in 1 .. NumberOfActualPoints,
         previousClosestPoint \in 0 .. NumberOfActualPoints
  PROVE  /\ Called(closest) \subseteq Met(closest)
         /\ Met(closest) \subseteq Triggers
         /\ Met(closest) \subseteq -1 .. closest
         /\ Called(closest) # {} =>
              /\ Max(Called(closest)) \in Called(closest)
              /\ \A t \in Called(closest) : t <= Max(Called(closest))
<1> DEFINE C == Called(closest)
<1>1. C \subseteq Met(closest)
  BY DEF Called
<1>2. Met(closest) \subseteq Triggers /\ Met(closest) \subseteq -1 .. closest
  BY PathAssumption DEF Met
<1>3. ASSUME C # {} PROVE Max(C) \in C /\ \A t \in C : t <= Max(C)
  <2>1. C \in SUBSET (-1 .. closest) /\ -1 \in Int /\ closest \in Int
    BY <1>1, <1>2, PathAssumption
  <2> HIDE DEF C
  <2>2. QED
    BY <1>3, <2>1, MaxOfInterval
<1>4. QED
  BY <1>1, <1>2, <1>3

------------------------------------------------------------------------------
\* The specification keeps every variable in its type, on every path.
THEOREM TypeCorrect == Spec => []TypeOK
<1>1. Init => TypeOK
  BY PathType, PathAssumption, FieldAssumption DEF Init, TypeOK, Rational
<1>2. ASSUME TypeOK, [Next]_vars PROVE TypeOK'
  <2> DEFINE closest == FindClosestPoint(position, previousClosestPoint)
  <2>1. closest \in 1 .. NumberOfActualPoints
    BY <1>2, ClosestPointInWindowOrFirst DEF TypeOK
  <2>2. ASSUME CallTriggers(closest)
        PROVE  /\ called' \subseteq Triggers
               /\ fired' \subseteq Triggers
               /\ lastFired' \in Triggers \cup {-1}
               /\ furthest' \in -1 .. NumberOfActualPoints
               /\ way' \in [from : 0 .. NumberOfActualPoints, calls : SUBSET Triggers]
    <3>1. Called(closest) \subseteq Triggers
      BY <1>2, <2>1, CalledFacts DEF TypeOK
    <3>2. Called(closest) # {} => Max(Called(closest)) \in Triggers
      BY <1>2, <2>1, <3>1, CalledFacts DEF TypeOK
    <3>3. Max({furthest, closest}) \in -1 .. NumberOfActualPoints
      <4>1. /\ furthest \in Int /\ furthest \in -1 .. NumberOfActualPoints
            /\ closest \in Int
        BY <1>2, <2>1, PathAssumption DEF TypeOK
      <4> HIDE DEF closest
      <4>2. Max({furthest, closest}) = IF furthest >= closest THEN furthest ELSE closest
        BY <4>1, MaxOfTwo
      <4>3. QED
        BY <2>1, <4>1, <4>2, PathAssumption
    <3>4. WayAfter(closest) \in [from : 0 .. NumberOfActualPoints, calls : SUBSET Triggers]
      <4>1. closest \in 0 .. NumberOfActualPoints
        BY <2>1, PathAssumption
      <4>2. way \in [from : 0 .. NumberOfActualPoints, calls : SUBSET Triggers]
        BY <1>2 DEF TypeOK
      <4> HIDE DEF closest
      <4>3. QED
        BY <3>1, <4>1, <4>2 DEF WayAfter
    <3>5. QED
      BY <1>2, <2>2, <3>1, <3>2, <3>3, <3>4 DEF TypeOK, CallTriggers
  <2> HIDE DEF closest
  <2>3. CASE Run
    <3>1. FindGoalPoint(closest) \in 0 .. Len(path)
      <4>1. FindGoalPoint(closest) \in closest .. Len(path)
        BY <2>1, GoalPointOnPath
      <4>2. Len(path) \in Nat /\ closest \in Nat
        BY <2>1, PathType, PathAssumption
      <4>3. QED
        BY <4>1, <4>2
    <3>2. SpeedAt(closest) \in [num : Int, den : Nat \ {0}]
      BY <2>1, SpeedIsZeroOnlyAtEnd
    <3>3. /\ CallTriggers(closest)
          /\ previousClosestPoint' = closest
          /\ goal' = FindGoalPoint(closest)
          /\ speed' = SpeedAt(closest)
          /\ phase' = "move"
          /\ UNCHANGED <<position, triggerFuncs>>
      BY <2>3 DEF Run, closest
    <3>4. previousClosestPoint' \in 0 .. NumberOfActualPoints
      BY <2>1, <3>3, PathAssumption
    <3>5. position' \in Field /\ triggerFuncs' \in FuncTables
            /\ phase' \in {"run", "move", "error"}
      BY <1>2, <3>3 DEF TypeOK
    <3>6. /\ called' \subseteq Triggers
          /\ fired' \subseteq Triggers
          /\ lastFired' \in Triggers \cup {-1}
          /\ furthest' \in -1 .. NumberOfActualPoints
          /\ way' \in [from : 0 .. NumberOfActualPoints, calls : SUBSET Triggers]
      BY <2>2, <3>3
    <3>7. QED
      BY <3>1, <3>2, <3>3, <3>4, <3>5, <3>6 DEF TypeOK
  <2>4. CASE RunFails
    <3>1. /\ CallTriggers(closest)
          /\ phase' = "error"
          /\ UNCHANGED <<position, previousClosestPoint, triggerFuncs, goal, speed>>
      BY <2>4 DEF RunFails, closest
    <3>2. /\ called' \subseteq Triggers
          /\ fired' \subseteq Triggers
          /\ lastFired' \in Triggers \cup {-1}
          /\ furthest' \in -1 .. NumberOfActualPoints
          /\ way' \in [from : 0 .. NumberOfActualPoints, calls : SUBSET Triggers]
      BY <2>2, <3>1
    <3>3. QED
      BY <1>2, <3>1, <3>2 DEF TypeOK
  <2>5. CASE Move
    BY <1>2, <2>5 DEF TypeOK, Move, Reachable, history, path
  <2>6. CASE UNCHANGED vars
    BY <1>2, <2>6 DEF TypeOK, vars, path
  <2>7. QED
    BY <1>2, <2>3, <2>4, <2>5, <2>6 DEF Next
<1>3. QED
  BY <1>1, <1>2, PTL DEF Spec

------------------------------------------------------------------------------
\* The four trigger properties made inductive: the trigger loop starts no
\* further than one point ahead of what has been covered.
TriggerInv ==
  /\ goal = 0 => previousClosestPoint = 0
  /\ phase # "error" => /\ previousClosestPoint <= furthest + 1
                        /\ \A t \in fired : TriggerPoints[t] \in triggerFuncs
  /\ NoTriggerMissed
  /\ NoTriggerEarly
  /\ EffectNotBehind
  /\ FailsAtUnknown

\* What the trigger loop of a run that succeeds does to the history.
LEMMA RunKeepsTriggerInv ==
  ASSUME TypeOK, TriggerInv, Run
  PROVE  TriggerInv'
<1> DEFINE closest == FindClosestPoint(position, previousClosestPoint)
<1>1. /\ closest \in 1 .. NumberOfActualPoints /\ closest \in Int
      /\ previousClosestPoint \in 0 .. NumberOfActualPoints
      /\ previousClosestPoint \in Int
      /\ furthest \in Int /\ lastFired \in Int
      /\ Triggers \subseteq Nat
      /\ fired \subseteq Triggers
  BY ClosestPointInWindowOrFirst, PathAssumption, TriggerAssumption DEF TypeOK, Triggers
<1>2. /\ phase = "run" /\ phase' = "move"
      /\ Unknown(closest) = {}
      /\ CallTriggers(closest)
      /\ previousClosestPoint' = closest
      /\ goal' = FindGoalPoint(closest)
      /\ triggerFuncs' = triggerFuncs
  BY DEF Run
<1>3. goal' # 0
  <2>1. FindGoalPoint(closest) \in closest .. Len(path)
    BY <1>1, GoalPointOnPath
  <2>2. QED
    BY <1>1, <1>2, <2>1
<1> HIDE DEF closest
<1>4. Called(closest) = Met(closest)
  BY <1>2 DEF Called
<1>5. /\ Met(closest) = {t \in Triggers : previousClosestPoint - 1 <= t /\ t <= closest}
      /\ \A t \in Met(closest) : TriggerPoints[t] \in triggerFuncs
  <2>1. Met(closest) = {t \in Triggers : previousClosestPoint - 1 <= t /\ t <= closest}
    BY <1>1, MetFacts
  <2>2. QED
    BY <1>2, <2>1 DEF Unknown
<1>6. fired' = fired \cup Met(closest)
  BY <1>2, <1>4 DEF CallTriggers
<1>7. furthest' = IF furthest >= closest THEN furthest ELSE closest
  BY <1>1, <1>2, MaxOfTwo DEF CallTriggers
<1>8. NoTriggerMissed'
  <2>1. ASSUME NEW t \in Triggers, t <= furthest' PROVE t \in fired'
    <3>1. CASE t <= furthest
      BY <1>2, <1>6, <3>1 DEF TriggerInv, NoTriggerMissed
    <3>2. CASE furthest < t
      <4>1. t \in Int /\ previousClosestPoint <= furthest + 1
        BY <1>1, <1>2 DEF TriggerInv
      <4>2. previousClosestPoint - 1 <= t /\ t <= closest
        BY <1>1, <1>7, <2>1, <3>2, <4>1
      <4>3. QED
        BY <1>5, <1>6, <4>2
    <3>3. QED
      BY <1>1, <3>1, <3>2
  <2>2. QED
    BY <2>1 DEF NoTriggerMissed, Triggers
<1>9. NoTriggerEarly'
  <2>1. \A t \in fired : t <= furthest
    BY DEF TriggerInv, NoTriggerEarly
  <2>2. QED
    BY <1>1, <1>5, <1>6, <1>7, <2>1 DEF NoTriggerEarly
<1>10. EffectNotBehind'
  <2>1. ASSUME NEW t \in Triggers, t <= closest PROVE t <= lastFired'
    <3>1. CASE Met(closest) = {}
      <4>1. lastFired' = lastFired
        BY <1>2, <1>4, <3>1 DEF CallTriggers
      <4>2. t < previousClosestPoint - 1
        BY <1>1, <1>5, <2>1, <3>1
      <4>3. goal # 0 /\ t <= previousClosestPoint
        BY <1>1, <4>2 DEF TriggerInv
      <4>4. QED
        BY <1>2, <4>1, <4>3 DEF TriggerInv, EffectNotBehind
    <3>2. CASE Met(closest) # {}
      <4>1. /\ lastFired' = Max(Met(closest))
            /\ Max(Met(closest)) \in Met(closest)
            /\ \A u \in Met(closest) : u <= Max(Met(closest))
        BY <1>1, <1>2, <1>4, <3>2, CalledFacts DEF CallTriggers
      <4>2. CASE previousClosestPoint - 1 <= t
        BY <1>5, <2>1, <4>1, <4>2
      <4>3. CASE t < previousClosestPoint - 1
        <5>1. Max(Met(closest)) \in Nat /\ t \in Nat
          <6>1. Met(closest) \subseteq Nat
            BY <1>1, <1>5
          <6>2. QED
            BY <1>1, <4>1, <6>1
        <5>2. previousClosestPoint - 1 <= Max(Met(closest))
          BY <1>5, <4>1
        <5>3. QED
          BY <1>1, <4>1, <4>3, <5>1, <5>2
      <4>4. QED
        BY <1>1, <4>2, <4>3
    <3>3. QED
      BY <3>1, <3>2
  <2>2. QED
    BY <1>2, <2>1 DEF EffectNotBehind, Triggers
<1>11. /\ previousClosestPoint' <= furthest' + 1
       /\ \A t \in fired' : TriggerPoints[t] \in triggerFuncs'
  BY <1>1, <1>2, <1>5, <1>6, <1>7 DEF TriggerInv
<1>12. FailsAtUnknown'
  BY <1>2 DEF FailsAtUnknown
<1>13. QED
  BY <1>3, <1>8, <1>9, <1>10, <1>11, <1>12 DEF TriggerInv

\* A run that fails has called exactly what lies before the trigger that has
\* no function.
LEMMA FailureKeepsTriggerInv ==
  ASSUME TypeOK, TriggerInv, RunFails
  PROVE  TriggerInv'
<1> DEFINE closest == FindClosestPoint(position, previousClosestPoint)
<1>1. /\ closest \in 1 .. NumberOfActualPoints /\ closest \in Int
      /\ previousClosestPoint \in Int
      /\ furthest \in Int
      /\ Triggers \subseteq Nat
      /\ fired \subseteq Triggers
  BY ClosestPointInWindowOrFirst, PathAssumption, TriggerAssumption DEF TypeOK, Triggers
<1>2. /\ phase = "run" /\ phase' = "error"
      /\ Unknown(closest) # {}
      /\ CallTriggers(closest)
      /\ UNCHANGED <<previousClosestPoint, triggerFuncs, goal>>
  BY DEF RunFails
<1> HIDE DEF closest
<1>3. /\ Met(closest) = {t \in Triggers : previousClosestPoint - 1 <= t /\ t <= closest}
      /\ Unknown(closest) = {t \in Met(closest) : TriggerPoints[t] \notin triggerFuncs}
  BY <1>1, MetFacts DEF Unknown
<1>4. PICK u \in Unknown(closest) : \A v \in Unknown(closest) : u <= v
  <2>1. Unknown(closest) \in SUBSET Nat
    BY <1>1, <1>3
  <2>2. QED
    BY <1>2, <2>1, LeastNatural
<1>5. u \in Triggers /\ u \in Nat /\ u <= closest /\ TriggerPoints[u] \notin triggerFuncs
  BY <1>1, <1>3, <1>4
<1>6. Called(closest) = {t \in Met(closest) : t < u}
  <2>1. ASSUME NEW t \in Met(closest)
        PROVE  (\A v \in Unknown(closest) : t < v) <=> t < u
    <3>1. Met(closest) \subseteq Nat /\ Unknown(closest) \subseteq Nat
      BY <1>1, <1>3
    <3>2. t \in Int /\ u \in Int /\ \A v \in Unknown(closest) : v \in Int
      BY <1>5, <3>1
    <3>3. QED
      BY <1>4, <3>2
  <2>2. QED
    BY <2>1 DEF Called
<1>7. furthest' = IF furthest >= closest THEN furthest ELSE closest
  BY <1>1, <1>2, MaxOfTwo DEF CallTriggers
<1>8. fired' = fired \cup {t \in Met(closest) : t < u}
  BY <1>2, <1>6 DEF CallTriggers
<1>9. furthest < u /\ \A t \in fired : t <= furthest
  <2>1. u \notin fired
    BY <1>2, <1>5 DEF TriggerInv
  <2>2. ~(u <= furthest)
    BY <1>2, <1>5, <2>1 DEF TriggerInv, NoTriggerMissed
  <2>3. QED
    BY <1>1, <1>5, <2>2 DEF TriggerInv, NoTriggerEarly
<1>10. ASSUME NEW t \in Triggers PROVE t < u <=> t \in fired'
  <2>1. ASSUME t < u PROVE t \in fired'
    <3>1. CASE previousClosestPoint - 1 <= t
      BY <1>1, <1>3, <1>5, <1>8, <2>1, <3>1
    <3>2. CASE t < previousClosestPoint - 1
      <4>1. t <= furthest
        BY <1>1, <1>2, <3>2 DEF TriggerInv
      <4>2. QED
        BY <1>2, <1>8, <4>1 DEF TriggerInv, NoTriggerMissed
    <3>3. QED
      BY <1>1, <3>1, <3>2
  <2>2. ASSUME t \in fired' PROVE t < u
    BY <1>1, <1>5, <1>8, <1>9, <2>2
  <2>3. QED
    BY <2>1, <2>2
<1>11. FailsAtUnknown'
  <2>1. u <= furthest'
    BY <1>1, <1>5, <1>7
  <2>2. QED
    BY <1>2, <1>5, <1>10, <2>1 DEF FailsAtUnknown, Triggers
<1>12. NoTriggerEarly'
  BY <1>1, <1>3, <1>7, <1>8, <1>9 DEF NoTriggerEarly
<1>13. QED
  BY <1>2, <1>11, <1>12 DEF TriggerInv, NoTriggerMissed, EffectNotBehind

\* However the robot moves, is pushed or loses count: no trigger is missed,
\* none comes early, the intake never ends up in the state of an earlier
\* trigger, and a missing function stops the routine where it is needed.
THEOREM TriggersCorrect ==
  Spec => [](NoTriggerMissed /\ NoTriggerEarly /\ EffectNotBehind /\ FailsAtUnknown)
<1>1. Init => TriggerInv
  BY TriggerAssumption DEF Init, TriggerInv, NoTriggerMissed, NoTriggerEarly,
     EffectNotBehind, FailsAtUnknown, Triggers
<1>2. ASSUME TypeOK, TriggerInv, [Next]_vars PROVE TriggerInv'
  <2>1. CASE Run
    BY <1>2, <2>1, RunKeepsTriggerInv
  <2>2. CASE RunFails
    BY <1>2, <2>2, FailureKeepsTriggerInv
  <2>3. CASE Move
    BY <1>2, <2>3 DEF Move, history, TriggerInv, NoTriggerMissed, NoTriggerEarly,
       EffectNotBehind, FailsAtUnknown, Triggers
  <2>4. CASE UNCHANGED vars
    BY <1>2, <2>4 DEF vars, TriggerInv, NoTriggerMissed, NoTriggerEarly,
       EffectNotBehind, FailsAtUnknown, Triggers
  <2>5. QED
    BY <1>2, <2>1, <2>2, <2>3, <2>4 DEF Next
<1>3. TriggerInv => NoTriggerMissed /\ NoTriggerEarly /\ EffectNotBehind /\ FailsAtUnknown
  BY DEF TriggerInv
<1>4. QED
  BY <1>1, <1>2, <1>3, TypeCorrect, PTL DEF Spec

------------------------------------------------------------------------------
\* run() answers speed 0 at the end of the path and only there: the value by
\* which every routine decides that it is done.
THEOREM StopsCorrect == Spec => []StopsExactlyAtEnd
<1>1. Init => StopsExactlyAtEnd
  BY DEF Init, StopsExactlyAtEnd
<1>2. ASSUME TypeOK, StopsExactlyAtEnd, [Next]_vars PROVE StopsExactlyAtEnd'
  <2>1. CASE Run
    <3> DEFINE closest == FindClosestPoint(position, previousClosestPoint)
    <3>1. closest \in 1 .. NumberOfActualPoints
      BY <1>2, ClosestPointInWindowOrFirst DEF TypeOK
    <3>2. previousClosestPoint' = closest /\ speed' = SpeedAt(closest)
      BY <2>1 DEF Run
    <3> HIDE DEF closest
    <3>3. QED
      BY <3>1, <3>2, SpeedIsZeroOnlyAtEnd DEF StopsExactlyAtEnd
  <2>2. CASE RunFails \/ Move \/ UNCHANGED vars
    BY <1>2, <2>2 DEF RunFails, Move, vars, StopsExactlyAtEnd
  <2>3. QED
    BY <1>2, <2>1, <2>2 DEF Next
<1>3. QED
  BY <1>1, <1>2, TypeCorrect, PTL DEF Spec

\* A tick never advances the closest point by more than the search distance:
\* a path that crosses itself is not cut short at the crossing.
THEOREM NoShortcutTaken == Spec => NoShortcut
<1>1. ASSUME TypeOK, [Next]_vars
      PROVE  previousClosestPoint' <= previousClosestPoint + SearchDistance
  <2>1. previousClosestPoint \in 0 .. NumberOfActualPoints /\ previousClosestPoint \in Int
    BY <1>1, PathAssumption DEF TypeOK
  <2>2. CASE Run
    <3> DEFINE closest == FindClosestPoint(position, previousClosestPoint)
    <3>1. closest \in {1} \cup Window(previousClosestPoint)
      BY <2>1, ClosestPointInWindowOrFirst
    <3>2. previousClosestPoint' = closest
      BY <2>2 DEF Run
    <3> HIDE DEF closest
    <3>3. QED
      BY <2>1, <3>1, <3>2, WindowBounds, DistanceAssumption
  <2>3. CASE RunFails \/ Move \/ UNCHANGED vars
    BY <2>1, <2>3, DistanceAssumption DEF RunFails, Move, vars
  <2>4. QED
    BY <1>1, <2>2, <2>3 DEF Next
<1>2. QED
  BY <1>1, TypeCorrect, PTL DEF Spec, NoShortcut

\* However often and however far the robot goes back, on each way forward it
\* calls the triggers it passes, all of them and none before it is there.
THEOREM EveryWayCalled == Spec => []CalledOnEveryWay
<1>1. Init => CalledOnEveryWay
  <2>1. Init => /\ \A t \in Triggers : way.from < t => ~(t <= previousClosestPoint)
                /\ way.calls = {}
    BY TriggerAssumption DEF Init, Triggers
  <2>2. QED
    BY <2>1 DEF CalledOnEveryWay
<1>2. ASSUME TypeOK, CalledOnEveryWay, [Next]_vars PROVE CalledOnEveryWay'
  <2>1. CASE Run
    <3> DEFINE closest == FindClosestPoint(position, previousClosestPoint)
    <3>1. /\ closest \in 1 .. NumberOfActualPoints /\ closest \in Int
          /\ previousClosestPoint \in Int
          /\ Triggers \subseteq Nat
          /\ way \in [from : 0 .. NumberOfActualPoints, calls : SUBSET Triggers]
      BY <1>2, ClosestPointInWindowOrFirst, PathAssumption, TriggerAssumption
         DEF TypeOK, Triggers
    <3>2. /\ phase = "run"
          /\ Unknown(closest) = {}
          /\ way' = WayAfter(closest)
          /\ previousClosestPoint' = closest
      BY <2>1 DEF Run, CallTriggers
    <3> HIDE DEF closest
    <3>3. Called(closest) = {t \in Triggers : previousClosestPoint - 1 <= t /\ t <= closest}
      BY <3>1, <3>2, MetFacts DEF Called
    <3>4. ASSUME NEW t \in Triggers, way'.from < t
          PROVE  t \in way'.calls <=> t <= closest
      <4>1. CASE closest < previousClosestPoint
        <5>1. way'.from = closest /\ way'.calls = Called(closest)
          BY <3>2, <4>1 DEF WayAfter
        <5>2. QED
          BY <3>1, <3>3, <3>4, <5>1
      <4>2. CASE previousClosestPoint <= closest
        <5>1. way'.from = way.from /\ way'.calls = way.calls \cup Called(closest)
          BY <3>1, <3>2, <4>2 DEF WayAfter
        <5>2. t \in way.calls <=> t <= previousClosestPoint
          BY <1>2, <3>2, <3>4, <5>1 DEF CalledOnEveryWay
        <5>3. t \in Called(closest) <=> previousClosestPoint - 1 <= t /\ t <= closest
          BY <3>3
        <5>4. QED
          BY <3>1, <4>2, <5>1, <5>2, <5>3
      <4>3. QED
        BY <3>1, <4>1, <4>2
    <3>5. QED
      BY <3>2, <3>4 DEF CalledOnEveryWay, Triggers
  <2>2. CASE RunFails
    BY <2>2 DEF RunFails, CalledOnEveryWay
  <2>3. CASE Move \/ UNCHANGED vars
    BY <1>2, <2>3 DEF Move, history, vars, CalledOnEveryWay, Triggers
  <2>4. QED
    BY <1>2, <2>1, <2>2, <2>3 DEF Next
<1>3. QED
  BY <1>1, <1>2, TypeCorrect, PTL DEF Spec

------------------------------------------------------------------------------
(* The speed profile: never outside the range of the three speeds it is built *)
(* from, for every path and every ramp                                       *)

\* A rational s with low <= s <= high.
Between(low, s, high) ==
  /\ s.num \in Int /\ s.den \in Nat \ {0}
  /\ low * s.den <= s.num
  /\ s.num <= high * s.den

\* lerp between two speeds of a range stays in the range, for a fraction from
\* 0 to 1.
LEMMA LerpStaysBetween ==
  ASSUME NEW a \in Int, NEW b \in Int, NEW low \in Int, NEW high \in Int,
         low <= a, a <= high, low <= b, b <= high,
         NEW n \in Nat, NEW d \in Nat \ {0}, n <= d
  PROVE  Between(low, Lerp(a, b, n, d), high)
<1>1. /\ d - n \in Int /\ d - n >= 0
      /\ a - low \in Int /\ a - low >= 0 /\ high - a \in Int /\ high - a >= 0
      /\ b - low \in Int /\ b - low >= 0 /\ high - b \in Int /\ high - b >= 0
  OBVIOUS
<1>2. \A x, y \in Int : x >= 0 /\ y >= 0 => x * y >= 0
  OBVIOUS
<1>3. (d - n) * (a - low) >= 0 /\ n * (b - low) >= 0
  BY <1>1, <1>2
<1>4. (d - n) * (high - a) >= 0 /\ n * (high - b) >= 0
  BY <1>1, <1>2
<1>5. low * d <= (d - n) * a + n * b
  BY <1>3
<1>6. (d - n) * a + n * b <= high * d
  BY <1>4
<1>7. (d - n) * a + n * b \in Int
  OBVIOUS
<1>8. QED
  BY <1>5, <1>6, <1>7 DEF Between, Lerp, Rational

\* A speed of the range is itself.
LEMMA SpeedIsBetween ==
  ASSUME NEW v \in Int, NEW low \in Int, NEW high \in Int, low <= v, v <= high
  PROVE  Between(low, Rational(v, 1), high)
BY DEF Between, Rational

\* getTrapezoidSpeed never asks for more than the fastest or less than the
\* slowest of its three speeds: always when the two ramps fit in the path, and
\* up to the end of the path when they overlap.
THEOREM ProfileStaysBetween ==
  ASSUME NEW startSpeed \in Int, NEW middleSpeed \in Int, NEW endSpeed \in Int,
         NEW total \in Nat \ {0}, NEW rampUp \in Nat \ {0}, NEW rampDown \in Nat \ {0},
         NEW current \in Int,
         rampUp + rampDown <= total \/ current <= total,
         NEW low \in Int, NEW high \in Int,
         \A v \in {startSpeed, middleSpeed, endSpeed} : low <= v /\ v <= high
  PROVE  Between(low, TrapezoidSpeed(startSpeed, middleSpeed, endSpeed, total,
                                     rampUp, rampDown, current), high)
<1> DEFINE asked == TrapezoidSpeed(startSpeed, middleSpeed, endSpeed, total,
                                   rampUp, rampDown, current)
<1>1. CASE current < 0
  <2>1. asked = Rational(startSpeed, 1)
    BY <1>1 DEF TrapezoidSpeed
  <2>2. QED
    BY <2>1, SpeedIsBetween
<1>2. CASE 0 <= current /\ rampDown + rampUp > total
  <2>1. CASE current < total
    <3>1. asked = Rational(endSpeed, 1)
      BY <1>2, <2>1 DEF TrapezoidSpeed
    <3>2. QED
      BY <3>1, SpeedIsBetween
  <2>2. CASE current = total
    <3>1. asked = Lerp(startSpeed, endSpeed, current, total)
      BY <1>2, <2>2 DEF TrapezoidSpeed
    <3>2. QED
      BY <1>2, <2>2, <3>1, LerpStaysBetween
  <2>3. QED
    BY <1>2, <2>1, <2>2
<1>3. CASE 0 <= current /\ rampDown + rampUp <= total
  <2>1. CASE current < rampUp
    <3>1. asked = Lerp(startSpeed, middleSpeed, current, rampUp)
      BY <1>3, <2>1 DEF TrapezoidSpeed
    <3>2. QED
      BY <1>3, <2>1, <3>1, LerpStaysBetween
  <2>2. CASE rampUp <= current /\ current < total - rampDown
    <3>1. asked = Rational(middleSpeed, 1)
      BY <1>3, <2>2 DEF TrapezoidSpeed
    <3>2. QED
      BY <3>1, SpeedIsBetween
  <2>3. CASE total - rampDown <= current /\ current < total
    <3>1. asked = Lerp(middleSpeed, endSpeed, current - (total - rampDown), rampDown)
      BY <1>3, <2>3 DEF TrapezoidSpeed
    <3>2. /\ current - (total - rampDown) \in Nat
          /\ current - (total - rampDown) <= rampDown
      BY <2>3
    <3>3. QED
      BY <3>1, <3>2, LerpStaysBetween
  <2>4. CASE total <= current
    <3>1. asked = Rational(endSpeed, 1)
      BY <1>3, <2>4 DEF TrapezoidSpeed
    <3>2. QED
      BY <3>1, SpeedIsBetween
  <2>5. QED
    BY <1>3, <2>1, <2>2, <2>3, <2>4
<1>4. QED
  BY <1>1, <1>2, <1>3
==============================================================================
