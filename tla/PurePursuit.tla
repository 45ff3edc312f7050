----------------------------- MODULE PurePursuit -----------------------------
(***************************************************************************)
(* One autonomous run along one path: PurePursuit of utils/purepursuit.lua *)
(* called once per robot tick, with the robot moving between the calls.    *)
(*                                                                         *)
(* Positions are grid points; lengths are only ever compared, so they are  *)
(* kept squared.  Steering (PID, heading) is represented by the goal point *)
(* the robot is turned towards.  The distances 36, 42, 20 of the code are  *)
(* the constants SearchDistance, LookaheadDistance, RampDistance, so that  *)
(* a short path can have all the cases of a long one.                      *)
(***************************************************************************)
EXTENDS Trapezoid, Sequences, FiniteSetsExt

CONSTANTS
  FilePath,              \* the points of an oriented path, extra points included
  NumberOfActualPoints,  \* how many of them are not extra points
  TriggerPoints,         \* function: index of a point -> name of its trigger
  FuncTables,            \* the names a routine may give functions for: a set of sets
  IsBackwards,           \* whether the robot drives in reverse
  SearchDistance, LookaheadDistance, RampDistance,
  Field,                 \* the positions the odometry can report
  MaxStep                \* how far, per axis, it can move between two ticks

ASSUME PathAssumption ==
  /\ NumberOfActualPoints \in Nat \ {0}
  /\ FilePath \in Seq(Int \X Int)
  /\ NumberOfActualPoints <= Len(FilePath)
ASSUME TriggerAssumption == DOMAIN TriggerPoints \subseteq Nat
ASSUME DistanceAssumption ==
  /\ SearchDistance \in Nat \ {0}
  /\ LookaheadDistance \in Nat
  /\ RampDistance \in Nat \ {0}
  /\ IsBackwards \in BOOLEAN
ASSUME FieldAssumption ==
  /\ Field \subseteq Int \X Int
  /\ <<0, 0>> \in Field
  /\ MaxStep \in Nat

VARIABLES
  position,              \* the odometry's position (global `position`)
  previousClosestPoint,
  triggerFuncs,          \* the names that have a function
  goal,                  \* index of the point aimed at by the last run
  speed,                 \* speed returned by the last run
  phase,                 \* "run": a tick is due, "move": between two ticks,
                         \* "error": run() raised a Lua error
  called,                \* history: triggers whose function the last run called
  fired,                 \* history: triggers whose function was ever called
  lastFired,             \* history: the trigger called most recently, -1 if none
  furthest,              \* history: the largest closest point ever found, -1 if none
  way                    \* history: where the closest point last went back to, and
                         \* the triggers called since then

vars == <<position, previousClosestPoint, triggerFuncs, goal, speed, phase,
          called, fired, lastFired, furthest, way>>
history == <<called, fired, lastFired, furthest, way>>

Triggers == DOMAIN TriggerPoints

------------------------------------------------------------------------------
(* Path:negated, and the path PurePursuit:new keeps *)

Negated(points) == [i \in 1 .. Len(points) |-> <<-points[i][1], -points[i][2]>>]

path == IF IsBackwards THEN Negated(FilePath) ELSE FilePath

Squared(p, q) == (p[1] - q[1]) * (p[1] - q[1]) + (p[2] - q[2]) * (p[2] - q[2])

\* A wrong window: it reaches into the extra points.
WindowWithExtraPoints(previous) ==
  Max({previous - SearchDistance, 1}) .. Min({previous + SearchDistance, Len(path)})

\* A wrong window: every actual point, wherever the robot was.
WholePath(previous) == 1 .. NumberOfActualPoints

\* The indexes findClosestPoint looks at, besides 1.
Window(previous) ==
  Max({previous - SearchDistance, 1})
    .. Min({previous + SearchDistance, NumberOfActualPoints})

\* The points of the window that are nearest, if none is further than point 1,
\* which the search starts from wherever the window is.
Nearest(p, previous) ==
  {i \in Window(previous) :
     /\ Squared(path[i], p) <= Squared(path[1], p)
     /\ \A j \in Window(previous) : Squared(path[i], p) <= Squared(path[j], p)}

\* The last of several equally near points wins (`<=` in the loop).
FindClosestPoint(p, previous) ==
  IF Nearest(p, previous) = {} THEN 1 ELSE Max(Nearest(p, previous))

\* A wrong goal: the closest point itself, without looking ahead.
NoLookahead(closest) == closest

FindGoalPoint(closest) == Min({closest + LookaheadDistance, Len(path)})

------------------------------------------------------------------------------
(* PurePursuit:run *)

\* Wrong loops: only the new closest point; one point too many; only from the
\* furthest point reached so far, so that nothing is called twice.
MetHereOnly(closest)   == Triggers \cap {closest}
MetOneTooMany(closest) == Triggers \cap (previousClosestPoint - 1 .. closest + 1)
MetFromFurthest(closest) == Triggers \cap (furthest - 1 .. closest)

\* Triggers the loop `for i = previousClosestPoint - 1, indexOfClosestPoint`
\* meets, and those it gets to call: it raises an error at the first name
\* that has no function.
Met(closest)    == Triggers \cap (previousClosestPoint - 1 .. closest)
Unknown(closest) == {t \in Met(closest) : TriggerPoints[t] \notin triggerFuncs}

\* A wrong call: an unknown name is skipped and the loop goes on.
CalledSkippingUnknown(closest) == Met(closest) \ Unknown(closest)

Called(closest) == {t \in Met(closest) : \A u \in Unknown(closest) : t < u}

\* A wrong speed: the trapezoid alone, which ends at a speed that is not 0.
TrapezoidOnly(closest) == TrapezoidSpeed(1, 3, 2, NumberOfActualPoints,
                                         RampDistance, RampDistance, closest)

SpeedAt(closest) ==
  IF closest >= NumberOfActualPoints
  THEN Rational(0, 1)
  ELSE LET s == TrapezoidSpeed(1, 3, 2, NumberOfActualPoints,
                               RampDistance, RampDistance, closest)
       IN IF IsBackwards THEN Rational(-s.num, s.den) ELSE s

\* A way goes on while the closest point does; where it goes back to, even if
\* only by one point, another way begins.
WayAfter(closest) ==
  IF closest < previousClosestPoint
  THEN [from |-> closest, calls |-> Called(closest)]
  ELSE [way EXCEPT !.calls = @ \cup Called(closest)]

\* A wrong loop: it runs from the new closest point down to the old one.
CallTriggersBackwards(closest) ==
  /\ called' = Called(closest)
  /\ fired' = fired \cup Called(closest)
  /\ lastFired' = IF Called(closest) = {} THEN lastFired ELSE Min(Called(closest))
  /\ furthest' = Max({furthest, closest})
  /\ way' = WayAfter(closest)

CallTriggers(closest) ==
  /\ called' = Called(closest)
  /\ fired' = fired \cup Called(closest)
  /\ lastFired' = IF Called(closest) = {} THEN lastFired ELSE Max(Called(closest))
  /\ furthest' = Max({furthest, closest})
  /\ way' = WayAfter(closest)

\* A run that returns a turn value and a speed.
Run ==
  LET closest == FindClosestPoint(position, previousClosestPoint) IN
  /\ phase = "run"
  /\ Unknown(closest) = {}
  /\ CallTriggers(closest)
  /\ previousClosestPoint' = closest
  /\ goal' = FindGoalPoint(closest)
  /\ speed' = SpeedAt(closest)
  /\ phase' = "move"
  /\ UNCHANGED <<position, triggerFuncs>>

\* A run that dies in its trigger loop.  Nothing it would have returned
\* reaches the motors, which keep the previous command, and the coroutine it
\* ran in is dead.
RunFails ==
  LET closest == FindClosestPoint(position, previousClosestPoint) IN
  /\ phase = "run"
  /\ Unknown(closest) # {}
  /\ CallTriggers(closest)
  /\ phase' = "error"
  /\ UNCHANGED <<position, previousClosestPoint, triggerFuncs, goal, speed>>

------------------------------------------------------------------------------
(* The robot between two ticks, as trackLocation reports it *)

Reachable == {q \in Field : /\ q[1] - position[1] \in -MaxStep .. MaxStep
                            /\ q[2] - position[2] \in -MaxStep .. MaxStep}

\* Anywhere nearby: slipping wheels, a push, drift of the odometry.
Move ==
  /\ phase = "move"
  /\ position' \in Reachable
  /\ phase' = "run"
  /\ UNCHANGED <<previousClosestPoint, triggerFuncs, goal, speed, history>>

\* Towards the goal point (past it, once there), while the motors are driven.
Follow ==
  /\ Move
  /\ speed.num # 0
  /\ \/ Squared(position', path[goal]) < Squared(position, path[goal])
     \/ position = path[goal] /\ position' # position

\* Stopped at the end of the path, the robot stays where it is.
Rest ==
  /\ phase = "move"
  /\ speed.num = 0
  /\ phase' = "run"
  /\ UNCHANGED <<position, previousClosestPoint, triggerFuncs, goal, speed, history>>

Init ==
  /\ position = <<0, 0>>
  /\ previousClosestPoint = 0
  /\ triggerFuncs \in FuncTables
  /\ goal = 0
  /\ speed = Rational(0, 1)
  /\ phase = "run"
  /\ called = {}
  /\ fired = {}
  /\ lastFired = -1
  /\ furthest = -1
  /\ way = [from |-> 0, calls |-> {}]

Next == Run \/ RunFails \/ Move
Spec == Init /\ [][Next]_vars

\* The robot goes where it is steered: the setting in which a path is expected
\* to be finished.  Ticks are periodic and driven motors move the robot.
FollowNext == Run \/ RunFails \/ Follow \/ Rest
FollowSpec == Init /\ [][FollowNext]_vars
                   /\ WF_vars(Run \/ RunFails) /\ WF_vars(Follow \/ Rest)

------------------------------------------------------------------------------
TypeOK ==
  /\ position \in Field
  /\ previousClosestPoint \in 0 .. NumberOfActualPoints
  /\ triggerFuncs \in FuncTables
  /\ goal \in 0 .. Len(path)
  /\ speed \in [num : Int, den : Nat \ {0}]
  /\ phase \in {"run", "move", "error"}
  /\ called \subseteq Triggers
  /\ fired \subseteq Triggers
  /\ lastFired \in Triggers \cup {-1}
  /\ furthest \in -1 .. NumberOfActualPoints
  /\ way \in [from : 0 .. NumberOfActualPoints, calls : SUBSET Triggers]

\* However far the closest point jumps from one tick to the next, no trigger
\* up to the furthest point reached has been skipped by the trigger loop.
NoTriggerMissed ==
  phase # "error" => \A t \in Triggers : t <= furthest => t \in fired

\* No trigger is called before the robot has reached its point.
NoTriggerEarly == \A t \in fired : t <= furthest

\* What the intake was last told to do is never what a trigger further back
\* asked for: if the robot slides back and refires triggers, the last call is
\* still at or ahead of the last trigger behind the robot.
EffectNotBehind ==
  phase # "error" /\ goal # 0 =>
    \A t \in Triggers : t <= previousClosestPoint => t <= lastFired

\* A trigger without a function stops the routine exactly there: everything
\* before it has been called, nothing after it.
FailsAtUnknown ==
  phase = "error" =>
    \E u \in Triggers : /\ TriggerPoints[u] \notin triggerFuncs
                        /\ u <= furthest
                        /\ \A t \in Triggers : t < u <=> t \in fired

\* A robot that has gone back, because it was pushed or because the search for
\* the closest point fell back to point 1, calls every trigger again on its next
\* way: those beyond the point it went back to have been called on this way if
\* and only if they have been passed on this way, whatever was called before.
CalledOnEveryWay ==
  phase # "error" =>
    \A t \in Triggers : way.from < t => (t \in way.calls <=> t <= previousClosestPoint)

\* Routines end when run() returns speed 0: it does so at the last point of
\* the path and nowhere before it, whatever the trapezoid gives there.
StopsExactlyAtEnd ==
  goal # 0 => (speed.num = 0 <=> previousClosestPoint = NumberOfActualPoints)

\* A self-crossing path cannot be cut short: one tick advances the closest
\* point by no more than the search distance.
NoShortcut ==
  [][previousClosestPoint' <= previousClosestPoint + SearchDistance]_vars

\* A robot that goes where it is steered finishes the path and stays stopped.
Finishes == <>[](speed.num = 0 /\ goal # 0)

\* On the way it has called every trigger of the path.
AllTriggersCalled ==
  <>(\A t \in Triggers : t <= NumberOfActualPoints => t \in fired)
==============================================================================
