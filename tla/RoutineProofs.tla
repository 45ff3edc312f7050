---------------------------- MODULE RoutineProofs ----------------------------
(***************************************************************************)
(* oneBallAuto implements its plan, for every length of the shot and of a  *)
(* loop: wherever it was cut off, the next period shoots for the whole     *)
(* second, stops the roller, drives to the end of the path and stands      *)
(* still.                                                                  *)
(***************************************************************************)
EXTENDS RobotProgramProofs

USE DEF full, Modes

Coroutine == [wasRunning : BOOLEAN, at : Labels]

\* What a run gets and returns.
BundleType == [co : [Routines -> Coroutine], timer : 0 .. ShootTicks,
               drive : {"zero", "path", "sticks"}, driveFresh : BOOLEAN,
               armDown : BOOLEAN, intakeMotor : -1 .. 1]

Suspended(label) == [wasRunning |-> TRUE, at |-> label]

------------------------------------------------------------------------------
(* What one run does, from each place where it may be suspended *)

LEMMA Names ==
  /\ "begin" \in Labels /\ "shooting" \in Labels /\ "driving" \in Labels
  /\ "ended" \in Labels /\ "dead" \in Labels
  /\ "taxi" \in Routines /\ "shootBall" \in Routines /\ "oneBall" \in Routines
  BY DEF Labels, Routines

LEMMA Suspension ==
  ASSUME NEW label \in Labels
  PROVE  /\ Suspended(label) \in Coroutine
         /\ Suspended(label).wasRunning = TRUE
         /\ Suspended(label).at = label
<1>1. Suspended(label) \in Coroutine
  BY DEF Suspended, Coroutine
<1>2. Suspended(label).wasRunning = TRUE
  BY Zenon DEF Suspended
<1>3. QED
  BY <1>1, <1>2 DEF Suspended

\* t is s with one coroutine somewhere else, and nothing else changed.
Moved(t, s, r, label) ==
  /\ t \in BundleType
  /\ t.co = [s.co EXCEPT ![r] = Suspended(label)]
  /\ t.timer = s.timer /\ t.intakeMotor = s.intakeMotor
  /\ t.drive = s.drive /\ t.driveFresh = s.driveFresh
  /\ t.armDown = s.armDown

LEMMA MovedThere ==
  ASSUME NEW s \in BundleType, NEW r \in Routines, NEW label \in Labels, NEW t,
         Moved(t, s, r, label)
  PROVE  t.co[r] = Suspended(label) /\ \A q \in Routines \ {r} : t.co[q] = s.co[q]
  BY DEF Moved, BundleType

\* Moving on replaces where it was.
LEMMA MovedAgain ==
  ASSUME NEW s \in BundleType, NEW r \in Routines, NEW t, NEW u,
         NEW from \in Labels, NEW label \in Labels,
         t.co = [s.co EXCEPT ![r] = Suspended(from)],
         u.co = [t.co EXCEPT ![r] = Suspended(label)]
  PROVE  u.co = [s.co EXCEPT ![r] = Suspended(label)]
  BY DEF BundleType

\* A reset routine is resumed at its beginning.
LEMMA ResumedAfresh ==
  ASSUME NEW s \in BundleType, NEW r \in Routines
  PROVE  Moved(Resumed(Nest(s, r), r), s, r, "begin")
<1> DEFINE t == Nest(s, r)
<1>1. t \in BundleType /\ t.co[r].wasRunning = FALSE
  BY DEF Nest, Reset, BundleType, Coroutine
<1>2. Resumed(t, r) = [t EXCEPT !.co[r] = Suspended("begin")]
  BY <1>1 DEF Resumed, Suspended
<1>3. Resumed(t, r) = [s EXCEPT !.co[r] = Suspended("begin")]
  BY <1>2 DEF Nest, Reset, BundleType, Suspended
<1>4. Suspended("begin") \in Coroutine
  BY Names, Suspension
<1>5. QED
  BY <1>3, <1>4 DEF Moved, BundleType

\* A routine that is running is suspended somewhere else.
LEMMA Yields ==
  ASSUME NEW u \in BundleType, NEW r \in Routines, NEW label \in Labels, NEW value,
         u.co[r].wasRunning = TRUE
  PROVE  LET y == Yield(u, r, label, value)
         IN y.value = value /\ Moved(y.s, u, r, label)
<1> DEFINE c == u.co[r]
           t == [u EXCEPT !.co[r].at = label]
<1>1. c \in Coroutine
  BY DEF BundleType
<1>2. [c EXCEPT !.at = label] = [wasRunning |-> c.wasRunning, at |-> label]
  BY <1>1 DEF Coroutine
<1>3. c.wasRunning = TRUE
  OBVIOUS
<1>4. [c EXCEPT !.at = label] = Suspended(label)
  BY <1>2, <1>3, Zenon DEF Suspended
<1>5. t.co = [u.co EXCEPT ![r] = Suspended(label)]
  BY <1>4 DEF BundleType
<1>6. Suspended(label) \in Coroutine
  BY Names, Suspension
<1>7. Moved(t, u, r, label)
  BY <1>5, <1>6 DEF Moved, BundleType
<1>8. QED
  BY <1>7 DEF Yield

\* shootBall that was reset starts the clock and the roller.
LEMMA ShotBegins ==
  ASSUME NEW s \in BundleType
  PROVE  LET shot == RunShootBall(Nest(s, "shootBall"))
         IN /\ shot.value = "true"
            /\ shot.s \in BundleType
            /\ shot.s.co = [s.co EXCEPT !["shootBall"] = Suspended("shooting")]
            /\ shot.s.timer = 0 /\ shot.s.intakeMotor = 1
            /\ shot.s.drive = s.drive /\ shot.s.driveFresh = s.driveFresh
            /\ shot.s.armDown = s.armDown
<1> DEFINE t == Resumed(Nest(s, "shootBall"), "shootBall")
           u == [[t EXCEPT !.timer = 0] EXCEPT !.intakeMotor = 1]
           y == Yield(u, "shootBall", "shooting", "true")
<1>1. Moved(t, s, "shootBall", "begin")
  BY ResumedAfresh, Names, Suspension
<1>2. t.co["shootBall"] = Suspended("begin")
  BY <1>1, MovedThere, Names, Suspension
<1>3. RunShootBall(Nest(s, "shootBall")) = y
  BY <1>2, Names, Suspension DEF RunShootBall
<1>4. /\ u \in BundleType
      /\ u.co = t.co
      /\ u.timer = 0 /\ u.intakeMotor = 1
      /\ u.drive = s.drive /\ u.driveFresh = s.driveFresh /\ u.armDown = s.armDown
  <2>1. t \in BundleType /\ t.drive = s.drive /\ t.driveFresh = s.driveFresh /\ t.armDown = s.armDown
    BY <1>1 DEF Moved
  <2>2. 0 \in 0 .. ShootTicks
    BY ShootAssumption
  <2> DEFINE v == [t EXCEPT !.timer = 0]
  <2>3. /\ v \in BundleType /\ v.co = t.co /\ v.timer = 0
        /\ v.drive = s.drive /\ v.driveFresh = s.driveFresh /\ v.armDown = s.armDown
    BY <2>1, <2>2 DEF BundleType
  <2>4. u = [v EXCEPT !.intakeMotor = 1]
    OBVIOUS
  <2> HIDE DEF v, u
  <2>5. QED
    BY <2>3, <2>4 DEF BundleType
<1>5. y.value = "true" /\ Moved(y.s, u, "shootBall", "shooting")
  <2>1. u.co["shootBall"].wasRunning = TRUE
    BY <1>2, <1>4, Suspension, Names, ZenonT(60)
  <2>2. QED
    BY <2>1, <1>4, Yields, Names
<1>6. y.s.co = [s.co EXCEPT !["shootBall"] = Suspended("shooting")]
  BY <1>1, <1>4, <1>5, MovedAgain, Names, Suspension DEF Moved
<1> HIDE DEF u, y
<1>7. QED
  BY <1>3, <1>4, <1>5, <1>6 DEF Moved

\* A second that is not over, and one that is.
LEMMA ShotGoesOn ==
  ASSUME NEW s \in BundleType, s.co["shootBall"] = Suspended("shooting")
  PROVE  LET shot == RunShootBall(s)
             over == s.timer >= ShootTicks
         IN /\ shot.value = IF over THEN "false" ELSE "true"
            /\ shot.s \in BundleType
            /\ shot.s.co = [s.co EXCEPT !["shootBall"] =
                              Suspended(IF over THEN "ended" ELSE "shooting")]
            /\ shot.s.timer = s.timer
            /\ shot.s.intakeMotor = IF over THEN 0 ELSE 1
            /\ shot.s.drive = s.drive /\ shot.s.driveFresh = s.driveFresh
            /\ shot.s.armDown = s.armDown
<1>1. s.co["shootBall"].wasRunning = TRUE /\ s.co["shootBall"].at = "shooting"
  BY Names, Suspension
<1>2. Resumed(s, "shootBall") = s
  BY <1>1 DEF Resumed
<1>3. s.timer \in Int /\ ShootTicks \in Int
  BY ShootAssumption DEF BundleType
<1>4. CASE s.timer < ShootTicks
  <2> DEFINE u == [s EXCEPT !.intakeMotor = 1]
             y == Yield(u, "shootBall", "shooting", "true")
  <2>1. RunShootBall(s) = y
    BY <1>1, <1>2, <1>3, <1>4 DEF RunShootBall
  <2>2. u \in BundleType /\ u.co = s.co /\ u.timer = s.timer /\ u.intakeMotor = 1
        /\ u.drive = s.drive /\ u.driveFresh = s.driveFresh /\ u.armDown = s.armDown
    BY DEF BundleType
  <2>3. y.value = "true" /\ Moved(y.s, u, "shootBall", "shooting")
    BY <1>1, <2>2, Yields, Names, Suspension
  <2> HIDE DEF u, y
  <2>4. QED
    BY <1>3, <1>4, <2>1, <2>2, <2>3 DEF Moved
<1>5. CASE s.timer >= ShootTicks
  <2> DEFINE u == RollerStopped(s)
             y == Yield(u, "shootBall", "ended", "false")
  <2>1. RunShootBall(s) = y
    BY <1>1, <1>2, <1>3, <1>5 DEF RunShootBall
  <2>2. u \in BundleType /\ u.co = s.co /\ u.timer = s.timer /\ u.intakeMotor = 0
        /\ u.drive = s.drive /\ u.driveFresh = s.driveFresh /\ u.armDown = s.armDown
    BY DEF BundleType, RollerStopped
  <2>3. y.value = "false" /\ Moved(y.s, u, "shootBall", "ended")
    BY <1>1, <2>2, Yields, Names, Suspension
  <2> HIDE DEF u, y
  <2>4. QED
    BY <1>3, <1>5, <2>1, <2>2, <2>3 DEF Moved
<1>6. QED
  BY <1>3, <1>4, <1>5

\* taxi, just reset or suspended in its loop, commands the drive motors.
LEMMA TaxiDrives ==
  ASSUME NEW s \in BundleType, NEW arrived \in BOOLEAN, NEW t,
         t = Nest(s, "taxi") \/ (t = s /\ s.co["taxi"] = Suspended("driving"))
  PROVE  LET taxi == RunTaxi(t, arrived)
         IN /\ taxi.value = IF arrived THEN "false" ELSE "true"
            /\ taxi.s \in BundleType
            /\ taxi.s.co = [s.co EXCEPT !["taxi"] = Suspended("driving")]
            /\ taxi.s.timer = s.timer /\ taxi.s.intakeMotor = s.intakeMotor
            /\ taxi.s.drive = IF arrived THEN "zero" ELSE "path"
            /\ taxi.s.armDown = s.armDown
<1> DEFINE u == Resumed(t, "taxi")
           v == Pursue(u, arrived)
           answer == IF arrived THEN "false" ELSE "true"
           y == Yield(v, "taxi", "driving", answer)
<1>1. \E label \in Labels : Moved(u, s, "taxi", label)
  <2>1. CASE t = Nest(s, "taxi")
    BY <2>1, ResumedAfresh, Names, Suspension
  <2>2. CASE t = s /\ s.co["taxi"] = Suspended("driving")
    <3>1. u = s
      BY <2>2, Names, Suspension DEF Resumed
    <3>2. s.co = [s.co EXCEPT !["taxi"] = Suspended("driving")]
      BY <2>2, Names, Suspension DEF BundleType
    <3>3. QED
      BY <3>1, <3>2, Names, Suspension DEF Moved
  <2>3. QED
    BY <2>1, <2>2
<1>2. PICK label \in Labels : Moved(u, s, "taxi", label)
  BY <1>1
<1>3. u.co["taxi"] = Suspended(label)
  BY <1>2, MovedThere, Names, Suspension
<1>4. /\ v \in BundleType /\ v.co = u.co
      /\ v.timer = u.timer /\ v.intakeMotor = u.intakeMotor /\ v.armDown = u.armDown
      /\ v.drive = IF arrived THEN "zero" ELSE "path"
  BY <1>2 DEF Moved, Pursue, BundleType
<1>5. RunTaxi(t, arrived) = y
  BY DEF RunTaxi
<1>6. y.value = answer /\ Moved(y.s, v, "taxi", "driving")
  <2>1. v.co["taxi"].wasRunning = TRUE
    BY <1>3, <1>4, Suspension
  <2> HIDE DEF v, answer
  <2>2. QED
    BY <2>1, <1>4, Yields, Names
<1>7. y.s.co = [s.co EXCEPT !["taxi"] = Suspended("driving")]
  BY <1>2, <1>4, <1>6, MovedAgain, Names, Suspension DEF Moved
<1> HIDE DEF u, v, y
<1>8. QED
  BY <1>2, <1>4, <1>5, <1>6, <1>7 DEF Moved

------------------------------------------------------------------------------
(* What a run of oneBallAuto leaves behind *)

\* It is rolling, with shootBall suspended in its loop.
Rolling(t) ==
  /\ t \in BundleType
  /\ t.co["oneBall"] = Suspended("shooting") /\ t.co["shootBall"] = Suspended("shooting")
  /\ t.intakeMotor = 1

\* It has answered for taxi: on its way, or there.
OnItsWay(t, arrived) ==
  /\ t \in BundleType
  /\ t.co["oneBall"] = Suspended(IF arrived THEN "ended" ELSE "driving")
  /\ t.co["taxi"] = Suspended("driving")
  /\ t.drive = IF arrived THEN "zero" ELSE "path"

\* The end of a run in which shootBall rolls on.
LEMMA YieldsRolling ==
  ASSUME NEW u \in BundleType, u.co["oneBall"].wasRunning = TRUE,
         u.co["shootBall"] = Suspended("shooting"), u.intakeMotor = 1
  PROVE  LET y == Yield(u, "oneBall", "shooting", "true")
         IN Rolling(y.s) /\ y.s.timer = u.timer /\ y.s.driveFresh = u.driveFresh
            /\ y.s.armDown = u.armDown
<1> DEFINE y == Yield(u, "oneBall", "shooting", "true")
<1>1. Moved(y.s, u, "oneBall", "shooting")
  BY Yields, Names
<1> HIDE DEF y
<1>2. y.s.co["oneBall"] = Suspended("shooting") /\ y.s.co["shootBall"] = u.co["shootBall"]
  BY <1>1, MovedThere, Names
<1>3. QED
  BY <1>1, <1>2 DEF Moved, Rolling, y

\* The end of a run that has come to taxi's loop.
LEMMA YieldsDriving ==
  ASSUME NEW s \in BundleType, NEW t, NEW arrived \in BOOLEAN,
         s.co["oneBall"].wasRunning = TRUE,
         t = Nest(s, "taxi") \/ (t = s /\ s.co["taxi"] = Suspended("driving"))
  PROVE  LET taxi == RunTaxi(t, arrived)
             y == IF Truthy(taxi.value) THEN Yield(taxi.s, "oneBall", "driving", "true")
                  ELSE Yield(taxi.s, "oneBall", "ended", "false")
         IN /\ OnItsWay(y.s, arrived)
            /\ y.s.timer = s.timer /\ y.s.intakeMotor = s.intakeMotor
            /\ y.s.co["shootBall"] = s.co["shootBall"]
            /\ y.s.armDown = s.armDown
<1> DEFINE taxi == RunTaxi(t, arrived)
           y == IF Truthy(taxi.value) THEN Yield(taxi.s, "oneBall", "driving", "true")
                ELSE Yield(taxi.s, "oneBall", "ended", "false")
           label == IF arrived THEN "ended" ELSE "driving"
<1>1. /\ taxi.value = IF arrived THEN "false" ELSE "true"
      /\ taxi.s \in BundleType
      /\ taxi.s.co = [s.co EXCEPT !["taxi"] = Suspended("driving")]
      /\ taxi.s.timer = s.timer /\ taxi.s.intakeMotor = s.intakeMotor
      /\ taxi.s.drive = IF arrived THEN "zero" ELSE "path"
      /\ taxi.s.armDown = s.armDown
  BY TaxiDrives
<1> HIDE DEF taxi
<1>2. /\ taxi.s.co["taxi"] = Suspended("driving")
      /\ taxi.s.co["oneBall"] = s.co["oneBall"]
      /\ taxi.s.co["shootBall"] = s.co["shootBall"]
  BY <1>1 DEF BundleType, Routines
<1>3. taxi.s \in BundleType /\ taxi.s.co["oneBall"].wasRunning = TRUE
  BY <1>1, <1>2
<1>4. Moved(y.s, taxi.s, "oneBall", label)
  <2>1. CASE arrived
    <3>1. y = Yield(taxi.s, "oneBall", "ended", "false")
      BY <2>1, <1>1 DEF Truthy
    <3>2. Moved(Yield(taxi.s, "oneBall", "ended", "false").s, taxi.s, "oneBall", "ended")
      BY <1>3, Yields, Names
    <3>3. QED
      BY <2>1, <3>1, <3>2
  <2>2. CASE ~arrived
    <3>1. y = Yield(taxi.s, "oneBall", "driving", "true")
      BY <2>2, <1>1 DEF Truthy
    <3>2. Moved(Yield(taxi.s, "oneBall", "driving", "true").s, taxi.s, "oneBall", "driving")
      BY <1>3, Yields, Names
    <3>3. QED
      BY <2>2, <3>1, <3>2
  <2>3. QED
    BY <2>1, <2>2
<1> HIDE DEF y
<1>5. label \in Labels
  BY Names
<1> HIDE DEF label
<1>6. /\ y.s.co["oneBall"] = Suspended(label)
      /\ y.s.co["taxi"] = taxi.s.co["taxi"]
      /\ y.s.co["shootBall"] = taxi.s.co["shootBall"]
  BY <1>3, <1>4, <1>5, MovedThere, Names
<1>7. QED
  BY <1>1, <1>2, <1>4, <1>6 DEF Moved, OnItsWay, label, y, taxi

LEMMA YieldsDrivingAfresh ==
  ASSUME NEW s \in BundleType, NEW arrived \in BOOLEAN, s.co["oneBall"].wasRunning = TRUE
  PROVE  LET taxi == RunTaxi(Nest(s, "taxi"), arrived)
             y == IF Truthy(taxi.value) THEN Yield(taxi.s, "oneBall", "driving", "true")
                  ELSE Yield(taxi.s, "oneBall", "ended", "false")
         IN /\ OnItsWay(y.s, arrived)
            /\ y.s.timer = s.timer /\ y.s.intakeMotor = s.intakeMotor
            /\ y.s.co["shootBall"] = s.co["shootBall"]
            /\ y.s.armDown = s.armDown
  BY YieldsDriving

\* A run of a reset oneBallAuto begins with the shot, whatever its nested
\* coroutines were left with.
LEMMA OneBallBegins ==
  ASSUME NEW s \in BundleType, NEW arrived \in BOOLEAN, ~s.co["oneBall"].wasRunning
  PROVE  LET t == RunOneBall(s, arrived).s
         IN Rolling(t) /\ t.timer = 0 /\ t.driveFresh = s.driveFresh /\ t.armDown = s.armDown
<1> DEFINE u == Resumed(s, "oneBall")
           shot == RunShootBall(Nest(u, "shootBall"))
<1>1. Moved(u, s, "oneBall", "begin")
  <2>1. u = [s EXCEPT !.co["oneBall"] = Suspended("begin")]
    BY DEF Resumed, Suspended
  <2>2. QED
    <3>1. Suspended("begin") \in Coroutine
      BY Suspension, Names
    <3>2. QED
      BY <2>1, <3>1, Names DEF Moved, BundleType
<1>2. u \in BundleType /\ u.driveFresh = s.driveFresh /\ u.armDown = s.armDown
        /\ u.co["oneBall"] = Suspended("begin")
  BY <1>1, MovedThere, Names DEF Moved
<1> HIDE DEF u
<1>3. /\ shot.value = "true" /\ shot.s \in BundleType
      /\ shot.s.co = [u.co EXCEPT !["shootBall"] = Suspended("shooting")]
      /\ shot.s.timer = 0 /\ shot.s.intakeMotor = 1
      /\ shot.s.driveFresh = u.driveFresh /\ shot.s.armDown = u.armDown
  BY <1>2, ShotBegins
<1> HIDE DEF shot
<1>4. /\ shot.s.co["oneBall"] = Suspended("begin")
      /\ shot.s.co["shootBall"] = Suspended("shooting")
  BY <1>2, <1>3 DEF BundleType, Routines
<1>5. u.co["oneBall"].at = "begin" /\ shot.s.co["oneBall"].wasRunning = TRUE
  BY <1>2, <1>4, Suspension, Names
<1>6. RunOneBall(s, arrived) = Yield(shot.s, "oneBall", "shooting", "true")
  BY <1>3, <1>5 DEF RunOneBall, Truthy, u, shot
<1>7. QED
  BY <1>2, <1>3, <1>4, <1>5, <1>6, YieldsRolling

LEMMA OneBallShoots ==
  ASSUME NEW s \in BundleType, NEW arrived \in BOOLEAN,
         s.co["oneBall"] = Suspended("shooting"), s.co["shootBall"] = Suspended("shooting")
  PROVE  LET t == RunOneBall(s, arrived).s
         IN /\ t.timer = s.timer /\ t.armDown = s.armDown
            /\ s.timer < ShootTicks => Rolling(t) /\ t.driveFresh = s.driveFresh
            /\ s.timer >= ShootTicks =>
                 /\ OnItsWay(t, arrived)
                 /\ t.intakeMotor = 0 /\ t.co["shootBall"] = Suspended("ended")
<1> DEFINE shot == RunShootBall(s)
<1>1. s.co["oneBall"].wasRunning = TRUE /\ s.co["oneBall"].at = "shooting"
  BY Suspension, Names
<1>2. Resumed(s, "oneBall") = s
  BY <1>1 DEF Resumed
<1>3. s.timer \in Int /\ ShootTicks \in Int
  BY ShootAssumption DEF BundleType
<1>4. CASE s.timer < ShootTicks
  <2>1. /\ shot.value = "true" /\ shot.s \in BundleType
        /\ shot.s.co = [s.co EXCEPT !["shootBall"] = Suspended("shooting")]
        /\ shot.s.timer = s.timer /\ shot.s.intakeMotor = 1
        /\ shot.s.driveFresh = s.driveFresh /\ shot.s.armDown = s.armDown
    BY <1>3, <1>4, ShotGoesOn
  <2> HIDE DEF shot
  <2>2. /\ shot.s.co["oneBall"] = s.co["oneBall"]
        /\ shot.s.co["shootBall"] = Suspended("shooting")
    BY <2>1 DEF BundleType, Routines
  <2> DEFINE y == Yield(shot.s, "oneBall", "shooting", "true")
  <2>3. RunOneBall(s, arrived) = y
    BY <1>1, <1>2, <2>1 DEF RunOneBall, Truthy, shot
  <2>4. Rolling(y.s) /\ y.s.timer = shot.s.timer /\ y.s.driveFresh = shot.s.driveFresh
        /\ y.s.armDown = shot.s.armDown
    BY <1>1, <2>1, <2>2, YieldsRolling
  <2> HIDE DEF y
  <2>5. QED
    BY <1>3, <1>4, <2>1, <2>3, <2>4
<1>5. CASE s.timer >= ShootTicks
  <2>1. /\ shot.value = "false" /\ shot.s \in BundleType
        /\ shot.s.co = [s.co EXCEPT !["shootBall"] = Suspended("ended")]
        /\ shot.s.timer = s.timer /\ shot.s.intakeMotor = 0 /\ shot.s.armDown = s.armDown
    BY <1>3, <1>5, ShotGoesOn
  <2> HIDE DEF shot
  <2>2. /\ shot.s.co["oneBall"] = s.co["oneBall"]
        /\ shot.s.co["shootBall"] = Suspended("ended")
    BY <2>1 DEF BundleType, Routines
  <2> DEFINE taxi == RunTaxi(Nest(shot.s, "taxi"), arrived)
             y == IF Truthy(taxi.value) THEN Yield(taxi.s, "oneBall", "driving", "true")
                  ELSE Yield(taxi.s, "oneBall", "ended", "false")
  <2>3. RunOneBall(s, arrived) = y
    BY <1>1, <1>2, <2>1 DEF RunOneBall, Truthy, shot
  <2>4. /\ OnItsWay(y.s, arrived)
        /\ y.s.timer = shot.s.timer /\ y.s.intakeMotor = shot.s.intakeMotor
        /\ y.s.co["shootBall"] = shot.s.co["shootBall"] /\ y.s.armDown = shot.s.armDown
    <3>1. shot.s \in BundleType /\ shot.s.co["oneBall"].wasRunning = TRUE
      BY <1>1, <2>1, <2>2
    <3>2. QED
      BY <3>1, YieldsDrivingAfresh
  <2> HIDE DEF y
  <2>5. QED
    BY <1>3, <1>5, <2>1, <2>2, <2>3, <2>4
<1>6. QED
  BY <1>3, <1>4, <1>5

LEMMA OneBallDrives ==
  ASSUME NEW s \in BundleType, NEW arrived \in BOOLEAN,
         s.co["oneBall"] = Suspended("driving"), s.co["taxi"] = Suspended("driving")
  PROVE  LET t == RunOneBall(s, arrived).s
         IN /\ OnItsWay(t, arrived)
            /\ t.timer = s.timer /\ t.intakeMotor = s.intakeMotor
            /\ t.co["shootBall"] = s.co["shootBall"] /\ t.armDown = s.armDown
<1> DEFINE taxi == RunTaxi(s, arrived)
<1>1. s.co["oneBall"].wasRunning = TRUE /\ s.co["oneBall"].at = "driving"
  BY Suspension, Names
<1>2. Resumed(s, "oneBall") = s
  BY <1>1 DEF Resumed
<1> DEFINE y == IF Truthy(taxi.value) THEN Yield(taxi.s, "oneBall", "driving", "true")
                ELSE Yield(taxi.s, "oneBall", "ended", "false")
<1>3. RunOneBall(s, arrived) = y
  BY <1>1, <1>2 DEF RunOneBall
<1>4. /\ OnItsWay(y.s, arrived)
      /\ y.s.timer = s.timer /\ y.s.intakeMotor = s.intakeMotor
      /\ y.s.co["shootBall"] = s.co["shootBall"] /\ y.s.armDown = s.armDown
  BY <1>1, YieldsDriving
<1> HIDE DEF y
<1>5. QED
  BY <1>3, <1>4

LEMMA OneBallStaysOver ==
  ASSUME NEW s \in BundleType, NEW arrived \in BOOLEAN,
         s.co["oneBall"].wasRunning = TRUE, s.co["oneBall"].at \in {"ended", "dead"}
  PROVE  LET t == RunOneBall(s, arrived).s
         IN /\ Moved(t, s, "oneBall", "dead")
            /\ t.co["oneBall"] = Suspended("dead")
            /\ t.co["shootBall"] = s.co["shootBall"]
<1> DEFINE t == RunOneBall(s, arrived).s
<1>1. Resumed(s, "oneBall") = s
  BY DEF Resumed
<1>2. \E value : RunOneBall(s, arrived) = Yield(s, "oneBall", "dead", value)
  BY <1>1 DEF RunOneBall, AfterEnd
<1>3. Moved(t, s, "oneBall", "dead")
  <2>1. PICK value : RunOneBall(s, arrived) = Yield(s, "oneBall", "dead", value)
    BY <1>2
  <2>2. Moved(Yield(s, "oneBall", "dead", value).s, s, "oneBall", "dead")
    BY Yields, Names
  <2>3. QED
    BY <2>1, <2>2
<1> HIDE DEF t
<1>4. t.co["oneBall"] = Suspended("dead") /\ t.co["shootBall"] = s.co["shootBall"]
  BY <1>3, MovedThere, Names
<1>5. QED
  BY <1>3, <1>4 DEF t

------------------------------------------------------------------------------
(* Every variable keeps its type *)

\* What the autonomous routines are given.
LEMMA BundleTyped == TypeOK => Bundle \in BundleType
  BY DEF TypeOK, AutoTypeOK, Bundle, BundleType, Coroutine

LEMMA ResumedType ==
  ASSUME NEW s \in BundleType, NEW r \in Routines
  PROVE  LET u == Resumed(s, r)
         IN /\ u \in BundleType /\ u.co[r].wasRunning = TRUE
            /\ \A q \in Routines \ {r} : u.co[q] = s.co[q]
            /\ u.armDown = s.armDown
<1> DEFINE u == Resumed(s, r)
<1>1. CASE s.co[r].wasRunning = TRUE
  BY <1>1 DEF Resumed
<1>2. CASE s.co[r].wasRunning = FALSE
  <2>1. u = [s EXCEPT !.co[r] = Suspended("begin")]
    BY <1>2 DEF Resumed, Suspended
  <2>2. Suspended("begin") \in Coroutine /\ Suspended("begin").wasRunning = TRUE
    BY Suspension, Names
  <2>3. u.co = [s.co EXCEPT ![r] = Suspended("begin")] /\ u \in BundleType /\ u.armDown = s.armDown
    BY <2>1, <2>2 DEF BundleType
  <2> HIDE DEF u
  <2>4. QED
    BY <2>2, <2>3 DEF BundleType, u
<1>3. s.co[r].wasRunning \in BOOLEAN
  BY DEF BundleType, Coroutine
<1>4. QED
  BY <1>1, <1>2, <1>3

\* The routines other than oneBallAuto touch no coroutine but their own.
LEMMA OthersRun ==
  ASSUME NEW s \in BundleType, NEW r \in Options \ {"oneBall"},
         NEW arrived \in BOOLEAN, NEW trigger \in TestTriggers
  PROVE  LET t == RunRoutine(r, s, arrived, trigger).s
         IN /\ t \in BundleType /\ t.co["oneBall"] = s.co["oneBall"]
            /\ r # "test" => t.armDown = s.armDown
<1> DEFINE u == Resumed(s, r)
           t == RunRoutine(r, s, arrived, trigger).s
<1>1. r \in Routines /\ r # "oneBall"
  BY DEF Options, Routines
<1>2. u \in BundleType /\ u.co[r].wasRunning = TRUE /\ u.co["oneBall"] = s.co["oneBall"]
        /\ u.armDown = s.armDown
  <2>1. "oneBall" \in Routines \ {r}
    BY <1>1, Names, Zenon
  <2> QED
    BY <1>1, <2>1, ResumedType, Zenon
<1>3. \E value : \E v \in BundleType, label \in Labels :
        /\ v.co = u.co /\ (r # "test" => v.armDown = s.armDown)
        /\ RunRoutine(r, s, arrived, trigger) = Yield(v, r, label, value)
  <2>1. CASE r = "doNothing"
    <3>1. \E value : RunRoutine(r, s, arrived, trigger) = Yield(u, r, "dead", value)
      BY <2>1 DEF RunRoutine, RunDoNothing, AfterEnd
    <3>2. QED
      BY <3>1, <1>2, Names
  <2>2. CASE r = "taxi"
    <3> DEFINE v == Pursue(u, arrived)
    <3>1. \E value : RunRoutine(r, s, arrived, trigger) = Yield(v, r, "driving", value)
      BY <2>2 DEF RunRoutine, RunTaxi
    <3>2. v \in BundleType /\ v.co = u.co /\ v.armDown = u.armDown
      BY <1>2 DEF Pursue, BundleType
    <3> HIDE DEF v
    <3>3. QED
      BY <1>2, <3>1, <3>2, Names
  <2>3. CASE r = "test"
    <3> DEFINE w == TestTrigger(u, trigger)
               v == Pursue(w, arrived)
    <3>1. RunRoutine(r, s, arrived, trigger) = Yield(v, r, "driving", "nil")
      BY <2>3 DEF RunRoutine, RunTest
    <3>2. w \in BundleType /\ w.co = u.co
      <4>1. CASE trigger = "start1"
        <5> DEFINE x == [u EXCEPT !.armDown = TRUE]
        <5>1. w = [x EXCEPT !.intakeMotor = -1]
          BY <4>1 DEF TestTrigger
        <5>2. x \in BundleType /\ x.co = u.co
          BY <1>2 DEF BundleType
        <5> HIDE DEF x, w
        <5>3. QED
          BY <5>1, <5>2 DEF BundleType
      <4>2. CASE trigger = "start3"
        <5> DEFINE x == [u EXCEPT !.armDown = FALSE]
        <5>1. w = [x EXCEPT !.intakeMotor = 0]
          BY <4>2 DEF TestTrigger, RollerStopped
        <5>2. x \in BundleType /\ x.co = u.co
          BY <1>2 DEF BundleType
        <5> HIDE DEF x, w
        <5>3. QED
          BY <5>1, <5>2 DEF BundleType
      <4>3. CASE trigger = "end3"
        BY <4>3, <1>2 DEF TestTrigger, BundleType
      <4>4. CASE trigger = "none"
        BY <4>4, <1>2 DEF TestTrigger, BundleType
      <4>5. QED
        BY <4>1, <4>2, <4>3, <4>4 DEF TestTriggers
    <3> HIDE DEF w
    <3>3. v \in BundleType /\ v.co = u.co
      BY <3>2 DEF Pursue, BundleType
    <3> HIDE DEF v
    <3>4. QED
      BY <2>3, <3>1, <3>3, Names
  <2>4. QED
    BY <2>1, <2>2, <2>3 DEF Options
<1>4. PICK value : \E v \in BundleType, label \in Labels :
        /\ v.co = u.co /\ (r # "test" => v.armDown = s.armDown)
        /\ RunRoutine(r, s, arrived, trigger) = Yield(v, r, label, value)
  BY <1>3
<1>5. PICK v \in BundleType, label \in Labels :
        /\ v.co = u.co /\ (r # "test" => v.armDown = s.armDown)
        /\ RunRoutine(r, s, arrived, trigger) = Yield(v, r, label, value)
  BY <1>4
<1>6. v.co[r].wasRunning = TRUE
  BY <1>2, <1>5
<1>7. Moved(Yield(v, r, label, value).s, v, r, label)
  BY <1>1, <1>6, Yields
<1>8. Moved(t, v, r, label)
  BY <1>5, <1>7
<1> HIDE DEF t, u
<1>9. t \in BundleType /\ t.co["oneBall"] = v.co["oneBall"] /\ t.armDown = v.armDown
  BY <1>1, <1>8, MovedThere, Names DEF Moved
<1>10. QED
  BY <1>2, <1>5, <1>9 DEF t

\* Both of the winch's motors get one of their four commands.
LEMMA WinchCommandsTyped ==
  ASSUME NEW buttons
  PROVE  WinchCommands(buttons) \in [motor : {-full, 0, 1, full}, follower : {-full, 0, 1, full}]
<1> DEFINE base == CASE "Start" \in buttons                            -> RunIn
                     [] "Start" \notin buttons /\ "Select" \in buttons -> RunOut
                     [] buttons \cap {"Start", "Select"} = {}          -> Stop
           Outputs == [motor : {-full, 0, 1, full}, follower : {-full, 0, 1, full}]
<1>1. \A output \in {-full, 0, full} : Both(output) \in Outputs
  BY DEF Both
<1>2. base \in Outputs
  <2>1. RunIn \in Outputs /\ RunOut \in Outputs /\ Stop \in Outputs
    BY <1>1 DEF RunIn, RunOut, Stop
  <2>2. buttons \cap {"Start", "Select"} = {} <=> "Start" \notin buttons /\ "Select" \notin buttons
    OBVIOUS
  <2>3. QED
    BY <2>1, <2>2
<1> HIDE DEF base
<1>3. \A w \in Outputs : RunIn1(w) \in Outputs /\ RunIn2(w) \in Outputs
  <2>1. full \div 4 = 1
    OBVIOUS
  <2>2. \A w \in Outputs : [w EXCEPT !.motor = 1] \in Outputs /\ [w EXCEPT !.follower = 1] \in Outputs
    OBVIOUS
  <2>3. QED
    BY <2>1, <2>2 DEF RunIn1, RunIn2
<1>4. buttons \cap {"B", "X"} = {} <=> "B" \notin buttons /\ "X" \notin buttons
  OBVIOUS
<1>5. QED
  BY <1>2, <1>3, <1>4 DEF WinchCommands, base

\* The variables but those of the routines and the roller, which the routines
\* command too.
OtherTypes ==
  /\ DSTypeOK
  /\ ok \in BOOLEAN
  /\ mode \in Modes \cup {"none"}
  /\ step \in Modes \cup {"start", "released", "held", "robotPeriodic", "world"}
  /\ selectedAuto \in Options
  /\ chooser \in Options \cup {"unset"}
  /\ arm \in {-downSpeed, 0, midSpeed, upSpeed}
  /\ armPosition \in Int /\ armAngle \in Int
  /\ winchMotor \in {-full, 0, 1, full} /\ winchFollower \in {-full, 0, 1, full}
  /\ winchEncoder \in -WinchCap .. WinchCap
  /\ trimmed \in BOOLEAN /\ swapped \in BOOLEAN

RoutineTypes == AutoTypeOK /\ periodTime \in 0 .. ShootTicks
                /\ armDown \in BOOLEAN /\ intakeMotor \in -1 .. 1

LEMMA TwoParts == TypeOK <=> OtherTypes /\ RoutineTypes
  BY DEF TypeOK, OtherTypes, RoutineTypes

LEMMA TypesStart == Init => TypeOK
<1> SUFFICES ASSUME Init PROVE TypeOK
  OBVIOUS
<1>1. co \in [Routines -> [wasRunning : BOOLEAN, at : Labels]]
  BY DEF Init, AutoInit, Fresh, Labels
<1>2. AutoTypeOK
  <2>1. timer = 0 /\ drive = "zero" /\ driveFresh = FALSE
    BY DEF Init, AutoInit
  <2>2. timer \in 0 .. ShootTicks
    BY <2>1, ShootAssumption
  <2>3. QED
    BY <1>1, <2>1, <2>2 DEF AutoTypeOK
<1>3. DSTypeOK
  BY DEF Init, DSInit, DSTypeOK
<1>4. winchEncoder \in -WinchCap .. WinchCap /\ periodTime \in 0 .. ShootTicks
  BY ShootAssumption, InputAssumption DEF Init, WinchInit
<1>5. /\ ok \in BOOLEAN /\ armDown \in BOOLEAN
      /\ trimmed \in BOOLEAN /\ swapped \in BOOLEAN
  BY DEF Init, IntakeInit
<1>6. /\ mode = "none" /\ step = "start"
      /\ selectedAuto \in Options /\ chooser = "unset"
  BY DEF Init, Options
<1>7. /\ arm = 0 /\ armPosition = 0 /\ armAngle = 0 /\ intakeMotor = 0
      /\ winchMotor = 0 /\ winchFollower = 0
  BY DEF Init, IntakeInit, WinchInit
<1>8. QED
  BY <1>2, <1>3, <1>4, <1>5, <1>6, <1>7 DEF TypeOK

LEMMA PacketTypes == OtherTypes /\ Packet => OtherTypes'
<1> SUFFICES ASSUME OtherTypes, Packet PROVE OtherTypes'
  OBVIOUS
<1>1. UNCHANGED <<ok, mode, step, selectedAuto, chooser, arm, armPosition, armAngle,
                  winchVars, trimmed>>
  BY DEF Packet, armVars, loopVars, choiceVars
<1>2. DSTypeOK'
  <2>1. CASE \E now \in SUBSET Buttons : ButtonsPacket(now)
    BY <2>1 DEF ButtonsPacket, DSTypeOK, OtherTypes
  <2>2. CASE ModePacket
    BY <2>2 DEF ModePacket, DSTypeOK, OtherTypes
  <2>3. QED
    BY <2>1, <2>2 DEF Packet
<1>3. swapped' \in BOOLEAN
  BY DEF Packet, OtherTypes, Swaps
<1>4. QED
  BY <1>1, <1>2, <1>3 DEF OtherTypes, winchVars

LEMMA WorldTypes == OtherTypes /\ World => OtherTypes'
<1> SUFFICES ASSUME OtherTypes, World PROVE OtherTypes'
  OBVIOUS
<1>1. armAngle' \in Int
  BY ArmAssumption DEF World, ArmReach, Enabled, OtherTypes, downSpeed, midSpeed, upSpeed
<1>2. QED
  BY <1>1 DEF World, OtherTypes, DSTypeOK, dsVars, choiceVars

LEMMA BeginTypes ==
  OtherTypes /\ (SameMode \/ InitWithoutEffect \/ AutonomousInit \/ AutonomousInitFails)
    => OtherTypes'
<1> SUFFICES ASSUME OtherTypes,
                    SameMode \/ InitWithoutEffect \/ AutonomousInit \/ AutonomousInitFails
             PROVE  OtherTypes'
  OBVIOUS
<1>1. Begin
  BY DEF SameMode, InitWithoutEffect, AutonomousInit, AutonomousInitFails
<1>2. selectedAuto' \in {selectedAuto} \cup (Options \cap {chooser})
  BY DEF SameMode, InitWithoutEffect, AutonomousInit, AutonomousInitFails, OtherTypes
<1>3. DSTypeOK'
  BY <1>1 DEF Begin, OtherTypes, DSTypeOK
<1>4. QED
  BY <1>1, <1>2, <1>3 DEF Begin, OtherTypes, DSTypeOK, armVars, winchVars

------------------------------------------------------------------------------
(* The invariant of oneBallAuto *)

routineState == <<co, timer, drive, driveFresh, intakeMotor, armDown, ok, mode,
                  selectedAuto, periodTime>>

\* Nothing of the routines changes.
LEMMA NothingForOneBall ==
  ASSUME OneBallInv, UNCHANGED routineState,
         step' = step \/ step # "autonomous",
         chooser' = chooser \/ chooser' # "unset"
  PROVE  OneBallInv'
  BY DEF OneBallInv, WaitsForTheLiving, Running, routineState

LEMMA NothingForRoutineTypes ==
  RoutineTypes /\ UNCHANGED routineState => RoutineTypes'
  BY DEF RoutineTypes, AutoTypeOK, routineState

\* Outside autonomous the routines are at rest, whatever is commanded there.
LEMMA RestOutsideAutonomous ==
  ASSUME OneBallInv, mode' # "autonomous", UNCHANGED <<co, ok, chooser, selectedAuto>>
  PROVE  OneBallInv'
  BY DEF OneBallInv, WaitsForTheLiving, Running

\* Time passes for the shot and for the period alike.
LEMMA TimePasses ==
  ASSUME NEW time \in 0 .. ShootTicks, NEW dt \in 1 .. MaxLag
  PROVE  /\ Later(time, dt) \in 0 .. ShootTicks
         /\ Later(time, dt) = time \/ Later(time, dt) > time
         /\ time = ShootTicks => Later(time, dt) = ShootTicks
  BY ShootAssumption, InputAssumption DEF Later

LEMMA WorldKeepsOneBall ==
  ASSUME OneBallInv, RoutineTypes, World
  PROVE  OneBallInv' /\ RoutineTypes'
<1>1. PICK dt \in 1 .. MaxLag : timer' = Later(timer, dt) /\ periodTime' = Later(periodTime, dt)
  BY DEF World
<1>2. /\ step = "world" /\ step' = "start"
      /\ UNCHANGED <<co, drive, driveFresh, intakeMotor, armDown, ok, mode, selectedAuto, chooser>>
  BY DEF World, wishVars, choiceVars
<1>3. timer \in 0 .. ShootTicks /\ periodTime \in 0 .. ShootTicks
  BY DEF RoutineTypes, AutoTypeOK
<1>4. /\ timer' \in 0 .. ShootTicks /\ periodTime' \in 0 .. ShootTicks
      /\ periodTime = ShootTicks => periodTime' = ShootTicks
      /\ timer = periodTime => timer' = periodTime'
  BY <1>1, <1>3, TimePasses
<1>5. RoutineTypes'
  BY <1>2, <1>4 DEF RoutineTypes, AutoTypeOK
<1>6. OneBallInv'
  BY <1>2, <1>4 DEF OneBallInv, WaitsForTheLiving, Running
<1>7. QED
  BY <1>5, <1>6

LEMMA BeginKeepsOneBall ==
  ASSUME OneBallInv, RoutineTypes, OtherTypes, ModeInv,
         SameMode \/ InitWithoutEffect \/ AutonomousInit \/ AutonomousInitFails
  PROVE  OneBallInv' /\ RoutineTypes'
<1>1. /\ step = "start" /\ mode' = dsMode
      /\ step' = IF ok THEN dsMode ELSE "world"
      /\ UNCHANGED <<timer, drive, intakeMotor, armDown, ok, chooser>>
  BY DEF Begin, SameMode, InitWithoutEffect, AutonomousInit, AutonomousInitFails, wishVars
<1>2. CASE SameMode
  <2>1. UNCHANGED routineState
    BY <1>1, <1>2 DEF SameMode, routineState
  <2>2. QED
    BY <1>1, <2>1, NothingForOneBall, NothingForRoutineTypes
<1>3. CASE InitWithoutEffect \/ AutonomousInitFails
  <2>1. UNCHANGED <<co, selectedAuto>> /\ driveFresh' = FALSE
    BY <1>3 DEF InitWithoutEffect, AutonomousInitFails
  <2>2. periodTime' \in 0 .. ShootTicks
    BY <1>3, ShootAssumption DEF InitWithoutEffect, AutonomousInitFails, RoutineTypes
  <2>3. RoutineTypes'
    BY <1>1, <2>1, <2>2 DEF RoutineTypes, AutoTypeOK
  <2>4. mode' # "autonomous" \/ selectedAuto = "doNothing"
    BY <1>1, <1>3 DEF InitWithoutEffect, AutonomousInitFails, OneBallInv, ModeInv
  <2>5. OneBallInv'
    BY <1>1, <2>1, <2>4 DEF OneBallInv, WaitsForTheLiving, Running
  <2>6. QED
    BY <2>3, <2>5
<1>4. CASE AutonomousInit
  <2>1. /\ mode' = "autonomous" /\ step' = "autonomous" /\ ok /\ chooser # "unset"
        /\ selectedAuto' = chooser /\ co' = Reset(Bundle, chooser).co
        /\ driveFresh' = FALSE /\ periodTime' = 0
    BY <1>1, <1>4 DEF AutonomousInit
  <2>2. chooser \in Routines
    BY <2>1 DEF OtherTypes, Options, Routines
  <2>3. /\ co' \in [Routines -> Coroutine]
        /\ co'[chooser].wasRunning = FALSE
        /\ \A r \in Routines \ {chooser} : co'[r] = co[r]
    BY <2>1, <2>2 DEF Reset, Bundle, RoutineTypes, AutoTypeOK, Coroutine
  <2>4. RoutineTypes'
    <3>1. periodTime' \in 0 .. ShootTicks
      BY <2>1, ShootAssumption
    <3>2. QED
      BY <1>1, <2>1, <2>3, <3>1 DEF RoutineTypes, AutoTypeOK, Coroutine
  <2>5. ~Running("oneBall")'
    BY <2>1, <2>3 DEF Running
  <2>6. co'["oneBall"].wasRunning => co'["oneBall"].at # "begin"
    BY <2>3, Names DEF OneBallInv
  <2>7. OneBallInv'
    BY <1>1, <2>1, <2>5, <2>6 DEF OneBallInv, WaitsForTheLiving
  <2>8. QED
    BY <2>4, <2>7
<1>5. QED
  BY <1>2, <1>3, <1>4

\* What a run leaves in the variables.
LEMMA AfterARun ==
  ASSUME NEW t \in BundleType, Becomes(t), RoutineTypes, UNCHANGED periodTime
  PROVE  RoutineTypes'
  BY DEF BundleType, Becomes, RoutineTypes, AutoTypeOK, Coroutine

\* How an autonomous loop of oneBallAuto may end: rolling, or on its way with
\* the shot over, or over as before.
OneBallRan(t, arrived) ==
  /\ t.armDown = armDown
  /\ \/ /\ Rolling(t) /\ t.timer = periodTime /\ t.driveFresh = FALSE
        /\ ~co["oneBall"].wasRunning \/ co["oneBall"].at = "shooting"
     \/ /\ OnItsWay(t, arrived) /\ t.intakeMotor = 0
        /\ t.co["shootBall"].at = "ended" /\ periodTime = ShootTicks
        /\ co["oneBall"].wasRunning /\ co["oneBall"].at \in {"shooting", "driving"}
     \/ /\ t \in BundleType /\ t.co["oneBall"] = Suspended("dead")
        /\ t.co["shootBall"].at = "ended"
        /\ t.intakeMotor = 0 /\ t.drive = "zero" /\ periodTime = ShootTicks
        /\ co["oneBall"].wasRunning /\ co["oneBall"].at \in {"ended", "dead"}

LEMMA OneBallLoop ==
  ASSUME RoutineTypes, OneBallInv, NEW arrived \in BOOLEAN,
         mode = "autonomous", selectedAuto = "oneBall"
  PROVE  OneBallRan(RunOneBall(Bundle, arrived).s, arrived)
<1> DEFINE s == Bundle
           t == RunOneBall(s, arrived).s
<1>1. s \in BundleType
  BY DEF RoutineTypes, AutoTypeOK, Bundle, BundleType, Coroutine
<1>2. /\ s.co = co /\ s.timer = timer /\ s.drive = drive /\ s.driveFresh = driveFresh
      /\ s.intakeMotor = intakeMotor /\ s.armDown = armDown
  BY DEF Bundle
<1>3. driveFresh \in BOOLEAN /\ timer \in Int /\ ShootTicks \in Int
  BY ShootAssumption DEF RoutineTypes, AutoTypeOK
<1> HIDE DEF s
<1>4. CASE ~co["oneBall"].wasRunning
  <2>1. Rolling(t) /\ t.timer = 0 /\ t.driveFresh = driveFresh /\ t.armDown = armDown
    BY <1>1, <1>2, <1>4, OneBallBegins
  <2>2. periodTime = 0 /\ driveFresh = FALSE
    BY <1>3, <1>4 DEF OneBallInv
  <2> HIDE DEF t
  <2>3. QED
    BY <1>4, <2>1, <2>2 DEF OneBallRan, s, t
<1>5. CASE co["oneBall"].wasRunning
  <2>1. Running("oneBall") /\ co["oneBall"].at # "begin"
    BY <1>5 DEF Running, OneBallInv
  <2>2. co["oneBall"] = Suspended(co["oneBall"].at) /\ co["oneBall"].at \in Labels
    <3>1. co["oneBall"] \in Coroutine
      BY Names DEF RoutineTypes, AutoTypeOK, Coroutine
    <3>2. co["oneBall"] = [wasRunning |-> co["oneBall"].wasRunning, at |-> co["oneBall"].at]
      BY <3>1 DEF Coroutine
    <3>3. co["oneBall"].wasRunning = TRUE /\ co["oneBall"].at \in Labels
      BY <1>5, <3>1 DEF Coroutine
    <3>4. QED
      BY <3>2, <3>3, Zenon DEF Suspended
  <2>3. CASE co["oneBall"].at = "shooting"
    <3>1. co["shootBall"] = Suspended("shooting") /\ timer = periodTime /\ driveFresh = FALSE
      BY <1>3, <2>1, <2>3 DEF OneBallInv, WaitsForTheLiving, Suspended
    <3>2. /\ t.timer = timer /\ t.armDown = armDown
          /\ timer < ShootTicks => Rolling(t) /\ t.driveFresh = driveFresh
          /\ timer >= ShootTicks =>
               /\ OnItsWay(t, arrived)
               /\ t.intakeMotor = 0 /\ t.co["shootBall"] = Suspended("ended")
      BY <1>1, <1>2, <2>2, <2>3, <3>1, OneBallShoots
    <3> HIDE DEF t
    <3>3. CASE timer < ShootTicks
      BY <2>3, <3>1, <3>2, <3>3 DEF OneBallRan, s, t
    <3>4. CASE timer >= ShootTicks
      <4>1. periodTime = ShootTicks
        BY <3>1, <3>4, ShootAssumption DEF RoutineTypes
      <4>2. QED
        BY <1>5, <2>3, <3>2, <3>4, <4>1, Suspension, Names DEF OneBallRan, s, t
    <3>5. QED
      BY <1>3, <3>3, <3>4
  <2>4. CASE co["oneBall"].at = "driving"
    <3>1. /\ co["taxi"] = Suspended("driving")
          /\ periodTime = ShootTicks /\ intakeMotor = 0 /\ co["shootBall"].at = "ended"
      BY <2>1, <2>4 DEF OneBallInv, WaitsForTheLiving, Suspended
    <3>2. /\ OnItsWay(t, arrived)
          /\ t.timer = timer /\ t.intakeMotor = intakeMotor
          /\ t.co["shootBall"] = co["shootBall"] /\ t.armDown = armDown
      BY <1>1, <1>2, <2>2, <2>4, <3>1, OneBallDrives
    <3> HIDE DEF t
    <3>3. QED
      BY <1>5, <2>4, <3>1, <3>2 DEF OneBallRan, s, t
  <2>5. CASE co["oneBall"].at \in {"ended", "dead"}
    <3>1. /\ periodTime = ShootTicks /\ intakeMotor = 0 /\ co["shootBall"].at = "ended"
          /\ drive = "zero"
      BY <2>1, <2>5 DEF OneBallInv
    <3>2. co["oneBall"].wasRunning = TRUE
      BY <2>2, Suspension
    <3>3. /\ Moved(t, s, "oneBall", "dead")
          /\ t.co["oneBall"] = Suspended("dead")
          /\ t.co["shootBall"] = co["shootBall"]
      BY <1>1, <1>2, <2>5, <3>2, OneBallStaysOver
    <3> HIDE DEF t
    <3>4. QED
      BY <1>2, <1>5, <2>5, <3>1, <3>3 DEF OneBallRan, Moved, s, t
  <2>6. QED
    BY <2>1, <2>2, <2>3, <2>4, <2>5 DEF Labels
<1>6. QED
  BY <1>4, <1>5

LEMMA AutonomousKeepsOneBall ==
  ASSUME OneBallInv, RoutineTypes, OtherTypes, ModeInv,
         NEW arrived \in BOOLEAN, NEW trigger \in TestTriggers,
         AutonomousRun(arrived, trigger)
  PROVE  OneBallInv' /\ RoutineTypes'
<1> DEFINE t == RunRoutine(selectedAuto, Bundle, arrived, trigger).s
<1>1. /\ mode = "autonomous" /\ Becomes(t) /\ step' = "robotPeriodic"
      /\ UNCHANGED <<ok, mode, selectedAuto, chooser, periodTime>>
  BY DEF AutonomousRun, ModeInv, choiceVars
<1>2. Bundle \in BundleType
  BY DEF RoutineTypes, AutoTypeOK, Bundle, BundleType, Coroutine
<1>3. CASE selectedAuto # "oneBall"
  <2>1. t \in BundleType /\ t.co["oneBall"] = co["oneBall"]
    BY <1>2, <1>3, OthersRun DEF OtherTypes, Bundle
  <2> HIDE DEF t
  <2>2. RoutineTypes'
    BY <1>1, <2>1, AfterARun
  <2>3. OneBallInv'
    BY <1>1, <1>3, <2>1 DEF OneBallInv, WaitsForTheLiving, Running, Becomes
  <2>4. QED
    BY <2>2, <2>3
<1>4. CASE selectedAuto = "oneBall"
  <2>1. t = RunOneBall(Bundle, arrived).s
    BY <1>4 DEF RunRoutine
  <2>2. OneBallRan(t, arrived)
    BY <1>1, <1>4, <2>1, OneBallLoop
  <2> HIDE DEF t
  <2>3. RoutineTypes'
    BY <1>1, <2>2, AfterARun DEF OneBallRan, Rolling, OnItsWay
  <2>4. CASE Rolling(t) /\ t.timer = periodTime /\ t.driveFresh = FALSE
    <3>1. /\ co'["oneBall"].wasRunning = TRUE /\ co'["oneBall"].at = "shooting"
          /\ co'["shootBall"] = [wasRunning |-> TRUE, at |-> "shooting"]
          /\ timer' = periodTime' /\ intakeMotor' = 1 /\ driveFresh' = FALSE
      BY <1>1, <2>4, Suspension, Names DEF Rolling, Becomes, Suspended
    <3>2. QED
      BY <1>1, <2>3, <3>1 DEF OneBallInv, WaitsForTheLiving, Running
  <2>5. CASE OnItsWay(t, arrived) /\ t.intakeMotor = 0
             /\ t.co["shootBall"].at = "ended" /\ periodTime = ShootTicks
    <3>1. /\ co'["oneBall"].wasRunning = TRUE
          /\ co'["oneBall"].at = IF arrived THEN "ended" ELSE "driving"
      BY <1>1, <2>5, Suspension, Names DEF OnItsWay, Becomes
    <3>2. /\ co'["taxi"] = [wasRunning |-> TRUE, at |-> "driving"]
          /\ intakeMotor' = 0 /\ co'["shootBall"].at = "ended" /\ periodTime' = ShootTicks
          /\ drive' = IF arrived THEN "zero" ELSE "path"
      BY <1>1, <2>5 DEF OnItsWay, Becomes, Suspended
    <3>3. QED
      BY <1>1, <2>3, <3>1, <3>2 DEF OneBallInv, WaitsForTheLiving, Running
  <2>6. CASE /\ t.co["oneBall"] = Suspended("dead") /\ t.co["shootBall"].at = "ended"
             /\ t.intakeMotor = 0 /\ t.drive = "zero" /\ periodTime = ShootTicks
    <3>1. /\ co'["oneBall"].wasRunning = TRUE /\ co'["oneBall"].at = "dead"
          /\ intakeMotor' = 0 /\ co'["shootBall"].at = "ended" /\ periodTime' = ShootTicks
          /\ drive' = "zero"
      BY <1>1, <2>6, Suspension, Names DEF Becomes
    <3>2. QED
      BY <1>1, <2>3, <3>1 DEF OneBallInv, WaitsForTheLiving, Running
  <2>7. QED
    BY <2>2, <2>4, <2>5, <2>6 DEF OneBallRan
<1>5. QED
  BY <1>3, <1>4

\* The steps in which no routine runs and no motor of theirs is commanded.
LEMMA QuietStep ==
  ASSUME OneBallInv, RoutineTypes, OtherTypes, ModeInv, DisabledPeriodic \/ RobotPeriodic
  PROVE  OneBallInv' /\ RoutineTypes' /\ OtherTypes'
<1>1. UNCHANGED routineState /\ UNCHANGED chooser /\ step # "autonomous"
  BY DEF DisabledPeriodic, RobotPeriodic, routineState, autoVars, wishVars, choiceVars, historyVars
<1>2. OtherTypes'
  <2>1. CASE DisabledPeriodic
    BY <2>1 DEF DisabledPeriodic, OtherTypes, DSTypeOK, dsVars, armVars, winchVars,
                choiceVars, historyVars
  <2>2. CASE RobotPeriodic
    BY <2>2 DEF RobotPeriodic, ReadArm, OtherTypes, DSTypeOK, dsVars, winchVars,
                choiceVars, historyVars
  <2>3. QED
    BY <2>1, <2>2
<1>3. QED
  BY <1>1, <1>2, NothingForOneBall, NothingForRoutineTypes

LEMMA AutonomousKeepsOthers ==
  ASSUME OtherTypes, NEW arrived, NEW trigger, AutonomousRun(arrived, trigger)
  PROVE  OtherTypes'
<1>1. arm' \in {-downSpeed, 0, midSpeed, upSpeed}
  BY ArmAssumption DEF AutonomousRun, IntakePeriodic, ArmCommand, OtherTypes
<1>2. trimmed' \in BOOLEAN
  BY DEF AutonomousRun
<1>3. QED
  BY <1>1, <1>2 DEF AutonomousRun, OtherTypes, DSTypeOK, dsVars, winchVars, choiceVars

LEMMA TeleopStep ==
  ASSUME OneBallInv, RoutineTypes, OtherTypes, ModeInv,
         TeleopPressed \/ TeleopReleased \/ TeleopHeld
  PROVE  OneBallInv' /\ RoutineTypes' /\ OtherTypes'
<1>1. OneBallInv'
  <2>1. mode' = "teleop" /\ UNCHANGED <<co, ok, chooser, selectedAuto>>
    BY DEF TeleopPressed, TeleopReleased, TeleopHeld, ModeInv, autoVars, choiceVars
  <2>2. QED
    BY <2>1, RestOutsideAutonomous
<1>2. RoutineTypes'
  <2>1. co' = co /\ timer' = timer /\ periodTime' = periodTime
    BY DEF TeleopPressed, TeleopReleased, TeleopHeld, autoVars, historyVars
  <2>2. drive' \in {"zero", "path", "sticks"}
    BY InputAssumption
    DEF TeleopPressed, TeleopReleased, TeleopHeld, autoVars, RoutineTypes, AutoTypeOK
  <2>3. driveFresh' \in BOOLEAN
    BY DEF TeleopPressed, TeleopReleased, TeleopHeld, autoVars, RoutineTypes, AutoTypeOK
  <2>4. armDown' \in BOOLEAN
    BY DEF TeleopPressed, TeleopReleased, TeleopHeld, Pressed, Released, RoutineTypes
  <2>5. intakeMotor' \in -1 .. 1
    <3>1. intakeMotor' \in {intakeMotor} \cup {-1} \cup TriggerAmounts
      BY DEF TeleopPressed, TeleopReleased, TeleopHeld, RollerCommands
    <3>2. TriggerAmounts \subseteq {-1, 0, 1} /\ intakeMotor \in -1 .. 1
      BY InputAssumption DEF RoutineTypes
    <3>3. QED
      BY <3>1, <3>2
  <2>6. QED
    BY <2>1, <2>2, <2>3, <2>4, <2>5 DEF RoutineTypes, AutoTypeOK
<1>3. OtherTypes'
  <2>1. CASE TeleopPressed
    <3>1. arm' \in {-downSpeed, 0, midSpeed, upSpeed}
      BY <2>1, ArmAssumption DEF TeleopPressed, IntakePeriodic, ArmCommand, OtherTypes
    <3>2. DSTypeOK'
      BY <2>1 DEF TeleopPressed, Unread, OtherTypes, DSTypeOK
    <3>3. QED
      BY <2>1, <3>1, <3>2 DEF TeleopPressed, OtherTypes, winchVars, choiceVars, historyVars
  <2>2. CASE TeleopReleased
    <3>1. DSTypeOK'
      BY <2>2 DEF TeleopReleased, Unread, OtherTypes, DSTypeOK
    <3>2. QED
      BY <2>2, <3>1 DEF TeleopReleased, OtherTypes, armVars, winchVars, choiceVars, historyVars
  <2>3. CASE TeleopHeld
    <3>1. /\ winchMotor' \in {-full, 0, 1, full} /\ winchFollower' \in {-full, 0, 1, full}
          /\ winchEncoder' = winchEncoder
      BY <2>3, WinchCommandsTyped DEF TeleopHeld, DriveWinch
    <3>2. trimmed' \in BOOLEAN
      BY <2>3 DEF TeleopHeld
    <3>3. QED
      BY <2>3, <3>1, <3>2 DEF TeleopHeld, OtherTypes, DSTypeOK, dsVars, armVars, choiceVars
  <2>4. QED
    BY <2>1, <2>2, <2>3
<1>4. QED
  BY <1>1, <1>2, <1>3

LEMMA RoutineStarts == Init => RoutineInv
<1> SUFFICES ASSUME Init PROVE RoutineInv
  OBVIOUS
<1>1. co["oneBall"] = Fresh
  BY Names DEF Init, AutoInit
<1>2. OneBallInv
  BY <1>1 DEF Init, OneBallInv, WaitsForTheLiving, Running, Fresh
<1>3. QED
  BY <1>2, TypesStart, ModeStarts DEF RoutineInv

LEMMA RoutineStep == RoutineInv /\ [Next]_vars => RoutineInv'
<1> SUFFICES ASSUME RoutineInv, [Next]_vars PROVE OneBallInv' /\ RoutineTypes' /\ OtherTypes'
  <2>1. OtherTypes' /\ RoutineTypes' => TypeOK'
    BY DEF TypeOK, OtherTypes, RoutineTypes
  <2>2. QED
    BY <2>1, ModeStep DEF RoutineInv
<1>0. OneBallInv /\ RoutineTypes /\ OtherTypes /\ ModeInv
  BY TwoParts DEF RoutineInv
<1>1. CASE Packet
  <2>1. UNCHANGED routineState /\ UNCHANGED <<step, chooser>>
    BY <1>1 DEF Packet, routineState, autoVars, wishVars, loopVars, choiceVars
  <2>2. QED
    BY <1>0, <1>1, <2>1, PacketTypes, NothingForOneBall, NothingForRoutineTypes
<1>2. CASE Choose
  <2>1. /\ UNCHANGED routineState /\ UNCHANGED step
        /\ chooser' \in Options /\ chooser' # "unset"
    BY <1>2, InputAssumption
    DEF Choose, routineState, autoVars, wishVars, loopVars, historyVars, Options
  <2>2. OtherTypes'
    BY <1>0, <1>2, <2>1 DEF Choose, OtherTypes, DSTypeOK, dsVars, armVars, winchVars, loopVars,
                            historyVars
  <2>3. QED
    BY <1>0, <2>1, <2>2, NothingForOneBall, NothingForRoutineTypes
<1>3. CASE World
  BY <1>0, <1>3, WorldKeepsOneBall, WorldTypes
<1>4. CASE SameMode \/ InitWithoutEffect \/ AutonomousInit \/ AutonomousInitFails
  BY <1>0, <1>4, BeginKeepsOneBall, BeginTypes
<1>5. CASE DisabledPeriodic \/ RobotPeriodic
  BY <1>0, <1>5, QuietStep
<1>6. CASE AutonomousPeriodic
  <2>1. PICK arrived \in BOOLEAN, trigger \in TestTriggers : AutonomousRun(arrived, trigger)
    BY <1>6 DEF AutonomousPeriodic
  <2>2. QED
    BY <1>0, <2>1, AutonomousKeepsOneBall, AutonomousKeepsOthers
<1>7. CASE TeleopPressed \/ TeleopReleased \/ TeleopHeld
  BY <1>0, <1>7, TeleopStep
<1>8. CASE UNCHANGED vars
  <2>1. UNCHANGED routineState /\ UNCHANGED <<step, chooser>>
    BY <1>8 DEF vars, routineState, autoVars, wishVars, loopVars, choiceVars, historyVars
  <2>2. OtherTypes'
    BY <1>0, <1>8 DEF vars, OtherTypes, DSTypeOK, dsVars, armVars, winchVars, loopVars,
                      choiceVars, historyVars
  <2>3. QED
    BY <1>0, <2>1, <2>2, NothingForOneBall, NothingForRoutineTypes
<1>9. QED
  BY <1>1, <1>2, <1>3, <1>4, <1>5, <1>6, <1>7, <1>8 DEF Next, Loop

\* Wherever oneBallAuto is cut off, the labels of its coroutines, the timer, the
\* roller and the wheels are what its next resume expects.
THEOREM RoutineAlways == Spec => []RoutineInv
  BY RoutineStarts, RoutineStep, PTL DEF Spec

\* Every variable of the robot program keeps its type, a routine's label included:
\* robot.lua and the routines share the roller, the arm and the drive motors.
THEOREM TypeCorrect == Spec => []TypeOK
<1>1. RoutineInv => TypeOK
  BY DEF RoutineInv
<1>2. QED
  BY <1>1, RoutineAlways, PTL

\* oneBallAuto shoots for its whole second, drives only after that, never waits
\* for a finished routine and ends at rest, whatever it was cut off in before.
THEOREM OneBallCorrect ==
  Spec => [](ShootsFully /\ DrivesOnlyAfterShot /\ WaitsForTheLiving /\ EndsStopped)
<1>1. RoutineInv => ShootsFully /\ DrivesOnlyAfterShot /\ WaitsForTheLiving /\ EndsStopped
  BY DEF RoutineInv, OneBallInv, ShootsFully, DrivesOnlyAfterShot, EndsStopped
<1>2. QED
  BY <1>1, RoutineAlways, PTL

------------------------------------------------------------------------------
(* The bumper *)

\* With nobody at the other controls, and no testAuto, which moves the arm on
\* its own.
BumperAlone == Buttons \subseteq {"RightBumper"} /\ "test" \notin UsedOptions

\* What the arm will be asked to do once the latches are read, in the order in
\* which they are read next, is what the bumper asks for.
BumperInv ==
  /\ RoutineInv
  /\ selectedAuto # "test" /\ chooser # "test"
  /\ ~swapped =>
       LET down == "RightBumper" \in held
           p == "RightBumper" \in pressed
           r == "RightBumper" \in released
       IN down <=> IF step = "released" THEN (armDown /\ ~r) \/ p ELSE (armDown \/ p) /\ ~r

LEMMA BumperLatches ==
  ASSUME BumperAlone, DSTypeOK
  PROVE  /\ held \subseteq {"RightBumper"}
         /\ pressed \subseteq {"RightBumper"} /\ released \subseteq {"RightBumper"}
  BY DEF BumperAlone, DSTypeOK

LEMMA BumperKept ==
  ASSUME BumperInv, RoutineInv', UNCHANGED <<held, pressed, released, armDown, swapped>>,
         step' = step \/ "released" \notin {step, step'},
         selectedAuto' # "test", chooser' # "test"
  PROVE  BumperInv'
  BY DEF BumperInv

LEMMA BumperPacket ==
  ASSUME BumperAlone, BumperInv, RoutineInv', Packet
  PROVE  BumperInv'
<1>1. UNCHANGED <<armDown, step, selectedAuto, chooser>>
  BY DEF Packet, wishVars, loopVars, choiceVars
<1>2. CASE ModePacket /\ UNCHANGED swapped
  BY <1>1, <1>2, BumperKept DEF ModePacket, BumperInv
<1>3. ASSUME NEW now \in SUBSET Buttons, ButtonsPacket(now),
             swapped' = IF SameBumper(now) THEN swapped ELSE Swaps(now)
      PROVE  BumperInv'
  <2>1. /\ held' = now
        /\ pressed' = pressed \cup ((now \ held) \cap EdgeButtons)
        /\ released' = released \cup ((held \ now) \cap EdgeButtons)
    BY <1>3 DEF ButtonsPacket
  <2>2. "RightBumper" \in EdgeButtons
    BY DEF EdgeButtons
  <2>3. CASE SameBumper(now)
    BY <1>1, <1>3, <2>1, <2>3 DEF SameBumper, BumperInv
  <2>4. CASE ~SameBumper(now) /\ "RightBumper" \in now
    BY <1>1, <1>3, <2>1, <2>2, <2>4 DEF SameBumper, Swaps, BumperInv
  <2>5. CASE ~SameBumper(now) /\ "RightBumper" \notin now
    BY <1>1, <1>3, <2>1, <2>2, <2>5 DEF SameBumper, Swaps, BumperInv
  <2>6. QED
    BY <2>3, <2>4, <2>5
<1>4. QED
  BY <1>2, <1>3 DEF Packet

\* No autonomous routine but testAuto moves the arm.
LEMMA BumperInAutonomous ==
  ASSUME BumperInv, RoutineInv', NEW arrived \in BOOLEAN, NEW trigger \in TestTriggers,
         AutonomousRun(arrived, trigger)
  PROVE  BumperInv'
<1> DEFINE t == RunRoutine(selectedAuto, Bundle, arrived, trigger).s
<1>1. /\ step = "autonomous" /\ step' = "robotPeriodic" /\ Becomes(t)
      /\ UNCHANGED <<held, pressed, released, selectedAuto, chooser, swapped>>
  BY DEF AutonomousRun, dsVars, choiceVars
<1>2. /\ RoutineInv /\ OneBallInv /\ RoutineTypes /\ selectedAuto \in Options
      /\ mode = "autonomous" /\ selectedAuto # "test" /\ chooser # "test"
  BY <1>1, TwoParts DEF BumperInv, RoutineInv, OtherTypes, ModeInv
<1>3. t.armDown = armDown
  <2>1. CASE selectedAuto = "oneBall"
    <3>1. t = RunOneBall(Bundle, arrived).s
      BY <2>1 DEF RunRoutine
    <3> HIDE DEF t
    <3>2. QED
      BY <1>2, <2>1, <3>1, OneBallLoop DEF OneBallRan
  <2>2. CASE selectedAuto # "oneBall"
    <3>1. Bundle \in BundleType /\ Bundle.armDown = armDown
      BY <1>2, BundleTyped DEF RoutineInv, Bundle
    <3>2. QED
      BY <1>2, <2>2, <3>1, OthersRun
  <2>3. QED
    BY <2>1, <2>2
<1> HIDE DEF t
<1>4. QED
  BY <1>1, <1>2, <1>3, BumperKept DEF Becomes

LEMMA BumperRead ==
  ASSUME BumperAlone, BumperInv, RoutineInv', TeleopPressed \/ TeleopReleased \/ TeleopHeld
  PROVE  BumperInv'
<1>1. /\ held \subseteq {"RightBumper"}
      /\ pressed \subseteq {"RightBumper"} /\ released \subseteq {"RightBumper"}
  BY BumperLatches DEF BumperInv, RoutineInv, TypeOK
<1>2. CASE TeleopPressed
  <2>1. /\ step = "teleop" /\ step' = "released"
        /\ armDown' = (armDown \/ "RightBumper" \in pressed) /\ "RightBumper" \notin pressed'
        /\ UNCHANGED <<held, released, selectedAuto, chooser, swapped>>
    BY <1>1, <1>2 DEF TeleopPressed, Pressed, Unread, choiceVars, historyVars
  <2>2. QED
    BY <2>1 DEF BumperInv
<1>3. CASE TeleopReleased
  <2>1. /\ step = "released" /\ step' = "held"
        /\ armDown' = (armDown /\ "RightBumper" \notin released) /\ "RightBumper" \notin released'
        /\ UNCHANGED <<held, pressed, selectedAuto, chooser, swapped>>
    BY <1>1, <1>3 DEF TeleopReleased, Released, Unread, choiceVars, historyVars
  <2>2. QED
    BY <2>1 DEF BumperInv
<1>4. CASE TeleopHeld
  <2>1. held \cap {"Start", "Select"} = {}
    BY <1>1
  <2>2. /\ step = "held" /\ step' = "robotPeriodic"
        /\ armDown' = armDown
        /\ UNCHANGED <<held, pressed, released, selectedAuto, chooser, swapped>>
    BY <1>4, <2>1 DEF TeleopHeld, dsVars, choiceVars, BumperInv, RoutineInv, TypeOK
  <2>3. QED
    BY <2>2 DEF BumperInv
<1>5. QED
  BY <1>2, <1>3, <1>4

LEMMA BumperStep == BumperAlone /\ BumperInv /\ [Next]_vars => BumperInv'
<1> SUFFICES ASSUME BumperAlone, BumperInv, [Next]_vars PROVE BumperInv'
  OBVIOUS
<1>0. RoutineInv'
  BY RoutineStep DEF BumperInv
<1>1. CASE Packet
  BY <1>0, <1>1, BumperPacket
<1>2. CASE Choose
  BY <1>0, <1>2, BumperKept
  DEF Choose, dsVars, wishVars, loopVars, historyVars, BumperInv, BumperAlone
<1>3. CASE World
  BY <1>0, <1>3, BumperKept DEF World, dsVars, wishVars, choiceVars, BumperInv
<1>4. CASE SameMode \/ InitWithoutEffect \/ AutonomousInit \/ AutonomousInitFails
  <2>1. /\ step = "start" /\ step' # "released"
        /\ UNCHANGED <<held, pressed, released, armDown, chooser, swapped>>
    BY <1>4 DEF SameMode, InitWithoutEffect, AutonomousInit, AutonomousInitFails, Begin,
                wishVars, BumperInv, RoutineInv, ModeInv
  <2>2. selectedAuto' \in {selectedAuto, chooser}
    BY <1>4 DEF SameMode, InitWithoutEffect, AutonomousInit, AutonomousInitFails
  <2>3. QED
    BY <1>0, <2>1, <2>2, BumperKept DEF BumperInv
<1>5. CASE DisabledPeriodic \/ RobotPeriodic
  BY <1>0, <1>5, BumperKept
  DEF DisabledPeriodic, RobotPeriodic, dsVars, wishVars, choiceVars, historyVars, BumperInv
<1>6. CASE AutonomousPeriodic
  BY <1>0, <1>6, BumperInAutonomous DEF AutonomousPeriodic
<1>7. CASE TeleopPressed \/ TeleopReleased \/ TeleopHeld
  BY <1>0, <1>7, BumperRead
<1>8. CASE UNCHANGED vars
  BY <1>0, <1>8, BumperKept
  DEF vars, dsVars, wishVars, loopVars, choiceVars, historyVars, BumperInv
<1>9. QED
  BY <1>1, <1>2, <1>3, <1>4, <1>5, <1>6, <1>7, <1>8 DEF Next, Loop

\* The arm follows the bumper in every order of presses, releases, readings and
\* changes of mode that does not swap two edges, also through periods of
\* doNothing, taxiAuto and oneBallAuto.
THEOREM BumperObeyed == BumperAlone /\ Spec => []ArmFollowsBumper
<1>1. Init => BumperInv
  BY RoutineStarts DEF Init, DSInit, IntakeInit, BumperInv
<1>2. BumperAlone /\ BumperInv /\ [Next]_vars => (BumperAlone /\ BumperInv)'
  BY BumperStep DEF BumperAlone
<1>3. BumperInv => ArmFollowsBumper
  BY DEF BumperInv, ArmFollowsBumper
<1>4. QED
  BY <1>1, <1>2, <1>3, PTL DEF Spec

------------------------------------------------------------------------------
(* The plan *)

\* The plan's variables, by the phase the routine is in.
LEMMA PlanWhenIdle ==
  ASSUME ~Running("oneBall")
  PROVE  Plan!Idle
  BY DEF Plan!Idle, PlanPhase

LEMMA PlanPhases ==
  ASSUME OneBallInv, RoutineTypes, Running("oneBall")
  PROVE  /\ co["oneBall"].at \in {"shooting", "driving", "ended", "dead"}
         /\ PlanPhase = IF co["oneBall"].at \in {"ended", "dead"} THEN "done"
                        ELSE co["oneBall"].at
<1>1. co["oneBall"].at \in Labels /\ co["oneBall"].at # "begin"
  BY Names DEF RoutineTypes, AutoTypeOK, Running, OneBallInv
<1>2. QED
  BY <1>1 DEF PlanPhase, Labels

\* A routine that runs on without the coroutine being resumed.
LEMMA PlanWaits ==
  ASSUME OneBallInv, RoutineTypes, Running("oneBall"),
         UNCHANGED <<co, drive, intakeMotor, mode, selectedAuto>>,
         periodTime' = periodTime \/ periodTime' \in periodTime + 1 .. ShootTicks
  PROVE  [Plan!PlanNext]_(Plan!planVars)
<1>1. Running("oneBall")' /\ PlanPhase' = PlanPhase /\ PlanPhase # "idle"
  BY PlanPhases DEF Running, PlanPhase
<1>2. QED
  BY <1>1 DEF Plan!PlanNext, Plan!Pass, Plan!planVars

LEMMA PlanRuns ==
  ASSUME RoutineInv, RoutineInv', NEW arrived \in BOOLEAN, NEW trigger \in TestTriggers,
         AutonomousRun(arrived, trigger), Running("oneBall")'
  PROVE  [Plan!PlanNext]_(Plan!planVars)
<1> DEFINE t == RunOneBall(Bundle, arrived).s
<1>0. OneBallInv /\ RoutineTypes /\ OneBallInv' /\ RoutineTypes' /\ ModeInv
  BY DEF RoutineInv, TypeOK, RoutineTypes
<1>1. /\ mode = "autonomous" /\ selectedAuto = "oneBall" /\ Becomes(t)
      /\ UNCHANGED <<mode, selectedAuto, periodTime>>
  BY <1>0 DEF AutonomousRun, RunRoutine, ModeInv, Running, choiceVars
<1>2. OneBallRan(t, arrived)
  BY <1>0, <1>1, OneBallLoop
<1> HIDE DEF t
<1>3. CASE ~co["oneBall"].wasRunning
  <2>1. /\ co'["oneBall"].at = "shooting" /\ intakeMotor' = 1 /\ periodTime = 0
    BY <1>0, <1>1, <1>2, <1>3, Suspension, Names
    DEF OneBallRan, Rolling, Becomes, OneBallInv
  <2>2. /\ ~Running("oneBall") /\ PlanPhase = "idle" /\ PlanPhase' = "shooting"
    BY <1>3, <2>1 DEF Running, PlanPhase
  <2>3. Plan!Start
    BY <1>1, <2>1, <2>2 DEF Plan!Start
  <2>4. QED
    BY <2>3 DEF Plan!PlanNext
<1>4. CASE co["oneBall"].wasRunning
  <2>1. Running("oneBall")
    BY <1>1, <1>4 DEF Running
  <2>2. CASE Rolling(t) /\ co["oneBall"].at = "shooting"
    <3>1. co'["oneBall"].at = "shooting" /\ intakeMotor' = 1 /\ intakeMotor = 1
      BY <1>0, <1>1, <2>1, <2>2, Suspension, Names DEF Rolling, Becomes, OneBallInv
    <3>2. UNCHANGED Plan!planVars
      BY <1>1, <2>1, <2>2, <3>1 DEF Plan!planVars, PlanPhase
    <3>3. QED
      BY <3>2
  <2>3. CASE /\ OnItsWay(t, arrived) /\ t.intakeMotor = 0 /\ periodTime = ShootTicks
             /\ co["oneBall"].at \in {"shooting", "driving"}
    <3>1. /\ co'["oneBall"].at = IF arrived THEN "ended" ELSE "driving"
          /\ drive' = IF arrived THEN "zero" ELSE "path"
          /\ intakeMotor' = 0
      BY <1>1, <2>3, Suspension, Names DEF OnItsWay, Becomes
    <3>2. /\ PlanPhase = co["oneBall"].at
          /\ PlanPhase' = IF arrived THEN "done" ELSE "driving"
      BY <2>1, <2>3, <3>1 DEF PlanPhase
    <3>3. CASE co["oneBall"].at = "shooting"
      <4>1. Plan!FinishShot
        BY <1>1, <2>1, <2>3, <3>1, <3>2, <3>3 DEF Plan!FinishShot, Plan!Leave
      <4>2. QED
        BY <4>1 DEF Plan!PlanNext
    <3>4. CASE co["oneBall"].at = "driving"
      <4>1. drive = "path" /\ intakeMotor = 0
        BY <1>0, <2>1, <3>4 DEF OneBallInv
      <4>2. CASE arrived
        <5>1. Plan!Arrive
          BY <1>1, <2>1, <3>1, <3>2, <3>4, <4>1, <4>2 DEF Plan!Arrive
        <5>2. QED
          BY <5>1 DEF Plan!PlanNext
      <4>3. CASE ~arrived
        BY <1>1, <2>1, <3>1, <3>2, <3>4, <4>1, <4>3 DEF Plan!planVars
      <4>4. QED
        BY <4>2, <4>3
    <3>5. QED
      BY <2>3, <3>3, <3>4
  <2>4. CASE /\ t.co["oneBall"] = Suspended("dead") /\ t.drive = "zero" /\ t.intakeMotor = 0
             /\ co["oneBall"].at \in {"ended", "dead"}
    <3>1. co'["oneBall"].at = "dead" /\ drive' = "zero" /\ intakeMotor' = 0
      BY <1>1, <2>4, Suspension, Names DEF Becomes
    <3>2. drive = "zero" /\ intakeMotor = 0
      BY <1>0, <2>1, <2>4 DEF OneBallInv
    <3>3. PlanPhase = "done" /\ PlanPhase' = "done"
      BY <2>1, <2>4, <3>1 DEF PlanPhase
    <3>4. UNCHANGED Plan!planVars
      BY <1>1, <2>1, <3>1, <3>2, <3>3 DEF Plan!planVars
    <3>5. QED
      BY <3>4
  <2>5. QED
    BY <1>2, <1>4, <2>2, <2>3, <2>4 DEF OneBallRan
<1>5. QED
  BY <1>3, <1>4

LEMMA PlanStep ==
  RoutineInv /\ RoutineInv' /\ [Next]_vars => [Plan!PlanNext]_(Plan!planVars)
<1> SUFFICES ASSUME RoutineInv, RoutineInv', [Next]_vars
             PROVE  [Plan!PlanNext]_(Plan!planVars)
  OBVIOUS
<1>0. OneBallInv /\ RoutineTypes /\ ModeInv /\ OneBallInv'
  BY DEF RoutineInv, TypeOK, RoutineTypes
<1>1. CASE ~Running("oneBall")'
  <2>1. Plan!Idle'
    BY <1>1 DEF Plan!Idle, PlanPhase
  <2>2. QED
    BY <2>1 DEF Plan!PlanNext, Plan!CutOff
<1>2. CASE Running("oneBall")'
  <2>1. mode' = "autonomous" /\ selectedAuto' = "oneBall" /\ co'["oneBall"].wasRunning
    BY <1>2 DEF Running
  <2>2. CASE Packet \/ Choose \/ RobotPeriodic \/ DisabledPeriodic \/ SameMode \/ UNCHANGED vars
    <3>1. UNCHANGED <<co, drive, intakeMotor, mode, selectedAuto, periodTime>>
      <4>1. CASE SameMode
        BY <4>1 DEF SameMode, Begin, wishVars
      <4>2. CASE Packet \/ Choose \/ RobotPeriodic \/ DisabledPeriodic \/ UNCHANGED vars
        BY <4>2 DEF Packet, Choose, RobotPeriodic, DisabledPeriodic, vars, autoVars, wishVars,
                    loopVars, choiceVars, historyVars
      <4>3. QED
        BY <2>2, <4>1, <4>2
    <3>2. Running("oneBall")
      BY <2>1, <3>1 DEF Running
    <3>3. QED
      BY <1>0, <3>1, <3>2, PlanWaits
  <2>3. CASE World
    <3>1. UNCHANGED <<co, drive, intakeMotor, mode, selectedAuto>>
      BY <2>3 DEF World, wishVars, choiceVars
    <3>2. Running("oneBall")
      BY <2>1, <3>1 DEF Running
    <3>3. periodTime' = periodTime \/ periodTime' \in periodTime + 1 .. ShootTicks
      <4>1. PICK dt \in 1 .. MaxLag : periodTime' = Later(periodTime, dt)
        BY <2>3 DEF World
      <4>2. periodTime \in 0 .. ShootTicks
        BY <1>0 DEF RoutineTypes
      <4>3. QED
        BY <4>1, <4>2, TimePasses, ShootAssumption
    <3>4. QED
      BY <1>0, <3>1, <3>2, <3>3, PlanWaits
  <2>4. CASE InitWithoutEffect \/ AutonomousInit \/ AutonomousInitFails
    \* A period that has just begun has run nothing yet.
    <3>1. CASE InitWithoutEffect
      <4>1. selectedAuto' = "doNothing" \/ mode' # "autonomous"
        BY <1>0, <3>1 DEF InitWithoutEffect, Begin, OneBallInv, ModeInv
      <4>2. QED
        BY <2>1, <4>1
    <3>2. CASE AutonomousInit
      <4>1. co' = Reset(Bundle, chooser).co /\ chooser = "oneBall"
        BY <2>1, <3>2 DEF AutonomousInit
      <4>2. co'["oneBall"].wasRunning = FALSE
        BY <1>0, <4>1, Names DEF Reset, Bundle, RoutineTypes, AutoTypeOK
      <4>3. QED
        BY <2>1, <4>2
    <3>3. CASE AutonomousInitFails
      BY <1>0, <2>1, <3>3 DEF AutonomousInitFails, OneBallInv
    <3>4. QED
      BY <2>4, <3>1, <3>2, <3>3
  <2>5. CASE AutonomousPeriodic
    <3>1. PICK arrived \in BOOLEAN, trigger \in TestTriggers : AutonomousRun(arrived, trigger)
      BY <2>5 DEF AutonomousPeriodic
    <3>2. QED
      BY <1>2, <3>1, PlanRuns
  <2>6. CASE TeleopPressed \/ TeleopReleased \/ TeleopHeld
    <3>1. mode' = "teleop"
      BY <1>0, <2>6 DEF TeleopPressed, TeleopReleased, TeleopHeld, ModeInv
    <3>2. QED
      BY <2>1, <3>1
  <2>7. QED
    BY <2>2, <2>3, <2>4, <2>5, <2>6 DEF Next, Loop
<1>3. QED
  BY <1>1, <1>2

\* The robot program implements the plan of oneBallAuto: seen through the phase
\* of its coroutine, every step of the program is a step of the plan.
THEOREM PlanImplemented == Spec => ImplementsPlan
<1>1. Init => Plan!PlanInit
  <2> SUFFICES ASSUME Init PROVE Plan!PlanInit
    OBVIOUS
  <2>1. ~Running("oneBall")
    BY DEF Init, Running
  <2>2. QED
    BY <2>1, PlanWhenIdle DEF Plan!PlanInit
<1>2. RoutineInv /\ RoutineInv' /\ [Next]_vars => [Plan!PlanNext]_(Plan!planVars)
  BY PlanStep
<1>3. QED
  BY <1>1, <1>2, RoutineAlways, PTL DEF Spec, ImplementsPlan, Plan!PlanSpec
==============================================================================
