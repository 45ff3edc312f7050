----------------------------- MODULE AutoRoutines -----------------------------
(***************************************************************************)
(* The autonomous routines of auto/coroutines.lua and the FancyCoroutine   *)
(* objects of utils/teleopcoroutine.lua that run them.                     *)
(*                                                                         *)
(* A FancyCoroutine remembers whether its Lua coroutine was created since  *)
(* the last reset (wasRunning) and where that coroutine is suspended (at). *)
(* run() resumes it up to its next yield, and one routine resumes another  *)
(* inside its own resume, so a run is a function from a state of all of    *)
(* them to the next one, and the value it returns.                         *)
(*                                                                         *)
(* Pure pursuit is represented by what it answers in this tick: whether    *)
(* the end of the path is reached (speed 0), and for testAuto the trigger  *)
(* it calls.  Both are theorems of PurePursuitProofs: speed is 0 exactly   *)
(* at the end, and a tick advances by no more than the search distance,    *)
(* which is less than the distance between two triggers of test.path.      *)
(***************************************************************************)
EXTENDS Intake

CONSTANT ShootTicks     \* cargoTimer's second, in loops

ASSUME ShootAssumption == ShootTicks \in Nat \ {0}

Routines == {"doNothing", "taxi", "shootBall", "oneBall", "test"}
Options == {"doNothing", "taxi", "oneBall", "test"}     \* autoChooser's
Labels == {"begin", "shooting", "driving", "ended", "dead"}
TestTriggers == {"none", "start1", "start3", "end3"}

VARIABLES
  co,          \* routine -> its FancyCoroutine
  timer,       \* loops since shootBall's cargoTimer started, up to ShootTicks
  drive,       \* last command of the drive motors: "zero", "path" or "sticks"
  driveFresh   \* history: that command was given since the mode last changed

autoVars == <<co, timer, drive, driveFresh>>

Fresh == [wasRunning |-> FALSE, at |-> "begin"]

AutoInit ==
  /\ co = [r \in Routines |-> Fresh]
  /\ timer = 0
  /\ drive = "zero"
  /\ driveFresh = FALSE

------------------------------------------------------------------------------
(* FancyCoroutine: everything a run can change, bundled *)

Bundle == [co |-> co, timer |-> timer, drive |-> drive, driveFresh |-> driveFresh,
           armDown |-> armDown, intakeMotor |-> intakeMotor]

\* A wrong reset: the flag is never cleared.
ResetNothing(s, r) == s

\* reset() leaves the old coroutine alone; the next run() replaces it.
Reset(s, r) == [s EXCEPT !.co[r].wasRunning = FALSE]

\* A wrong run(): an old coroutine is taken up again where it is suspended.
ResumedWhereItWas(s, r) == [s EXCEPT !.co[r].wasRunning = TRUE]

\* The first part of run(): the state in which the coroutine is resumed.
Resumed(s, r) ==
  IF s.co[r].wasRunning THEN s
  ELSE [s EXCEPT !.co[r] = [wasRunning |-> TRUE, at |-> "begin"]]

\* The coroutine yields (or returns, at "dead") a value.
Yield(s, r, label, value) == [s |-> [s EXCEPT !.co[r].at = label], value |-> value]

\* What is left of a routine after its last yield: resumed once more it
\* returns nothing, and resumed after that coroutine.resume answers
\* false, "cannot resume dead coroutine", of which run() returns the message.
AfterEnd(s, r) ==
  Yield(s, r, "dead", IF s.co[r].at = "dead" THEN "message" ELSE "nil")

\* Lua's truth: the message of an error is as good as true.
Truthy(value) == value \in {"true", "message"}

------------------------------------------------------------------------------
(* The routines *)

RunDoNothing(s0) == AfterEnd(Resumed(s0, "doNothing"), "doNothing")

\* A wrong end of shootBall: the roller is left on.
RollerLeftOn(s) == s

\* Intake:stop()
RollerStopped(s) == [s EXCEPT !.intakeMotor = 0]

RunShootBall(s0) ==
  LET s  == Resumed(s0, "shootBall")
      at == s.co["shootBall"].at
      rolling(t) == Yield([t EXCEPT !.intakeMotor = 1], "shootBall", "shooting", "true")
  IN CASE at = "begin" -> rolling([s EXCEPT !.timer = 0])
       [] at = "shooting" /\ s.timer < ShootTicks -> rolling(s)
       [] at = "shooting" /\ s.timer >= ShootTicks
            -> Yield(RollerStopped(s), "shootBall", "ended", "false")
       [] at \in {"ended", "dead"} -> AfterEnd(s, "shootBall")

\* A wrong end of the path: the robot drives on.
PursueBeyondEnd(s, arrived) == [s EXCEPT !.drive = "path", !.driveFresh = TRUE]

\* Drivetrain:drive with what pure pursuit answered.
Pursue(s, arrived) ==
  [s EXCEPT !.drive = IF arrived THEN "zero" ELSE "path", !.driveFresh = TRUE]

RunTaxi(s0, arrived) ==
  Yield(Pursue(Resumed(s0, "taxi"), arrived),
        "taxi", "driving", IF arrived THEN "false" ELSE "true")

\* A wrong routine: it takes the other one as the last period left it.
NestAsLeft(s, r) == s

\* A routine resets another one before it runs it in a loop.
Nest(s, r) == Reset(s, r)

\* The two loops of oneBallAuto.  The second is entered in the tick in which
\* the first is left.
RunOneBall(s0, arrived) ==
  LET s  == Resumed(s0, "oneBall")
      at == s.co["oneBall"].at
      driving(t) ==
        LET taxi == RunTaxi(t, arrived)
        IN IF Truthy(taxi.value) THEN Yield(taxi.s, "oneBall", "driving", "true")
           ELSE Yield(taxi.s, "oneBall", "ended", "false")
      shooting(t) ==
        LET shot == RunShootBall(t)
        IN IF Truthy(shot.value) THEN Yield(shot.s, "oneBall", "shooting", "true")
           ELSE driving(Nest(shot.s, "taxi"))
  IN CASE at = "begin"    -> shooting(Nest(s, "shootBall"))
       [] at = "shooting" -> shooting(s)
       [] at = "driving"  -> driving(s)
       [] at \in {"ended", "dead"} -> AfterEnd(s, "oneBall")

\* testAuto's trigger functions.
TestTrigger(s, trigger) ==
  CASE trigger = "start1" -> [s EXCEPT !.armDown = TRUE, !.intakeMotor = -1]
    [] trigger = "start3" -> RollerStopped([s EXCEPT !.armDown = FALSE])
    [] trigger = "end3"   -> [s EXCEPT !.intakeMotor = 1]
    [] trigger = "none"   -> s

RunTest(s0, arrived, trigger) ==
  Yield(Pursue(TestTrigger(Resumed(s0, "test"), trigger), arrived),
        "test", "driving", "nil")

RunRoutine(r, s, arrived, trigger) ==
  CASE r = "doNothing" -> RunDoNothing(s)
    [] r = "taxi"      -> RunTaxi(s, arrived)
    [] r = "oneBall"   -> RunOneBall(s, arrived)
    [] r = "test"      -> RunTest(s, arrived, trigger)

\* The primed variables of a run.
Becomes(s) ==
  /\ co' = s.co
  /\ timer' = s.timer
  /\ drive' = s.drive
  /\ driveFresh' = s.driveFresh
  /\ armDown' = s.armDown
  /\ intakeMotor' = s.intakeMotor

AutoTypeOK ==
  /\ co \in [Routines -> [wasRunning : BOOLEAN, at : Labels]]
  /\ timer \in 0 .. ShootTicks
  /\ drive \in {"zero", "path", "sticks"}
  /\ driveFresh \in BOOLEAN
==============================================================================
