----------------------------- MODULE RobotProgram -----------------------------
(***************************************************************************)
(* The whole robot program: WPILib's TimedRobot loop (external) calls      *)
(* Robot.cpp, which calls the Robot.* functions of robot.lua, which drive  *)
(* the intake, the winch, the drivetrain and the autonomous routines.      *)
(*                                                                         *)
(* A loop is a sequence of steps, between which packets of the driver      *)
(* station may arrive; motors turn and time passes between two loops.      *)
(***************************************************************************)
EXTENDS AutoRoutines, Winch, DriverStation

CONSTANTS
  UsedOptions,        \* the options of autoChooser the drive team picks from
  MaxLag,             \* the longest loop, in the unit of ShootTicks
  WinchCap,           \* bound: how far the model lets the winch run
  StickCommands,      \* drive commands the sticks can give
  TriggerAmounts      \* values of left trigger - right trigger

ASSUME InputAssumption ==
  /\ UsedOptions \subseteq Options
  /\ MaxLag \in Nat \ {0}
  /\ WinchCap \in Nat
  /\ StickCommands \subseteq {"zero", "sticks"} /\ StickCommands # {}
  /\ TriggerAmounts \subseteq {-1, 0, 1} /\ TriggerAmounts # {}

VARIABLES
  ok,                 \* init.lua and robot.lua are loaded: callbacks do something
  mode,               \* TimedRobot: the mode of the last loop, "none" at first
  step,               \* where the loop is
  selectedAuto,
  chooser,            \* the option picked on the dashboard, "unset" at first
  periodTime,         \* history: time since autonomousInit, up to ShootTicks
  trimmed,            \* history: the winch was driven without a limit check
  swapped             \* history: the last two edges of the bumper are read in
                      \* another order than they happened

loopVars == <<ok, mode, step>>
armVars == <<armPosition, armAngle, arm>>
wishVars == <<armDown, intakeMotor>>
choiceVars == <<selectedAuto, chooser>>
historyVars == <<periodTime, trimmed, swapped>>
vars == <<dsVars, armVars, wishVars, winchVars, autoVars,
          loopVars, choiceVars, historyVars>>

Init ==
  /\ DSInit /\ IntakeInit /\ WinchInit /\ AutoInit
  /\ ok \in BOOLEAN
  /\ mode = "none"
  /\ step = "start"
  /\ selectedAuto = "doNothing"
  /\ chooser = "unset"
  /\ periodTime = 0
  /\ trimmed = FALSE
  /\ swapped = FALSE

------------------------------------------------------------------------------
(* The driver station and the dashboard *)

\* An edge of the bumper that the program will read before an earlier one:
\* presses are always read before releases.
Swaps(now) ==
  \/ "RightBumper" \in now \ held /\ "RightBumper" \in released
  \/ "RightBumper" \in held \ now /\ "RightBumper" \in pressed /\ step = "released"

SameBumper(now) == "RightBumper" \in held <=> "RightBumper" \in now

Packet ==
  /\ \/ \E now \in SUBSET Buttons \ {held} :
          /\ ButtonsPacket(now)
          /\ swapped' = IF SameBumper(now) THEN swapped ELSE Swaps(now)
     \/ ModePacket /\ UNCHANGED swapped
  /\ UNCHANGED <<armVars, wishVars, winchVars, autoVars, loopVars, choiceVars,
                 periodTime, trimmed>>

\* The drive team picks an option; nothing takes a choice back.
Choose ==
  /\ dsMode = "disabled"
  /\ chooser' \in UsedOptions \ {chooser}
  /\ UNCHANGED <<dsVars, armVars, wishVars, winchVars, autoVars, loopVars,
                 selectedAuto, historyVars>>

------------------------------------------------------------------------------
(* The world between two loops *)

Later(time, dt) == IF time + dt > ShootTicks THEN ShootTicks ELSE time + dt

World ==
  /\ step = "world"
  /\ step' = "start"
  /\ armAngle' \in ArmReach(Enabled)
  /\ winchEncoder' \in WinchReach(Enabled) \cap (-WinchCap .. WinchCap)
  /\ \E dt \in 1 .. MaxLag :
       /\ timer' = Later(timer, dt)
       /\ periodTime' = Later(periodTime, dt)
  /\ UNCHANGED <<dsVars, armPosition, arm, wishVars, winchMotor, winchFollower,
                 co, drive, driveFresh, ok, mode, choiceVars, trimmed, swapped>>

------------------------------------------------------------------------------
(* TimedRobot's loop: the Init of a new mode, then the Periodic of the mode *)

\* What every loop begins with.  `m_lastMode` is compared with the mode that is
\* sampled once here; a packet that comes later counts in the next loop.
Begin ==
  /\ step = "start"
  /\ mode' = dsMode
  /\ settled' = TRUE
  /\ step' = IF ok THEN dsMode ELSE "world"
  /\ UNCHANGED <<ok, dsMode, held, pressed, released,
                 armVars, wishVars, winchVars, timer, drive, chooser, trimmed, swapped>>

SameMode ==
  /\ mode = dsMode
  /\ Begin
  /\ UNCHANGED <<co, driveFresh, selectedAuto, periodTime>>

\* disabledInit and teleopInit leave every motor at its last command;
\* without a program (ok false) no Init does anything.
InitWithoutEffect ==
  /\ mode # dsMode
  /\ dsMode \in {"disabled", "teleop"} \/ ~ok
  /\ Begin
  /\ driveFresh' = FALSE
  /\ UNCHANGED <<co, selectedAuto, periodTime>>

\* A wrong autonomousInit: no option picked is an option like any other.
AutonomousInitUnpicked ==
  /\ mode # dsMode /\ dsMode = "autonomous" /\ ok
  /\ Begin
  /\ selectedAuto' = chooser
  /\ driveFresh' = FALSE
  /\ periodTime' = 0
  /\ UNCHANGED co

AutonomousInit ==
  /\ mode # dsMode /\ dsMode = "autonomous" /\ ok
  /\ chooser # "unset"
  /\ Begin
  /\ selectedAuto' = chooser
  /\ co' = Reset(Bundle, chooser).co
  /\ driveFresh' = FALSE
  /\ periodTime' = 0

\* With no option picked, getSelected indexes options[0], which is nil: the
\* error ends autonomousInit before it has selected or reset anything.
AutonomousInitFails ==
  /\ mode # dsMode /\ dsMode = "autonomous" /\ ok
  /\ chooser = "unset"
  /\ Begin
  /\ driveFresh' = FALSE
  /\ periodTime' = 0
  /\ UNCHANGED <<co, selectedAuto>>

DisabledPeriodic ==
  /\ step = "disabled"
  /\ step' = "robotPeriodic"
  /\ UNCHANGED <<dsVars, armVars, wishVars, winchVars, autoVars, ok, mode,
                 choiceVars, historyVars>>

AutonomousRun(arrived, trigger) ==
  /\ step = "autonomous"
  /\ step' = "robotPeriodic"
  /\ IntakePeriodic
  /\ Becomes(RunRoutine(selectedAuto, Bundle, arrived, trigger).s)
  /\ trimmed' = (trimmed \/ winchMotor # 0)
  /\ UNCHANGED <<dsVars, armPosition, armAngle, winchVars, ok, mode,
                 choiceVars, periodTime, swapped>>

AutonomousPeriodic ==
  \E arrived \in BOOLEAN, trigger \in TestTriggers : AutonomousRun(arrived, trigger)

------------------------------------------------------------------------------
(* teleopPeriodic, in three steps: each reads the driver station once *)

\* The latches `getButtonPressed(RightBumper) or getTriggerPressed()` reads:
\* the second only if the first was not set.
Unread(latches) ==
  IF "RightBumper" \in latches THEN latches \ {"RightBumper"} ELSE {}

Pressed(down) == down \/ pressed # {}

\* A wrong release: the bumper's is forgotten.
ReleasedTrigger(down) == down /\ "Trigger" \notin released

Released(down) == down /\ released = {}

TeleopPressed ==
  /\ step = "teleop"
  /\ step' = "released"
  /\ IntakePeriodic
  /\ drive' \in StickCommands
  /\ driveFresh' = TRUE
  /\ armDown' = Pressed(armDown)
  /\ pressed' = Unread(pressed)
  /\ UNCHANGED <<dsMode, held, released, settled, armPosition, armAngle,
                 intakeMotor, winchVars, co, timer, ok, mode, choiceVars, historyVars>>

TeleopReleased ==
  /\ step = "released"
  /\ step' = "held"
  /\ armDown' = Released(armDown)
  /\ released' = Unread(released)
  /\ UNCHANGED <<dsMode, held, pressed, settled, armVars, intakeMotor,
                 winchVars, autoVars, ok, mode, choiceVars, historyVars>>

\* rollIn, or stop and then whatever the gamepad's two triggers amount to.
RollerCommands == IF "Trigger" \in held THEN {-1} ELSE TriggerAmounts

TeleopHeld ==
  /\ step = "held"
  /\ step' = "robotPeriodic"
  /\ armDown' = (armDown \/ held \cap {"Start", "Select"} # {})
  /\ DriveWinch(held)
  /\ trimmed' = (trimmed \/ "B" \in held)
  /\ intakeMotor' \in RollerCommands
  /\ UNCHANGED <<dsVars, armVars, autoVars, ok, mode, choiceVars,
                 periodTime, swapped>>

RobotPeriodic ==
  /\ step = "robotPeriodic"
  /\ step' = "world"
  /\ ReadArm
  /\ UNCHANGED <<dsVars, armAngle, arm, wishVars, winchVars, autoVars, ok, mode,
                 choiceVars, historyVars>>

Loop ==
  \/ World
  \/ SameMode \/ InitWithoutEffect \/ AutonomousInit \/ AutonomousInitFails
  \/ DisabledPeriodic \/ AutonomousPeriodic
  \/ TeleopPressed \/ TeleopReleased \/ TeleopHeld
  \/ RobotPeriodic

Next == Packet \/ Choose \/ Loop
Spec == Init /\ [][Next]_vars

\* The loop runs every 20 ms, and a path that is followed long enough is
\* finished (Finishes of PurePursuit).
FairSpec == Spec /\ WF_vars(Loop)
                 /\ SF_vars(\E t \in TestTriggers : AutonomousRun(TRUE, t))

------------------------------------------------------------------------------
TypeOK ==
  /\ DSTypeOK
  /\ AutoTypeOK
  /\ ok \in BOOLEAN
  /\ mode \in Modes \cup {"none"}
  /\ step \in Modes \cup {"start", "released", "held", "robotPeriodic", "world"}
  /\ selectedAuto \in Options
  /\ chooser \in Options \cup {"unset"}
  /\ periodTime \in 0 .. ShootTicks
  /\ armDown \in BOOLEAN /\ arm \in {-downSpeed, 0, midSpeed, upSpeed}
  /\ armPosition \in Int /\ armAngle \in Int
  /\ intakeMotor \in -1 .. 1
  /\ winchMotor \in {-full, 0, 1, full} /\ winchFollower \in {-full, 0, 1, full}
  /\ winchEncoder \in -WinchCap .. WinchCap
  /\ trimmed \in BOOLEAN /\ swapped \in BOOLEAN

\* The routine that is selected has been run in this autonomous period.
Running(r) == mode = "autonomous" /\ selectedAuto = r /\ co[r].wasRunning

\* Every autonomous period shoots for a full second before it drives, however
\* the previous one was cut off and wherever its coroutines were suspended.
ShootsFully ==
  Running("oneBall") /\ co["oneBall"].at # "shooting" => periodTime = ShootTicks

\* The drive motors get a path command only once the roller has been stopped.
DrivesOnlyAfterShot ==
  Running("oneBall") /\ driveFresh /\ drive = "path"
    => intakeMotor = 0 /\ co["shootBall"].at = "ended"

\* A routine that is waiting for another one has that one suspended, not
\* finished: run() of a finished coroutine answers a message, which is true,
\* and the loop around it would never end.
WaitsForTheLiving ==
  Running("oneBall") =>
    /\ co["oneBall"].at = "shooting" =>
         co["shootBall"] = [wasRunning |-> TRUE, at |-> "shooting"]
    /\ co["oneBall"].at = "driving" =>
         co["taxi"] = [wasRunning |-> TRUE, at |-> "driving"]

\* When oneBallAuto is over the robot stands still with its roller off, and
\* stays so while its finished coroutine is resumed again and again.
EndsStopped ==
  Running("oneBall") /\ co["oneBall"].at \in {"ended", "dead"}
    => drive = "zero" /\ intakeMotor = 0

\* The arm overshoots by no more than three loops of its motion: the reading
\* it is steered by is one loop old, a command acts until the next one, and an
\* old command acts again for a loop when the robot is enabled.
ArmInRange ==
  armAngle \in UpPosition - 3 * ArmStep + 1 .. DownPosition + 3 * ArmStep - 1

\* With the bumper alone, the arm is asked to be down exactly while the bumper
\* is held once its edges are read, whatever happened to it while disabled or
\* in autonomous - unless it bounced between two readings: a release and a
\* press read in one loop always leave the arm up, and a press and a release
\* between the two readings of one loop leave it down.
ArmFollowsBumper ==
  step = "held" /\ pressed = {} /\ released = {} /\ ~swapped
    => (armDown <=> "RightBumper" \in held)

\* The winch stays within its soft limits, up to two loops of its motion: one
\* after the check, one with an old command when the robot is enabled.  Only
\* the trim button and an autonomous period that inherits a running winch
\* drive it without a check.
WinchInRange ==
  ~trimmed => winchEncoder \in -(WinchLimit + 2 * WinchStep - 1) .. 2 * WinchStep - 1

\* Where the loop is and what the driver station commands: a loop that is
\* under way belongs to the mode sampled at its beginning, and one change may
\* have arrived since, through disabled.
ModeInv ==
  /\ dsMode \in Modes /\ mode \in Modes \cup {"none"} /\ settled \in BOOLEAN
  /\ mode # "none" => /\ settled => dsMode = mode
                      /\ dsMode # mode => "disabled" \in {dsMode, mode}
  /\ mode = "none" => step = "start"
  /\ step \in Modes => mode = step
  /\ step \in {"released", "held"} => mode = "teleop"
  /\ ~ok => step \in {"start", "world"}

\* How many loops of motion a motor's last command can have acted for, if it
\* was checked in this loop at the step given: none until the next World, one
\* until the next check - or, if the robot was disabled in between, until it is
\* enabled, and then a second one in the loop that still takes it for disabled.
\* That there is no third one is because the mode changes once per loop.
Checked(steps) == mode \in {"autonomous", "teleop"} /\ step \in steps
Since(steps) ==
  CASE Checked(steps) -> 0
    [] \/ mode \in {"autonomous", "teleop"} /\ step = "start"
       \/ mode = "disabled" /\ (step # "start" \/ dsMode = "disabled") -> 1
    [] OTHER -> 2

\* WinchInRange made inductive, with the check in TeleopHeld.  Autonomous does
\* not check: a winch that is still driven there is exempt from then on.
WinchInv ==
  /\ ModeInv
  /\ winchEncoder \in Int /\ winchMotor \in {-full, 0, 1, full}
  /\ ~ok => winchMotor = 0
  /\ ~trimmed =>
       /\ WinchInRange
       /\ winchMotor \in {-full, 0, full}
       /\ mode = "none" => winchMotor = 0
       /\ mode = "autonomous" /\ step # "autonomous" => winchMotor = 0
       /\ LET loops == Since({"robotPeriodic", "world"})
          IN /\ winchMotor = full => winchEncoder < loops * WinchStep
             /\ winchMotor = -full => winchEncoder > -(WinchLimit + loops * WinchStep)

\* ArmInRange made inductive, with the check in IntakePeriodic, which is one
\* loop of motion behind.
ArmInv ==
  /\ ModeInv
  /\ armAngle \in Int /\ armPosition \in Int
  /\ arm \in {-downSpeed, 0, midSpeed, upSpeed}
  /\ ArmInRange
  /\ armAngle - armPosition \in -ArmStep .. ArmStep
  /\ step = "world" \/ ~ok => armPosition = armAngle
  /\ ~ok \/ mode = "none" => arm = 0
  /\ LET loops == 1 + Since({"released", "held", "robotPeriodic", "world"})
     IN /\ arm < 0 => armAngle < DownPosition + loops * ArmStep
        /\ arm > 0 => armAngle > UpPosition - loops * ArmStep

\* If autonomous is never cut off, oneBallAuto gets to its end and stays there.
OneBallCompletes ==
  <>[](dsMode = "autonomous" /\ selectedAuto = "oneBall" /\ mode = "autonomous")
    => <>[](co["oneBall"].at = "dead" /\ drive = "zero" /\ intakeMotor = 0)
------------------------------------------------------------------------------
(* oneBallAuto as its plan sees it: what the coroutines, the roller and the *)
(* wheels hold matters only while the routine is running.                   *)

PlanPhase ==
  CASE ~Running("oneBall") -> "idle"
    [] Running("oneBall") /\ co["oneBall"].at \in {"ended", "dead"} -> "done"
    [] OTHER -> co["oneBall"].at

Plan == INSTANCE OneBallPlan WITH
  Second <- ShootTicks,
  phase <- PlanPhase,
  elapsed <- IF Running("oneBall") THEN periodTime ELSE 0,
  roller <- IF Running("oneBall") THEN intakeMotor ELSE 0,
  wheels <- IF PlanPhase \in {"driving", "done"} THEN drive ELSE "any"

\* The routine implements its plan, however it is cut off, restarted or mixed
\* with teleop, and whatever its nested coroutines were left with.
ImplementsPlan == Plan!PlanSpec
\* Why it does: oneBallAuto is only ever resumed where its nested coroutines
\* are where it left them, because the first run of a period finds it reset and
\* every run until it is cut off is a run of oneBallAuto.
OneBallInv ==
  /\ chooser = "unset" \/ ~ok => selectedAuto = "doNothing"
  /\ co["oneBall"].wasRunning => co["oneBall"].at # "begin"
  /\ mode = "autonomous" /\ selectedAuto = "oneBall" /\ ~co["oneBall"].wasRunning =>
       step = "autonomous" /\ periodTime = 0 /\ ~driveFresh
  /\ WaitsForTheLiving
  /\ Running("oneBall") /\ co["oneBall"].at = "shooting" =>
       timer = periodTime /\ intakeMotor = 1 /\ ~driveFresh
  /\ Running("oneBall") /\ co["oneBall"].at # "shooting" =>
       /\ periodTime = ShootTicks
       /\ intakeMotor = 0 /\ co["shootBall"].at = "ended"
       /\ drive = IF co["oneBall"].at = "driving" THEN "path" ELSE "zero"

RoutineInv == TypeOK /\ ModeInv /\ OneBallInv
==============================================================================
