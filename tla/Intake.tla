-------------------------------- MODULE Intake --------------------------------
(***************************************************************************)
(* The cargo intake, subsystems/cargo.lua: an arm that is raised and       *)
(* lowered by a bang-bang loop around its encoder, and a roller.           *)
(*                                                                         *)
(* armPosition is a global that robotPeriodic fills in at the end of each  *)
(* loop, so Intake:periodic decides on the previous loop's reading.        *)
(* Outputs of the arm motor are in tenths of full output.                  *)
(***************************************************************************)
EXTENDS Integers

CONSTANTS
  UpPosition, MidPosition, DownPosition,
  ArmStep             \* how far the driven arm can turn between two loops

ASSUME ArmAssumption ==
  /\ UpPosition \in Nat /\ MidPosition \in Nat /\ DownPosition \in Nat
  /\ UpPosition <= MidPosition /\ MidPosition <= DownPosition
  /\ ArmStep \in Nat \ {0}
  \* The arm is up, at 0, when the robot is switched on; up is 1 in the code.
  /\ UpPosition < 3 * ArmStep

VARIABLES
  armDown,            \* what the arm is asked to do
  armPosition,        \* the last reading of the encoder
  armAngle,           \* where the arm is: -armEncoder:getPosition()
  arm,                \* last command of the arm motor
  intakeMotor         \* last command of the roller: -1 in, 0 stop, 1 out

upSpeed == 10
midSpeed == 3
downSpeed == 2

\* A wrong comparison at the lower end of the arm's range.
ArmCommandPastDown(down, reading) ==
  CASE down /\ reading <= DownPosition                -> -downSpeed
    [] down /\ reading > DownPosition                 -> 0
    [] ~down /\ reading > UpPosition                  -> upSpeed
    [] ~down /\ reading <= UpPosition                 -> 0

\* The command Intake:periodic gives for a wish and a reading.
ArmCommand(down, reading) ==
  CASE down /\ reading < DownPosition                                -> -downSpeed
    [] down /\ reading >= DownPosition                               -> 0
    [] ~down /\ reading > MidPosition                                -> upSpeed
    [] ~down /\ reading \in UpPosition + 1 .. MidPosition            -> midSpeed
    [] ~down /\ reading <= UpPosition                                -> 0

IntakePeriodic == arm' = ArmCommand(armDown, armPosition)

\* robotPeriodic: armPosition = -armEncoder:getPosition()
ReadArm == armPosition' = armAngle

\* Where the arm can be one loop later: a negative command lowers it.  It is
\* braked when it is not driven (setIdleMode(kBrake)).
ArmReach(enabled) ==
  CASE enabled /\ arm < 0 -> armAngle .. armAngle + ArmStep
    [] enabled /\ arm > 0 -> armAngle - ArmStep .. armAngle
    [] ~enabled \/ arm = 0 -> {armAngle}

IntakeInit ==
  /\ armDown = FALSE
  /\ armPosition = 0
  /\ armAngle = 0
  /\ arm = 0
  /\ intakeMotor = 0
==============================================================================
