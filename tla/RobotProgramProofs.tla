-------------------------- MODULE RobotProgramProofs --------------------------
(***************************************************************************)
(* Proofs about the whole robot program, for every limit, every step of    *)
(* the motors and every set of buttons.                                    *)
(***************************************************************************)
EXTENDS RobotProgram, TLAPS

USE DEF full, Modes

\* The limits and steps are whole numbers.
LEMMA WinchNumbers == WinchLimit \in Int /\ WinchStep \in Int /\ WinchLimit >= 0 /\ WinchStep > 0
  BY WinchAssumption

\* A few loops of a motion.
LEMMA FewLoops ==
  ASSUME NEW n \in Int
  PROVE  0 * n = 0 /\ 1 * n = n /\ 2 * n = n + n /\ 3 * n = n + n + n
  OBVIOUS

\* What teleopPeriodic commands, wherever the winch is: a motor that is driven
\* inwards is below 0, one that is driven outwards above -WinchLimit, unless
\* the trim button is held.
LEMMA ButtonsKeepLimits ==
  ASSUME NEW buttons, winchEncoder \in Int
  PROVE  LET motor == WinchCommands(buttons).motor
         IN /\ motor \in {-full, 0, 1, full}
            /\ "B" \notin buttons =>
                 /\ motor \in {-full, 0, full}
                 /\ motor = full => winchEncoder < 0
                 /\ motor = -full => winchEncoder > -WinchLimit
<1> DEFINE base == CASE "Start" \in buttons                            -> RunIn
                     [] "Start" \notin buttons /\ "Select" \in buttons -> RunOut
                     [] buttons \cap {"Start", "Select"} = {}          -> Stop
<1>1. /\ base \in [motor : {-full, 0, full}, follower : {-full, 0, full}]
      /\ base.motor = full => winchEncoder < 0
      /\ base.motor = -full => winchEncoder > -WinchLimit
  <2>1. CASE "Start" \in buttons
    <3>1. base = RunIn
      BY <2>1
    <3>2. QED
      BY <3>1, WinchNumbers DEF RunIn, Both
  <2>2. CASE "Start" \notin buttons /\ "Select" \in buttons
    <3>1. base = RunOut
      BY <2>2
    <3>2. QED
      BY <3>1, WinchNumbers DEF RunOut, Both
  <2>3. CASE "Start" \notin buttons /\ "Select" \notin buttons
    <3>1. buttons \cap {"Start", "Select"} = {}
      BY <2>3
    <3>2. base = Stop
      BY <2>3, <3>1
    <3>3. QED
      BY <3>2 DEF Stop, Both
  <2>4. QED
    BY <2>1, <2>2, <2>3
<1> HIDE DEF base
<1>2. WinchCommands(buttons) = CASE "B" \in buttons                        -> RunIn1(base)
                                 [] "B" \notin buttons /\ "X" \in buttons  -> RunIn2(base)
                                 [] buttons \cap {"B", "X"} = {}           -> base
  BY DEF WinchCommands, base
<1>3. CASE "B" \in buttons
  <2>1. WinchCommands(buttons) = RunIn1(base)
    BY <1>2, <1>3
  <2>2. QED
    BY <1>1, <1>3, <2>1 DEF RunIn1
<1>4. CASE "B" \notin buttons /\ "X" \in buttons
  <2>1. WinchCommands(buttons) = RunIn2(base)
    BY <1>2, <1>4
  <2>2. QED
    BY <1>1, <1>4, <2>1 DEF RunIn2
<1>5. CASE "B" \notin buttons /\ "X" \notin buttons
  <2>1. buttons \cap {"B", "X"} = {}
    BY <1>5
  <2>2. WinchCommands(buttons) = base
    BY <1>2, <1>5, <2>1
  <2>3. QED
    BY <1>1, <1>5, <2>2
<1>6. QED
  BY <1>3, <1>4, <1>5

------------------------------------------------------------------------------
(* The mode and the steps of the loop *)

loopState == <<dsMode, mode, settled, step, ok>>

LEMMA ModeStarts == Init => ModeInv
  BY DEF Init, DSInit, ModeInv

LEMMA PacketFacts ==
  ASSUME Packet
  PROVE  /\ UNCHANGED <<winchMotor, winchEncoder, armPosition, armAngle, arm,
                        mode, step, ok, trimmed>>
         /\ UNCHANGED <<dsMode, settled>> \/ ModePacket
<1>1. UNCHANGED <<winchMotor, winchEncoder, armPosition, armAngle, arm,
                  mode, step, ok, trimmed>>
  BY DEF Packet, winchVars, armVars, loopVars
<1>2. CASE \E now \in SUBSET Buttons \ {held} : ButtonsPacket(now)
  BY <1>1, <1>2 DEF ButtonsPacket
<1>3. QED
  BY <1>1, <1>2 DEF Packet

LEMMA ModeStep == ModeInv /\ [Next]_vars => ModeInv'
<1> SUFFICES ASSUME ModeInv, [Next]_vars PROVE ModeInv'
  OBVIOUS
<1>1. CASE Packet
  <2>1. CASE UNCHANGED <<dsMode, settled>>
    BY <1>1, <2>1, PacketFacts DEF ModeInv
  <2>2. CASE ModePacket
    BY <1>1, <2>2, PacketFacts DEF ModeInv, ModePacket
  <2>3. QED
    BY <1>1, <2>1, <2>2, PacketFacts
<1>2. CASE Choose \/ UNCHANGED vars
  BY <1>2 DEF Choose, vars, dsVars, loopVars, ModeInv
<1>3. CASE World
  BY <1>3 DEF World, dsVars, ModeInv
<1>4. CASE SameMode \/ InitWithoutEffect \/ AutonomousInit \/ AutonomousInitFails
  <2>1. Begin
    BY <1>4 DEF SameMode, InitWithoutEffect, AutonomousInit, AutonomousInitFails
  <2>2. QED
    BY <2>1 DEF Begin, ModeInv
<1>5. CASE DisabledPeriodic
  BY <1>5 DEF DisabledPeriodic, dsVars, ModeInv
<1>6. CASE AutonomousPeriodic
  BY <1>6 DEF AutonomousPeriodic, AutonomousRun, dsVars, ModeInv
<1>7. CASE TeleopPressed
  BY <1>7 DEF TeleopPressed, ModeInv
<1>8. CASE TeleopReleased
  BY <1>8 DEF TeleopReleased, ModeInv
<1>9. CASE TeleopHeld
  BY <1>9 DEF TeleopHeld, dsVars, ModeInv
<1>10. CASE RobotPeriodic
  BY <1>10 DEF RobotPeriodic, dsVars, ModeInv
<1>11. QED
  BY <1>1, <1>2, <1>3, <1>4, <1>5, <1>6, <1>7, <1>8, <1>9, <1>10 DEF Next, Loop

\* A loop belongs to one mode from its beginning to its end, and what the
\* driver station commands meanwhile is the next loop's.
THEOREM ModesCorrect == Spec => []ModeInv
  BY ModeStarts, ModeStep, PTL DEF Spec

------------------------------------------------------------------------------
(* The winch *)

LEMMA WinchStartsInside == Init => WinchInv
  BY ModeStarts, WinchNumbers, FewLoops DEF Init, WinchInit, WinchInv, WinchInRange

\* Nothing of the winch or of the loop changes.
LEMMA NothingForWinch ==
  ASSUME WinchInv, UNCHANGED <<winchMotor, winchEncoder, trimmed, loopState>>
  PROVE  WinchInv'
BY DEF WinchInv, ModeInv, WinchInRange, Since, Checked, loopState

\* A change of mode arrives.
LEMMA ModeKeepsWinch ==
  ASSUME WinchInv, ModeInv', ModePacket,
         UNCHANGED <<winchMotor, winchEncoder, mode, step, ok, trimmed>>
  PROVE  WinchInv'
BY WinchNumbers, FewLoops
DEF WinchInv, ModeInv, ModePacket, WinchInRange, Since, Checked

\* A loop begins: the mode is that of the driver station.
LEMMA BeginKeepsWinch ==
  ASSUME WinchInv, ModeInv', Begin
  PROVE  WinchInv'
BY WinchNumbers, FewLoops
DEF WinchInv, ModeInv, Begin, winchVars, WinchInRange, Since, Checked

\* The winch turns, if the robot is enabled.
LEMMA WorldKeepsWinch ==
  ASSUME WinchInv, ModeInv', World
  PROVE  WinchInv'
BY WinchNumbers, FewLoops
DEF WinchInv, ModeInv, World, WinchReach, Enabled, dsVars, WinchInRange, Since, Checked

\* The steps of a loop before and after the winch's command.
LEMMA StepKeepsWinch ==
  ASSUME WinchInv, ModeInv',
         DisabledPeriodic \/ TeleopPressed \/ TeleopReleased \/ RobotPeriodic
  PROVE  WinchInv'
<1>1. CASE DisabledPeriodic
  BY <1>1, WinchNumbers, FewLoops
  DEF WinchInv, ModeInv, DisabledPeriodic, dsVars, winchVars, historyVars, WinchInRange,
      Since, Checked
<1>2. CASE TeleopPressed
  BY <1>2, WinchNumbers, FewLoops
  DEF WinchInv, ModeInv, TeleopPressed, winchVars, historyVars, WinchInRange, Since, Checked
<1>3. CASE TeleopReleased
  BY <1>3, WinchNumbers, FewLoops
  DEF WinchInv, ModeInv, TeleopReleased, winchVars, historyVars, WinchInRange, Since, Checked
<1>4. CASE RobotPeriodic
  BY <1>4, WinchNumbers, FewLoops
  DEF WinchInv, ModeInv, RobotPeriodic, dsVars, winchVars, historyVars, WinchInRange,
      Since, Checked
<1>5. QED
  BY <1>1, <1>2, <1>3, <1>4

\* An autonomous loop commands no winch: one that is still driven is not
\* checked any more.
LEMMA AutonomousKeepsWinch ==
  ASSUME WinchInv, ModeInv', NEW arrived, NEW trigger, AutonomousRun(arrived, trigger)
  PROVE  WinchInv'
<1>1. /\ step = "autonomous" /\ step' = "robotPeriodic"
      /\ trimmed' = (trimmed \/ winchMotor # 0)
      /\ UNCHANGED <<winchMotor, winchEncoder, mode, ok>>
  BY DEF AutonomousRun, winchVars
<1>2. mode = "autonomous" /\ ok
  BY <1>1 DEF WinchInv, ModeInv
<1>3. ASSUME ~trimmed' PROVE winchMotor = 0 /\ WinchInRange'
  <2>1. ~trimmed /\ winchMotor = 0
    BY <1>1, <1>3
  <2>2. QED
    BY <1>1, <2>1 DEF WinchInv, WinchInRange
<1>4. QED
  BY <1>1, <1>2, <1>3 DEF WinchInv

\* The winch is commanded.
LEMMA HeldKeepsWinch ==
  ASSUME WinchInv, ModeInv', TeleopHeld
  PROVE  WinchInv'
<1>1. /\ step = "held" /\ step' = "robotPeriodic"
      /\ winchMotor' = WinchCommands(held).motor
      /\ trimmed' = (trimmed \/ "B" \in held)
      /\ UNCHANGED <<winchEncoder, dsMode, settled, mode, ok>>
  BY DEF TeleopHeld, DriveWinch, dsVars
<1>2. winchEncoder \in Int /\ mode = "teleop" /\ ok
  BY <1>1 DEF WinchInv, ModeInv
<1>3. /\ winchMotor' \in {-full, 0, 1, full}
      /\ "B" \notin held => /\ winchMotor' \in {-full, 0, full}
                            /\ winchMotor' = full => winchEncoder < 0
                            /\ winchMotor' = -full => winchEncoder > -WinchLimit
  BY <1>1, <1>2, ButtonsKeepLimits
<1>4. Since({"robotPeriodic", "world"})' = 0
  BY <1>1, <1>2 DEF Since, Checked
<1>5. ASSUME ~trimmed' PROVE ~trimmed /\ "B" \notin held /\ WinchInRange
  BY <1>1, <1>5 DEF WinchInv
<1>6. WinchInRange'
  BY <1>1, <1>5 DEF WinchInRange
<1>7. QED
  BY <1>1, <1>2, <1>3, <1>4, <1>5, <1>6, WinchNumbers, FewLoops DEF WinchInv

\* However the mode changes, wherever in a loop a packet arrives, and in every
\* combination of the buttons: as long as the trim button and autonomous leave
\* the winch alone, it stays within its limits up to two loops of its motion,
\* because its last command was checked no longer ago than that.
THEOREM WinchSafe == Spec => [](WinchInv /\ WinchInRange)
<1>1. WinchInv /\ [Next]_vars => WinchInv'
  <2> SUFFICES ASSUME WinchInv, [Next]_vars PROVE WinchInv'
    OBVIOUS
  <2>0. ModeInv'
    BY ModeStep DEF WinchInv
  <2>1. CASE Packet
    <3>1. CASE UNCHANGED <<dsMode, settled>>
      BY <2>1, <3>1, PacketFacts, NothingForWinch DEF loopState
    <3>2. CASE ModePacket
      BY <2>0, <2>1, <3>2, PacketFacts, ModeKeepsWinch
    <3>3. QED
      BY <2>1, <3>1, <3>2, PacketFacts
  <2>2. CASE Choose \/ UNCHANGED vars
    BY <2>2, NothingForWinch
    DEF Choose, vars, loopState, dsVars, winchVars, loopVars, historyVars
  <2>3. CASE World
    BY <2>0, <2>3, WorldKeepsWinch
  <2>4. CASE SameMode \/ InitWithoutEffect \/ AutonomousInit \/ AutonomousInitFails
    BY <2>0, <2>4, BeginKeepsWinch
    DEF SameMode, InitWithoutEffect, AutonomousInit, AutonomousInitFails
  <2>5. CASE DisabledPeriodic \/ TeleopPressed \/ TeleopReleased \/ RobotPeriodic
    BY <2>0, <2>5, StepKeepsWinch
  <2>6. CASE AutonomousPeriodic
    BY <2>0, <2>6, AutonomousKeepsWinch DEF AutonomousPeriodic
  <2>7. CASE TeleopHeld
    BY <2>0, <2>7, HeldKeepsWinch
  <2>8. QED
    BY <2>1, <2>2, <2>3, <2>4, <2>5, <2>6, <2>7 DEF Next, Loop
<1>2. WinchInv => WinchInRange
  BY DEF WinchInv, WinchInRange
<1>3. QED
  BY <1>1, <1>2, WinchStartsInside, PTL DEF Spec

------------------------------------------------------------------------------
(* The arm *)

LEMMA ArmNumbers ==
  /\ UpPosition \in Int /\ MidPosition \in Int /\ DownPosition \in Int
  /\ 0 <= UpPosition /\ UpPosition <= MidPosition /\ MidPosition <= DownPosition
  /\ ArmStep \in Int /\ ArmStep > 0 /\ UpPosition < 3 * ArmStep
  BY ArmAssumption

\* The arm is lowered only if it was read above the lower end of its range, and
\* raised only if it was read below the upper one.
LEMMA ArmCommandFacts ==
  ASSUME NEW down, NEW reading \in Int
  PROVE  LET command == ArmCommand(down, reading)
         IN /\ command \in {-downSpeed, 0, midSpeed, upSpeed}
            /\ command < 0 => reading < DownPosition
            /\ command > 0 => reading > UpPosition
<1>1. CASE down
  <2>1. ArmCommand(down, reading) = IF reading < DownPosition THEN -downSpeed ELSE 0
    BY <1>1, ArmNumbers DEF ArmCommand
  <2>2. QED
    BY <2>1 DEF downSpeed, midSpeed, upSpeed
<1>2. CASE ~down
  <2>1. CASE reading > MidPosition
    <3>1. ArmCommand(down, reading) = upSpeed
      BY <1>2, <2>1, ArmNumbers DEF ArmCommand
    <3>2. QED
      BY <2>1, <3>1, ArmNumbers DEF downSpeed, midSpeed, upSpeed
  <2>2. CASE reading > UpPosition /\ reading <= MidPosition
    <3>1. ArmCommand(down, reading) = midSpeed
      BY <1>2, <2>2, ArmNumbers DEF ArmCommand
    <3>2. QED
      BY <2>2, <3>1 DEF downSpeed, midSpeed, upSpeed
  <2>3. CASE reading <= UpPosition
    <3>1. ArmCommand(down, reading) = 0
      BY <1>2, <2>3, ArmNumbers DEF ArmCommand
    <3>2. QED
      BY <3>1 DEF downSpeed, midSpeed, upSpeed
  <2>4. QED
    BY <2>1, <2>2, <2>3, ArmNumbers
<1>3. QED
  BY <1>1, <1>2

LEMMA ArmStartsInside == Init => ArmInv
  BY ModeStarts, ArmNumbers, FewLoops DEF Init, IntakeInit, ArmInv, ArmInRange

\* Nothing of the arm or of the loop changes.
LEMMA NothingForArm ==
  ASSUME ArmInv, UNCHANGED <<armPosition, armAngle, arm, loopState>>
  PROVE  ArmInv'
BY DEF ArmInv, ModeInv, ArmInRange, Since, Checked, loopState

\* A change of mode arrives.
LEMMA ModeKeepsArm ==
  ASSUME ArmInv, ModeInv', ModePacket,
         UNCHANGED <<armPosition, armAngle, arm, mode, step, ok>>
  PROVE  ArmInv'
BY ArmNumbers, FewLoops
DEF ArmInv, ModeInv, ModePacket, ArmInRange, Since, Checked, downSpeed, midSpeed, upSpeed

\* A loop begins.
LEMMA BeginKeepsArm ==
  ASSUME ArmInv, ModeInv', Begin
  PROVE  ArmInv'
BY ArmNumbers, FewLoops
DEF ArmInv, ModeInv, Begin, armVars, ArmInRange, Since, Checked,
    downSpeed, midSpeed, upSpeed

\* The arm turns, if the robot is enabled.
LEMMA WorldKeepsArm ==
  ASSUME ArmInv, ModeInv', World
  PROVE  ArmInv'
<1> DEFINE since == Since({"released", "held", "robotPeriodic", "world"})
<1>1. /\ step = "world" /\ step' = "start"
      /\ armAngle' \in ArmReach(Enabled)
      /\ UNCHANGED <<armPosition, arm, mode, ok, dsMode, settled>>
  BY DEF World, dsVars
<1>2. /\ armAngle \in Int /\ armPosition = armAngle
      /\ arm \in {-downSpeed, 0, midSpeed, upSpeed}
      /\ arm < 0 => armAngle < DownPosition + (1 + since) * ArmStep
      /\ arm > 0 => armAngle > UpPosition - (1 + since) * ArmStep
  BY <1>1 DEF ArmInv
<1>3. /\ since \in {0, 1} /\ since' \in {1, 2}
      /\ dsMode # "disabled" => since' = since + 1
      /\ since' >= since
  BY <1>1 DEF ArmInv, ModeInv, Since, Checked
<1>4. /\ armAngle' \in Int
      /\ arm = 0 \/ dsMode = "disabled" => armAngle' = armAngle
      /\ arm < 0 => armAngle <= armAngle' /\ armAngle' <= armAngle + ArmStep
      /\ arm > 0 => armAngle' <= armAngle /\ armAngle - ArmStep <= armAngle'
  <2>1. CASE dsMode = "disabled" \/ arm = 0
    <3>1. ArmReach(Enabled) = {armAngle}
      BY <1>2, <2>1 DEF ArmReach, Enabled
    <3>2. QED
      BY <1>1, <1>2, <3>1, ArmNumbers
  <2>2. CASE dsMode # "disabled" /\ arm < 0
    <3>1. ArmReach(Enabled) = armAngle .. armAngle + ArmStep
      BY <1>2, <2>2 DEF ArmReach, Enabled, downSpeed, midSpeed, upSpeed
    <3>2. QED
      BY <1>1, <1>2, <2>2, <3>1, ArmNumbers
  <2>3. CASE dsMode # "disabled" /\ arm > 0
    <3>1. ArmReach(Enabled) = armAngle - ArmStep .. armAngle
      BY <1>2, <2>3 DEF ArmReach, Enabled, downSpeed, midSpeed, upSpeed
    <3>2. QED
      BY <1>1, <1>2, <2>3, <3>1, ArmNumbers
  <2>4. QED
    BY <1>2, <2>1, <2>2, <2>3 DEF downSpeed, midSpeed, upSpeed
<1>5. arm < 0 => armAngle' < DownPosition + (1 + since') * ArmStep
  <2>1. CASE dsMode = "disabled"
    BY <1>2, <1>3, <1>4, <2>1, ArmNumbers, FewLoops
  <2>2. CASE dsMode # "disabled"
    BY <1>2, <1>3, <1>4, <2>2, ArmNumbers, FewLoops
  <2>3. QED
    BY <2>1, <2>2
<1>6. arm > 0 => armAngle' > UpPosition - (1 + since') * ArmStep
  <2>1. CASE dsMode = "disabled"
    BY <1>2, <1>3, <1>4, <2>1, ArmNumbers, FewLoops
  <2>2. CASE dsMode # "disabled"
    BY <1>2, <1>3, <1>4, <2>2, ArmNumbers, FewLoops
  <2>3. QED
    BY <2>1, <2>2
<1>7. ArmInRange'
  <2>1. armAngle \in UpPosition - 3 * ArmStep + 1 .. DownPosition + 3 * ArmStep - 1
    BY DEF ArmInv, ArmInRange
  <2>2. CASE arm = 0
    BY <1>4, <2>1, <2>2 DEF ArmInRange
  <2>3. CASE arm < 0
    BY <1>2, <1>3, <1>4, <1>5, <2>1, <2>3, ArmNumbers, FewLoops DEF ArmInRange
  <2>4. CASE arm > 0
    BY <1>2, <1>3, <1>4, <1>6, <2>1, <2>4, ArmNumbers, FewLoops DEF ArmInRange
  <2>5. QED
    BY <1>2, <2>2, <2>3, <2>4 DEF downSpeed, midSpeed, upSpeed
<1>8. armAngle' - armPosition' \in -ArmStep .. ArmStep
  <2>1. /\ armAngle \in Int /\ armPosition' = armAngle
        /\ arm = 0 \/ arm < 0 \/ arm > 0
    BY <1>1, <1>2 DEF downSpeed, midSpeed, upSpeed
  <2>2. armAngle - ArmStep <= armAngle' /\ armAngle' <= armAngle + ArmStep
    BY <1>4, <2>1, ArmNumbers
  <2>3. \A n \in Int : armAngle - ArmStep <= n /\ n <= armAngle + ArmStep
                       => n - armAngle \in -ArmStep .. ArmStep
    BY <2>1, ArmNumbers
  <2>4. QED
    BY <1>4, <2>1, <2>2, <2>3
<1>9. /\ ~ok \/ mode = "none" => arm = 0
      /\ ~ok => armPosition' = armAngle'
  BY <1>1, <1>2, <1>4 DEF ArmInv
<1>10. QED
  BY <1>1, <1>2, <1>4, <1>5, <1>6, <1>7, <1>8, <1>9 DEF ArmInv

\* The arm is commanded by the reading of the loop before.
LEMMA CommandKeepsArm ==
  ASSUME ArmInv, ModeInv', IntakePeriodic,
         step \in {"autonomous", "teleop"}, step' \in {"released", "robotPeriodic"},
         UNCHANGED <<armPosition, armAngle, mode, ok>>
  PROVE  ArmInv'
<1>1. /\ mode = step /\ ok
      /\ armPosition \in Int /\ armAngle \in Int
      /\ armAngle - armPosition \in -ArmStep .. ArmStep
  BY DEF ArmInv, ModeInv
<1>2. /\ arm' \in {-downSpeed, 0, midSpeed, upSpeed}
      /\ arm' < 0 => armPosition < DownPosition
      /\ arm' > 0 => armPosition > UpPosition
  BY <1>1, ArmCommandFacts DEF IntakePeriodic
<1>3. Since({"released", "held", "robotPeriodic", "world"})' = 0
  BY <1>1 DEF Since, Checked
<1>4. ArmInRange'
  BY DEF ArmInv, ArmInRange
<1>5. QED
  BY <1>1, <1>2, <1>3, <1>4, ArmNumbers, FewLoops DEF ArmInv

\* The other steps of a loop; the last of them reads the arm.
LEMMA StepKeepsArm ==
  ASSUME ArmInv, ModeInv',
         DisabledPeriodic \/ TeleopReleased \/ TeleopHeld \/ RobotPeriodic
  PROVE  ArmInv'
<1>1. CASE DisabledPeriodic
  BY <1>1, ArmNumbers, FewLoops
  DEF ArmInv, ModeInv, DisabledPeriodic, dsVars, armVars, ArmInRange, Since, Checked
<1>2. CASE TeleopReleased
  BY <1>2, ArmNumbers, FewLoops
  DEF ArmInv, ModeInv, TeleopReleased, armVars, ArmInRange, Since, Checked
<1>3. CASE TeleopHeld
  BY <1>3, ArmNumbers, FewLoops
  DEF ArmInv, ModeInv, TeleopHeld, dsVars, armVars, ArmInRange, Since, Checked
<1>4. CASE RobotPeriodic
  BY <1>4, ArmNumbers, FewLoops
  DEF ArmInv, ModeInv, RobotPeriodic, ReadArm, dsVars, ArmInRange, Since, Checked
<1>5. QED
  BY <1>1, <1>2, <1>3, <1>4

\* Steered by a reading one loop old, through every change of mode and whatever
\* it is asked for: the arm leaves its range by less than three loops of motion,
\* because its last command was checked no longer ago than that.
THEOREM ArmSafe == Spec => [](ArmInv /\ ArmInRange)
<1>1. ArmInv /\ [Next]_vars => ArmInv'
  <2> SUFFICES ASSUME ArmInv, [Next]_vars PROVE ArmInv'
    OBVIOUS
  <2>0. ModeInv'
    BY ModeStep DEF ArmInv
  <2>1. CASE Packet
    <3>1. CASE UNCHANGED <<dsMode, settled>>
      BY <2>1, <3>1, PacketFacts, NothingForArm DEF loopState
    <3>2. CASE ModePacket
      BY <2>0, <2>1, <3>2, PacketFacts, ModeKeepsArm
    <3>3. QED
      BY <2>1, <3>1, <3>2, PacketFacts
  <2>2. CASE Choose \/ UNCHANGED vars
    BY <2>2, NothingForArm DEF Choose, vars, loopState, dsVars, armVars, loopVars
  <2>3. CASE World
    BY <2>0, <2>3, WorldKeepsArm
  <2>4. CASE SameMode \/ InitWithoutEffect \/ AutonomousInit \/ AutonomousInitFails
    BY <2>0, <2>4, BeginKeepsArm
    DEF SameMode, InitWithoutEffect, AutonomousInit, AutonomousInitFails
  <2>5. CASE DisabledPeriodic \/ TeleopReleased \/ TeleopHeld \/ RobotPeriodic
    BY <2>0, <2>5, StepKeepsArm
  <2>6. CASE AutonomousPeriodic
    BY <2>0, <2>6, CommandKeepsArm DEF AutonomousPeriodic, AutonomousRun
  <2>7. CASE TeleopPressed
    BY <2>0, <2>7, CommandKeepsArm DEF TeleopPressed
  <2>8. QED
    BY <2>1, <2>2, <2>3, <2>4, <2>5, <2>6, <2>7 DEF Next, Loop
<1>2. ArmInv => ArmInRange
  BY DEF ArmInv
<1>3. QED
  BY <1>1, <1>2, ArmStartsInside, PTL DEF Spec
==============================================================================
