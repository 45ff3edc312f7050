-------------------------------- MODULE Winch --------------------------------
(***************************************************************************)
(* The climber's winch, subsystems/climber.lua: two motors, an encoder on  *)
(* the first of them, soft limits at 0 (in) and -WinchLimit (out).         *)
(* Outputs are in quarters of full output.                                 *)
(***************************************************************************)
EXTENDS Integers

CONSTANTS
  WinchLimit,         \* 212 in the code
  WinchStep           \* how far a driven motor turns between two loops

ASSUME WinchAssumption == WinchLimit \in Nat /\ WinchStep \in Nat \ {0}

VARIABLES
  winchMotor,         \* last command of the motor with the encoder
  winchFollower,      \* last command of the other motor
  winchEncoder        \* winchEncoder:getPosition()

winchVars == <<winchMotor, winchFollower, winchEncoder>>

full == 4

Both(output) == [motor |-> output, follower |-> output]

\* runIn, runOut and stop: the commands they leave the two motors with.
RunIn == IF winchEncoder < 0 THEN Both(full) ELSE Both(0)
\* RunOut without its limit, as runOut1 and runOut2 are.
RunOutUnchecked == Both(-full)

RunOut == IF -WinchLimit < winchEncoder THEN Both(-full) ELSE Both(0)

Stop == Both(0)

\* runIn1 and runIn2 move one motor at a quarter of the speed, at any position.
RunIn1(w) == [w EXCEPT !.motor = full \div 4]
RunIn2(w) == [w EXCEPT !.follower = full \div 4]

\* teleopPeriodic's winch buttons, in the order the code looks at them.
WinchCommands(held) ==
  LET base == CASE "Start" \in held                          -> RunIn
                [] "Start" \notin held /\ "Select" \in held  -> RunOut
                [] held \cap {"Start", "Select"} = {}        -> Stop
  IN CASE "B" \in held                      -> RunIn1(base)
       [] "B" \notin held /\ "X" \in held   -> RunIn2(base)
       [] held \cap {"B", "X"} = {}         -> base

DriveWinch(held) ==
  /\ winchMotor' = WinchCommands(held).motor
  /\ winchFollower' = WinchCommands(held).follower
  /\ UNCHANGED winchEncoder

\* Where the encoder can be one loop later.
WinchReach(enabled) ==
  CASE enabled /\ winchMotor > 0 -> winchEncoder .. winchEncoder + WinchStep
    [] enabled /\ winchMotor < 0 -> winchEncoder - WinchStep .. winchEncoder
    [] ~enabled \/ winchMotor = 0 -> {winchEncoder}

WinchInit ==
  /\ winchMotor = 0
  /\ winchFollower = 0
  /\ winchEncoder = 0
==============================================================================
