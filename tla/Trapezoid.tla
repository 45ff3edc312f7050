------------------------------ MODULE Trapezoid ------------------------------
(***************************************************************************)
(* The speed profile of utils/math.lua: lerp and getTrapezoidSpeed.        *)
(*                                                                         *)
(* Lua computes with doubles.  The profile is compared and ordered here,   *)
(* never rounded, so a speed is an exact rational [num, den], den > 0.     *)
(* Speeds and distances are integers in whatever unit the caller picks     *)
(* (PurePursuit uses quarters of full output, and points of the path).     *)
(***************************************************************************)
EXTENDS Integers

Rational(n, d) == [num |-> n, den |-> d]

\* lerp(a, b, n / d) of two integer speeds, for 0 < d.
Lerp(a, b, n, d) == Rational((d - n) * a + n * b, d)

\* A profile of a robot that starts at startSpeed, runs at middleSpeed and
\* ends at endSpeed.  When the two ramps do not fit in total the code
\* holds endSpeed, and past the end it extrapolates the line start -> end.
TrapezoidSpeed(startSpeed, middleSpeed, endSpeed, total, rampUp, rampDown, current) ==
  IF current < 0
  THEN Rational(startSpeed, 1)
  ELSE IF rampDown + rampUp > total
  THEN IF current < total
       THEN Rational(endSpeed, 1)
       ELSE Lerp(startSpeed, endSpeed, current, total)
  ELSE IF current < rampUp
  THEN Lerp(startSpeed, middleSpeed, current, rampUp)
  ELSE IF current < total - rampDown
  THEN Rational(middleSpeed, 1)
  ELSE IF current < total
  THEN Lerp(middleSpeed, endSpeed,
            current - (total - rampDown),
            rampDown)
  ELSE Rational(endSpeed, 1)

==============================================================================
