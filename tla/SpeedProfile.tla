---------------------------- MODULE SpeedProfile ----------------------------
(***************************************************************************)
(* The speed profile in use: a robot asks getTrapezoidSpeed for its speed  *)
(* at one point of the path after another.                                 *)
(***************************************************************************)
EXTENDS Trapezoid

CONSTANTS
  Speeds,             \* speeds a profile is built from, in some unit
  Ramps,              \* lengths of ramps
  Totals              \* lengths of paths

VARIABLES
  profile,            \* the arguments that stay the same along a path
  current             \* currentDistance

vars == <<profile, current>>

Profiles == [start : Speeds, middle : Speeds, end : Speeds,
             total : Totals, up : Ramps, down : Ramps]

Speed(p, c) == TrapezoidSpeed(p.start, p.middle, p.end, p.total, p.up, p.down, c)

Init ==
  /\ profile \in Profiles
  /\ current = -1

Advance ==
  /\ current <= profile.total
  /\ current' = current + 1
  /\ UNCHANGED profile

Next == Advance
Spec == Init /\ [][Next]_vars

------------------------------------------------------------------------------
\* What the tests say of two ramps of 2 on a path of 3, from 0.2 to 0.4: 0.2 up
\* to distance 0, 0.3 at 1.5, 0.4 from 3 on (utils/test.lua:46-50).  Speeds are
\* in tenths, distances in halves.
TestedShort == [start |-> 2, middle |-> 8, end |-> 4, total |-> 6, up |-> 4, down |-> 4]
ShortProfileAsTested ==
  profile = TestedShort =>
    LET s == Speed(profile, current)
    IN /\ current <= 0 => s.num = 2 * s.den
       /\ current = 3 => s.num = 3 * s.den
       /\ current >= 6 => s.num = 4 * s.den
==============================================================================
