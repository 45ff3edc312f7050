------------------------------- MODULE Odometry -------------------------------
(***************************************************************************)
(* Where the robot thinks it is: trackLocation and resetTracking of        *)
(* utils/purepursuit.lua.                                                  *)
(*                                                                         *)
(* The motors answer getSelectedSensorPosition from the last status frame  *)
(* they sent, and setSelectedSensorPosition(0) only sends them a command:  *)
(* frames and commands arrive when they please (external).  trackLocation  *)
(* reads the motors once for the distance, and once more for the distances *)
(* it will subtract next time.                                             *)
(*                                                                         *)
(* The robot heads along an axis; lengths are in the distance one side     *)
(* turns in one tick of the model, so that the average of two sides is     *)
(* counted in halves: position is twice the code's.                        *)
(***************************************************************************)
EXTENDS Integers

CONSTANTS
  Headings,     \* the headings the robot can take, in quarter turns
  MaxCount,     \* bound: how far a side of the robot rolls
  MaxPosition   \* bound: how far off a position is followed

ASSUME BoundAssumption ==
  /\ 0 \in Headings /\ Headings \subseteq 0 .. 3
  /\ MaxCount \in Nat /\ MaxPosition \in Nat

VARIABLES
  count,        \* side -> where its encoder is
  frame,        \* side -> position in the last status frame received
  zeroing,      \* sides to which a zero is on its way
  navx,         \* heading, getAngle() in quarter turns
  lastEncoder,  \* side -> lastEncoderDistanceLeft, lastEncoderDistanceRight
  angleOffset,
  position,
  tracking,     \* trackLocation is between its two readings
  torn,         \* history: a frame changed a reading there, since the reset
  turned,       \* history: a heading other than the reset's was used since
  seen          \* history: the first reading of the last call

robotVars == <<count, frame, zeroing, navx>>
vars == <<robotVars, lastEncoder, angleOffset, position, tracking, torn, turned, seen>>

Sides == {"left", "right"}
Zero == [s \in Sides |-> 0]
Sum(d) == d["left"] + d["right"]

\* robotInit has called resetTracking on a robot that was just switched on.
Init ==
  /\ count = Zero
  /\ frame = Zero
  /\ zeroing = {}
  /\ navx = 0
  /\ lastEncoder = Zero
  /\ angleOffset = 0
  /\ position = <<0, 0>>
  /\ tracking = FALSE
  /\ torn = FALSE
  /\ turned = FALSE
  /\ seen = Zero

------------------------------------------------------------------------------
(* The robot and its motors, external *)

Turn ==
  /\ navx' \in Headings \ {navx}
  /\ UNCHANGED <<count, frame, zeroing, lastEncoder, angleOffset, position,
                 tracking, torn, turned, seen>>

Roll(s) ==
  /\ \E d \in {-1, 1} : count' = [count EXCEPT ![s] = @ + d]
  /\ count'[s] \in -MaxCount .. MaxCount
  /\ UNCHANGED <<frame, zeroing, navx, lastEncoder, angleOffset, position,
                 tracking, torn, turned, seen>>

SetToZero(s) ==
  /\ s \in zeroing
  /\ zeroing' = zeroing \ {s}
  /\ count' = [count EXCEPT ![s] = 0]
  /\ UNCHANGED <<frame, navx, lastEncoder, angleOffset, position, tracking,
                 torn, turned, seen>>

StatusFrame(s) ==
  /\ frame[s] # count[s]
  /\ frame' = [frame EXCEPT ![s] = count[s]]
  /\ torn' = (torn \/ tracking)
  /\ UNCHANGED <<count, zeroing, navx, lastEncoder, angleOffset, position,
                 tracking, turned, seen>>

------------------------------------------------------------------------------
(* resetTracking and trackLocation *)

ResetTracking ==
  /\ ~tracking
  /\ lastEncoder' = Zero
  /\ zeroing' = Sides
  /\ position' = <<0, 0>>
  /\ angleOffset' = navx
  /\ torn' = FALSE
  /\ turned' = FALSE
  /\ seen' = Zero
  /\ UNCHANGED <<count, frame, navx, tracking>>

\* sin and cos of a heading in quarter turns, clockwise from the y axis.
Direction(q) == << <<0, 1>>, <<1, 0>>, <<0, -1>>, <<-1, 0>> >>[q + 1]

Heading(q) == (q - angleOffset) % 4

\* The position after a distance in the direction of the heading.
After(distance) ==
  LET d == Direction(Heading(navx))
  IN <<position[1] + d[1] * distance, position[2] + d[2] * distance>>

\* Up to the assignment of position.  That both sides are read in one step
\* loses nothing: a frame of one motor does not disturb the other.
TrackRead ==
  /\ ~tracking
  /\ tracking' = TRUE
  /\ position' = After(Sum(frame) - Sum(lastEncoder))
  /\ \A i \in 1 .. 2 : position'[i] \in -MaxPosition .. MaxPosition
  /\ seen' = frame
  /\ turned' = (turned \/ navx # angleOffset)
  /\ UNCHANGED <<robotVars, lastEncoder, angleOffset, torn>>

\* A wrong second half: the encoders are not read again.
TrackForget ==
  /\ tracking
  /\ tracking' = FALSE
  /\ UNCHANGED <<robotVars, lastEncoder, angleOffset, position, torn, turned, seen>>

\* The rest: the encoders are read again.
TrackSave ==
  /\ tracking
  /\ tracking' = FALSE
  /\ lastEncoder' = frame
  /\ UNCHANGED <<robotVars, angleOffset, position, torn, turned, seen>>

Next ==
  \/ Turn
  \/ \E s \in Sides : Roll(s) \/ SetToZero(s) \/ StatusFrame(s)
  \/ ResetTracking \/ TrackRead \/ TrackSave

Spec == Init /\ [][Next]_vars

------------------------------------------------------------------------------
\* A robot that keeps the heading of its reset is as far ahead as its motors
\* said when trackLocation was last called, even if the first readings after
\* the reset were of before it: that error is taken back by the reading that
\* first shows the zero.  Only a frame between the two readings spoils this.
ExactUnlessTorn ==
  ~turned /\ ~torn => position = <<0, Sum(seen)>>

\* "the distance we've traveled since last time trackLocation was called"
\* (utils/purepursuit.lua:69): straight ahead, these distances add up.
DistancesAddUp == ~turned => position[2] = Sum(seen)
==============================================================================
