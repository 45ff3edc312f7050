----------------------------- MODULE OneBallPlan -----------------------------
(***************************************************************************)
(* What oneBallAuto promises, without its coroutines: shoot for a second,  *)
(* then stop the roller, drive until the end of the path, and stand still. *)
(* It may be cut off at any time and then starts from the beginning.       *)
(* RobotProgram implements this specification: its ImplementsPlan.         *)
(***************************************************************************)
EXTENDS Integers

CONSTANT Second             \* the length of the shot

VARIABLES
  phase,      \* "idle", "shooting", "driving", "done"
  elapsed,    \* time since the routine was started, up to Second
  roller,     \* the roller's output
  wheels      \* the drive motors' command, "any" while they have none of ours

planVars == <<phase, elapsed, roller, wheels>>

Idle == phase = "idle" /\ elapsed = 0 /\ roller = 0 /\ wheels = "any"

PlanInit == Idle

Start ==
  /\ phase = "idle"
  /\ phase' = "shooting"
  /\ roller' = 1
  /\ UNCHANGED <<elapsed, wheels>>

\* Whoever is under way is moving his wheels or standing where he arrived.
Leave ==
  /\ roller' = 0
  /\ \/ phase' = "driving" /\ wheels' = "path"
     \/ phase' = "done" /\ wheels' = "zero"

FinishShot ==
  /\ phase = "shooting"
  /\ elapsed = Second
  /\ Leave
  /\ UNCHANGED elapsed

Arrive ==
  /\ phase = "driving"
  /\ phase' = "done"
  /\ wheels' = "zero"
  /\ UNCHANGED <<elapsed, roller>>

Pass ==
  /\ phase # "idle"
  /\ elapsed' \in elapsed + 1 .. Second
  /\ UNCHANGED <<phase, roller, wheels>>

CutOff == Idle'

PlanNext == Start \/ FinishShot \/ Arrive \/ Pass \/ CutOff
PlanSpec == PlanInit /\ [][PlanNext]_planVars
==============================================================================
