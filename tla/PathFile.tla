------------------------------- MODULE PathFile -------------------------------
(***************************************************************************)
(* What the robot makes of a file of the path editor: readPath and         *)
(* orientPath of utils/path.lua.  Turning the points onto the robot's own  *)
(* axes changes none of their numbers and is left out; distances are kept  *)
(* in hundredths of an inch.                                               *)
(***************************************************************************)
EXTENDS Integers, SequencesExt

Hundred == 100

\* A wrong key: the distance rounded up, as the list of points starts at 1.
KeyRoundedUp(distance) == distance \div Hundred + 1

\* math.floor(value.distance)
Key(distance) == distance \div Hundred

\* readPath's table: of two trigger points within the same inch the later one
\* stays.
TriggerPointsOf(file) ==
  LET key(i) == Key(file.triggerPoints[i].distance)
      latest(k) == Max({i \in DOMAIN file.triggerPoints : key(i) = k})
  IN [k \in {key(i) : i \in DOMAIN file.triggerPoints} |->
        file.triggerPoints[latest(k)].name]

\* orientPath subtracts the first point from the second.  For a file that is
\* missing readPath answers a list without a `path`, which is an error, too.
Orients(file, missing) == file # missing /\ Len(file.points) >= 2

\* The extra points that orientPath appends are subtracted again.
NumberOfActualPointsOf(file) == Len(file.points)

\* The keys PurePursuit:run can meet: the loop starts before the first point.
KeysMet(file) == 0 .. NumberOfActualPointsOf(file)
==============================================================================
