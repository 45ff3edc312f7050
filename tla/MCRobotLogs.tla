----------------------------- MODULE MCRobotLogs -----------------------------
(***************************************************************************)
(* An instance of RobotLogs, and the levels of LogViewer for every short   *)
(* list of events.                                                         *)
(***************************************************************************)
EXTENDS RobotLogs

\* Lists of events, given by their starts and ends.
EventLists(ids, times) ==
  {[i \in ids |-> [id |-> i, start |-> t[i][1], end |-> t[i][2]]] :
     t \in [ids -> {u \in times \X times : u[1] <= u[2]}]}

Times == 0 .. 3
Lists == EventLists(1 .. 3, Times)

\* The lists do not depend on the state: they are looked at once.
Once == boots = 0

\* No two events that go on at the same time are drawn on one level, whatever
\* their order in the list.
LevelsApart == Once => \A list \in Lists : Apart(list)

\* Events that take some time and are listed as they begin are drawn on no more
\* levels than there are events at one time.
LevelsFewest == Once => \A list \in Lists : InOrder(list) /\ TakesTime(list) => Fewest(list)
==============================================================================
