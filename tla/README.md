# A TLA+ model of 2022RobotCode

This directory models the robot program of FRC team 2175 for the 2022 season
(`src/` of the repository) in TLA+, checks the models with TLC and proves the
properties that matter most with TLAPS.  Paths below are relative to the root
of the repository.

## Inventory

| Part | Source | State it keeps | Operations | Talks to |
|---|---|---|---|---|
| Lua host | `src/main/cpp/Robot.cpp`, `luahelpers.cpp` | the Lua state, `ok` | `RobotInit`, one callback per robot mode | WPILib's `TimedRobot` loop calls it; it calls `Robot.*` of `robot.lua` and swallows Lua errors |
| Robot program | `src/lua/init.lua`, `robot.lua` | `selectedAuto`, joysticks, chooser, `armPosition` | `robotInit`, `robotPeriodic`, `autonomousInit/Periodic`, `teleopInit/Periodic` | every subsystem, the dashboard, the driver station |
| Auto chooser | `src/lua/wpilib/dashboard_ext.lua` | the option list | `putChooser`, `getSelected` | SmartDashboard |
| Fancy coroutines | `src/lua/utils/teleopcoroutine.lua` | a Lua coroutine, `wasRunning` | `new`, `reset`, `run` | autonomous routines, which nest them |
| Autonomous routines | `src/lua/auto/coroutines.lua` | one coroutine per routine | `doNothing`, `taxi`, `shootBall`, `oneBall`, `auto1`, `auto2`, `test` | pure pursuit, intake, drivetrain, timer |
| Pure pursuit | `src/lua/utils/purepursuit.lua` | `previousClosestPoint`, a PID | `new`, `run` | path, odometry, trigger functions |
| Odometry | `src/lua/utils/purepursuit.lua` | `position`, last encoder distances, `angleOffset` | `trackLocation`, `resetTracking` | drive motors, navX |
| Paths | `src/lua/utils/path.lua` | points, trigger points | `readPath`, `orientPath`, `negated`, path segments | `.path` files written by pathMaker |
| Intake | `src/lua/subsystems/cargo.lua` | `armDown`, `armPosition`, motor outputs | `periodic`, `up`, `down`, `rollIn`, `rollOut`, `stop` | robot program, routines |
| Winch | `src/lua/subsystems/climber.lua` | motor outputs | `runIn`, `runOut`, `runIn1`, `runIn2`, `stop` | robot program |
| Drivetrain | `src/lua/subsystems/drivetrain.lua`, `utils/blendeddrive.lua` | motor outputs | `drive`, `stop` | robot program, routines |
| Numerics | `src/lua/utils/math.lua`, `ramp.lua`, `pid.lua`, `vector.lua`, `slideshow.lua` | PID, ramp and slide state | pure functions and small objects | everybody |
| Log writer | `src/lua/utils/logger.lua` | open file, id counter | `log`, `stop`, `writeLine`, `logData` | log viewer, HTTP server |
| HTTP server | `src/main/cpp/httpserver.cpp` | listening socket | `ProcessRequest` | log files |
| Bindings | `src/main/cpp/*.cpp`, `src/lua/wpilib/*.lua`, `src/bindings/bindings.c` | parsed declarations | parse, resolve base classes, generate C++ and Lua | the build |
| pathMaker | `tools/pathMaker/script.js` | clicked points, line vectors, triggers | click, undo, draw, save, open | `.path` files |
| logViewer | `tools/logViewer/script.js` | events, tracks | nesting events, sorting into tracks | log files |
| Simulator | `simulator/**/*.gd` | devices, stored balls, recordings | connect, send, store, launch, play back | the robot program over HALSIM's web socket |

Behaviours that are hard to get right here:

- the 20 ms loop of `TimedRobot` reads the driver station several times while
  packets arrive on another thread, and the mode can change between any two
  loops: routines are cut off wherever their coroutines are suspended;
- readings are stale: `armPosition` is one loop old, motor controllers answer
  from their last status frame, and a reset of the encoders takes a while;
- the closest point of a path can jump by many points from one tick to the next;
- a Lua error ends a callback, or a coroutine, half way, and is swallowed;
- the path editor's handlers share lists with `draw()` and with asynchronous
  saving and opening;
- the editor measures a path along its segments, the robot counts points an inch
  apart: both round, and a trigger point must survive that;
- the HTTP server reads a log on its own thread while the robot appends to it or
  empties it, the program may lose power anywhere, and the log viewer's answers
  come in any order or never.

What makes each part correct is listed as *hazards* in `PROJECT.json`, each at
its line, with the properties that watch it.

## Modules

| Module | Models | State |
|---|---|---|
| `Trapezoid` | `lerp`, `getTrapezoidSpeed` (`utils/math.lua`) as exact rationals | - |
| `SpeedProfile` | the arguments of the unit test of `getTrapezoidSpeed`, walked along a path | `profile`, `current` |
| `PurePursuit` | `PurePursuit:new`, `run`, `findClosestPoint`, `findGoalPoint` | position, closest point, goal, speed, the routine's trigger functions |
| `Odometry` | `trackLocation`, `resetTracking`, and the motors' frames and zeros as messages | encoders, frames, `lastEncoder`, `position` |
| `DriverStation` | the mode, the buttons and their edge latches (external) | `dsMode`, `held`, `pressed`, `released` |
| `Intake`, `Winch` | `subsystems/cargo.lua`, `subsystems/climber.lua` | motor commands, encoders, `armDown` |
| `AutoRoutines` | `FancyCoroutine` and the routines of `auto/coroutines.lua` | one coroutine per routine, timer, drive command |
| `RobotProgram` | `Robot.cpp`'s loop and every callback of `robot.lua`; composes the four above | the loop's step, mode, chooser |
| `OneBallPlan` | what `oneBallAuto` promises: the abstract specification that `RobotProgram` implements | phase, elapsed time, roller, wheels |
| `PathFile` | what `readPath` and `orientPath` (`utils/path.lua`) make of a file | - |
| `PathMaker` | `tools/pathMaker/script.js`; extends `PathFile` | lists, inputs, picker, loading, writes, files |
| `PathStore` | what the editor promises about files: the abstract specification that `PathMaker` implements | path shown, file chosen, saves on their way, files, path being opened |
| `Logger` | `utils/logger.lua`, with restarts of the program | the logs, the open one, `currentID`, handles |
| `LogViewer` | `getSpacetimeEvents`, `getPointEvents`, `sortIntoTracks`, `getLevels` (`tools/logViewer/script.js`) | - |
| `RobotLogs` | the robot program, the HTTP server's thread (`httpserver.cpp`) and a page of the viewer; composes the two above | program, page, selector, requests on their way, what is drawn |
| `LogService` | what the robot promises to a page that asks for its logs: the abstract specification that `RobotLogs` implements | logs, and what was asked of each slot and answered |
| `MC...` | instances for TLC | |
| `NumberLemmas` | lemmas that the proofs share: least elements, `Max` and `Min`, squares, induction up to a number, functions built step by step | |
| `PurePursuitProofs`, `OdometryProofs`, `RobotProgramProofs`, `RoutineProofs`, `LogViewerProofs`, `RobotLogsProofs`, `PathMakerProofs` | theorems | |

`RobotProgram` EXTENDS `AutoRoutines` (which extends `Intake`), `Winch` and
`DriverStation`.  A loop is a chain of steps `start -> mode -> robotPeriodic ->
world -> start`; in teleop the middle is three steps, because `teleopPeriodic`
looks at the pressed latches, at the released latches and at the held buttons
one after the other, and a packet may arrive in between.  `World` is the time
between two loops: the arm and the winch move with the last command, the timers
run.  Autonomous routines are functions from the state of all coroutines to the
next one, because one `run()` resumes another inside it; `Becomes` assigns the
result.  Pure pursuit inside a routine is reduced to its answer (`arrived`, and
for `testAuto` the trigger called): `StopsCorrect` and `NoShortcutTaken` are what
this rests on.

In `PurePursuit` a tick is `Run` (or `RunFails`, if the trigger loop hits a name
without a function), and between two ticks the robot moves: anywhere nearby in
`Spec` (slip, pushes, drift), towards its goal point in `FollowSpec`.  In
`Odometry` `trackLocation` is two steps, `TrackRead` and `TrackSave`, because it
reads the motors twice.  In `PathMaker` every event handler is an action, and
`savePoints` and `openPoints` are split where they `await`.  A trigger point lies
on one end of its segment, the least and the greatest distance it can have; its
distance is kept in hundredths of an inch, and `TriggersReached` reads the file
with the robot's own operators from `PathFile`.  `Reload` is the browser's: the page
begins again, a write that has not ended is dropped.  The first vector of a path is
`Origin` in every instance: a path elsewhere on the field is the same one, moved.

`OneBallPlan` knows nothing of coroutines: shoot, after a whole second stop the
roller and leave, stand still at the end, or be cut off at any time.
`RobotProgram!Plan` is its instance under a refinement mapping: `PlanPhase` reads
the phase off the labels of the two nested coroutines, the roller and the wheels
are those of the robot while the routine runs.  `ImplementsPlan` is
`Plan!PlanSpec`.

`PathStore` knows nothing of pickers, inputs, lists and `draw()`: a page shows a path,
a save sends the whole of it to the one file that was chosen, saves arrive whole
and in any order, and opening a file shows the whole of what it held.  In
`PathMaker!Store` the path shown is the three lists together (`Content`), the file
chosen is `pointFile`, saves on their way are `writes`, files are `disk`, and what was
read but is not yet shown is `loading`.  A handler that touches no file is `Edit`; a
save whose names are filled in from the inputs changes the path shown in the same
step (`SameButNames`).  `ImplementsStore` is `Store!StoreSpec`.

In `RobotLogs` the logger's actions are those of `Logger`, taken whenever the
program is up.  A request of the page goes through `sent -> (measured ->)
answered`: `readFile` is `Measure` (seek to the end) and `Read` (that many
characters), with the robot's thread in between; the server has one thread, so
nothing else is served meanwhile.  `Boot`, `PowerLoss` and an exception on the
server's thread end and start the program, and take the unanswered requests with
them.  `Listed` and `Loaded` are what follows the page's two `await`s, up to the
line that throws if one does.  What a request was promised (`least`), whether
its log was emptied under it (`cut`), the events as the robot had them (`story`)
and files into which an event of another file was stopped (`strays`) are history.

`LogService` has no thread, no measured size, no program that ends: a log gets a line
or is emptied, and a request that waits is answered with the beginning of a log, or
the names of all, as they are in that one step.  Only a request that was waiting
when its log was emptied is promised less.  `RobotLogs!Service` hides the first half
of `readFile` (`AsAsked`: a measured request still waits), so that `Measure` is a
stutter and `Read` is the answer.  `ImplementsService` is `Service!ServiceSpec`.

Definitions whose comment begins with "A wrong" are variants of the definition
below them that a plausible mistake would have given.  No action uses them; they
are there to show that the properties notice.

## Runs

| Run | Question | Bounds, and why they are enough | Result |
|---|---|---|---|
| `pursuit_drift` | which triggers are called, and where does the path end, if the robot is pushed anywhere? | a path of 8 points and 4 extra ones that comes back beside its start, so that the window, the fallback to point 1 and jumps in both directions all occur; search distance 3 reaches neither end from the middle; routines that lack a function | holds |
| `pursuit_follow` | does a robot that goes where it is steered finish, backwards, round a corner, and call every trigger? | 10 points with lookahead 4 past the corner; both ramps | holds |
| `robot_auto` | do the routines work whenever they are cut off and started again? | one second is 3 units of time and a loop takes up to 2 of them, so a loop can overrun the end of the shot; all routines, no choice made, a program that failed to load | holds |
| `robot_arm` | does the arm stay in range, and where the bumper says? | arm range of 4 with steps of 2, so a step can pass each of the three positions | holds |
| `robot_winch` | does the winch stay within its limits under every combination of its four buttons? | limit 6, step 2: a limit can be met exactly and stepped over | holds |
| `odometry` | what does the robot know of its way if frames, zeros and resets come in any order? | one encoder step in each direction on each side, two headings: a longer way repeats these | holds |
| `path_editor` | what do the page and every file hold whenever `draw()` runs and in whatever order files are saved, opened and written, and can the robot reach the triggers of every file; and is all of it a store of whole paths? | vectors an inch apart, or in one spot; three vectors, so that an undo leaves a segment; a trigger point and an input, one file, one write or read on its way: everything two of them could mix up is one list replaced or written while another handler runs | holds |
| `robot_logs` | is what the page shows what the robot did, and is a log read in two halves as good as one read at once? | two names and two openings, so that a name is used again or two logs are open one after the other; two events, three lines, so that an event is nested, unstopped, or stopped twice; two starts of the program; two requests, which overtake each other; levels for every list of three events within four instants | holds |
| `profile_short` | is a path shorter than its ramps treated as the unit test says? | the test's own arguments | violated |
| `odometry_torn` | do the distances of `trackLocation` add up? | as `odometry` | violated |
| `path_undo` | does an undo take the points of its segment? | vectors 2, and sqrt(2) inches apart | violated |
| `path_names` | does a save keep the names of trigger points? | one file, two vectors | violated |

Bounds that only the models have are constants named `Max...` and `WinchCap`;
their guards cut behaviours short and never force a step.  Grid positions and small
distances stand for inches: 36, 42 and 20 inches of the code are
`SearchDistance`, `LookaheadDistance` and `RampDistance`.

### What the four violations show

1. `profile_short`: `t:assert` compares nothing, so `test.lua` passes although
   `getTrapezoidSpeed` answers `endSpeed` from the beginning when the two ramps
   do not fit (`math.lua:100`).
2. `odometry_torn`: `trackLocation` computes the distance from one reading of
   the motors and remembers another one (`purepursuit.lua:72, 87`); what arrives
   between them is lost.
3. `path_undo`: `points.splice(-length)` removes a rounded number of points, and
   all of them for a length of 0 (`script.js:192`).
4. `path_names`: `savePoints` reads all names from inputs, which an undo removes
   and opening a file does not make (`script.js:294`).

Besides, seen while modelling: the search for the closest point starts from
point 1 (`purepursuit.lua:26`), so the window of "36 inches before and after"
does not hold near the start of a path that comes back to it: the robot is taken to
be at the start, and `CalledOnEveryWay` says that it then calls the triggers of its
way all over again; a bumper that
bounces within one loop leaves the arm in the wrong place (`robot.lua:85, 89`;
`ArmFollowsBumper` exempts it by the history variable `swapped`).  In the log
viewer `getSpacetimeEvents` leaves `undefined` in its list for every finished event
with a parent, so that `getLevels` throws: a log with such an event shows nothing,
and as the first log of a page it leaves the page without any of its handlers
(`Loaded`).  Nothing in the repository says otherwise, so no run claims it.
Stopping an event after `initLogging` was called again writes a second line
without a first one (`strays`).

## Fairness

- `Loop` of `RobotProgram` is weakly fair: `TimedRobot` calls it every 20 ms.
  Packets and the drive team are under no obligation.
- The answer "arrived" is strongly fair: a path that is pursued over and over is
  finished in the end.  That is `Finishes` of `pursuit_follow`.  It is assumed
  only while the routine runs.
- In `FollowSpec` ticks and the motion towards the goal are weakly fair: the loop
  is periodic and driven wheels turn.
- In `RobotLogs` the server (`Serve`) and the page (`Receive`) are weakly fair:
  libuv's and the browser's event loops go on as long as there is something to
  do.  The robot's code, its power and the person at the page owe nothing.

No other run needs fairness.

Deadlock is looked for in every run but `profile_short`, `pursuit_drift` and
`robot_logs`, where the system stops: a walk along a path ends, a routine ends with
an error, and after the last start the power may stay off.

## Proofs

| Theorem | Says, for all values of the constants |
|---|---|
| `PurePursuitProofs!TypeCorrect` | `Spec => []TypeOK` |
| `PurePursuitProofs!TriggersCorrect` | no trigger is missed or early, the last effect is never one from behind, an unknown name stops the routine exactly there |
| `PurePursuitProofs!StopsCorrect` | speed 0 exactly at the last actual point |
| `PurePursuitProofs!NoShortcutTaken` | one tick advances by at most the search distance |
| `PurePursuitProofs!EveryWayCalled` | wherever the robot goes back to, and however often, its next way forward calls exactly the triggers it passes |
| `PurePursuitProofs!ProfileStaysBetween` | the profile stays within the range of its three speeds |
| `RobotProgramProofs!WinchSafe` | `WinchInv`, and so the winch stays within its limits up to two loops of motion |
| `RobotProgramProofs!ArmSafe` | `ArmInv`, and so the arm stays within its range up to three loops of motion |
| `RobotProgramProofs!ModesCorrect` | a loop belongs to one mode; at most one change waits for the next |
| `RoutineProofs!TypeCorrect` | `Spec => []TypeOK` for the whole robot program |
| `RoutineProofs!OneBallCorrect` | the shot lasts its second, the robot drives only after it, no routine waits for a dead one, everything ends at rest |
| `RoutineProofs!RoutineAlways` | `Spec => []RoutineInv`, what the other theorems about routines rest on |
| `RoutineProofs!BumperObeyed` | with the bumper alone and without `testAuto`, the arm is asked to be down exactly while the bumper is held |
| `RoutineProofs!PlanImplemented` | `Spec => ImplementsPlan`: the robot program implements `OneBallPlan` |
| `RobotLogsProofs!TypeCorrect` | `Spec => []TypeOK` for robot, logs, requests, page and server |
| `RobotLogsProofs!LogsTellStories` | what the viewer makes of a log is what the robot did when it wrote it, except in logs into which an event of another file was stopped |
| `LogViewerProofs!EventsApart`, `RobotLogsProofs!LevelsKeepApart` | no two events of the same time are drawn on one level, for every list of events |
| `LogViewerProofs!EventsFewest`, `RobotLogsProofs!LevelsAreFewest` | there are no more levels than events at one moment, for every list in the order of time |
| `RobotLogsProofs!RepliesComplete` | an answer is whole lines from a log's beginning with everything written before it was asked for, unless the log was emptied in between |
| `RobotLogsProofs!ServiceImplemented` | `Spec => ImplementsService`: robot, server and page implement `LogService`, for any number of logs, requests and restarts |
| `RobotLogsProofs!PageConsistent` | events are drawn on levels of their own log; a page with something to select never asks for the log without a name |
| `PathMakerProofs!EditorTyped` | `Spec => []TypeOK` for the editor, its files and its writes |
| `PathMakerProofs!EditorKeepsSegments` | every trigger point lies on a segment of its own path, on the screen and in every file |
| `PathMakerProofs!EditorFindsInputs` | every trigger point that `draw()` has counted has its input |
| `PathMakerProofs!PointsAlwaysCover` | as long as `draw()` runs between two handlers and only segments of whole lengths are undone, the points are those of the segments, for paths of every length |
| `PathMakerProofs!UndoTakesWholeSegments` | an undo takes the points of its segment and no others, unless its length is 0 or no whole number: what `path_undo` violates has no other cause |
| `PathMakerProofs!TriggersAlwaysReached` | the robot counts far enough to reach every trigger point of every such file, for paths of every length and shape |
| `PathMakerProofs!StoreImplemented` | `Spec => ImplementsStore`: the editor implements `PathStore`, in whatever order pickers answer and reads and writes end |
| `OdometryProofs!TrackingExact` | on its heading, the position is exact unless a frame came between two readings |

Assumptions: only the named `ASSUME`s of the modules (a path has at least its
actual points, positions are integers, trigger indexes are naturals, distances
are positive, the arm starts at 0 within its range).

*Triggers.* The four properties alone are not inductive: the loop over triggers
starts at `previousClosestPoint - 1`, which need not be covered by what was called
so far unless the closest point never is ahead of `furthest` by more than one.
`TriggerInv` adds this, that nothing was closest before the first run, and that
everything called has a function; it is there for the proof only.  A run is then one of two lemmas (`RunKeepsTriggerInv`, `FailureKeepsTriggerInv`),
both on facts about the window and on what `Max` and `Min` give for two numbers
(`NumberLemmas`).  Once all triggers have been called, those four cannot see whether
a robot that went back calls them again.  `CalledOnEveryWay` can: the history
variable `way` begins anew wherever the closest point goes back, be it by a push or
because the search fell back to point 1, and the property is inductive as it stands.

*Stopping.* `SpeedIsZeroOnlyAtEnd`: a profile built from positive speeds is
positive wherever it is evaluated before the end, in exact arithmetic.

*Odometry.* The invariant relates `position` to `lastEncoder` and to the reading
of the call in progress; between the two readings it needs that no frame came
(`torn`), which is the exemption of the property.

*Arm and winch.* A position alone says nothing about the next one: what counts
is for how many loops of motion a motor's last command can already have acted.
`Since` answers that from the mode, the step and what the driver station
commands: 0 between the check and `World`, 1 until the next check or for as long
as the robot is disabled, 2 in the loop in which it is enabled but still taken
for disabled.  `ModeInv` (one change of mode per loop, through disabled) excludes
a third.  `WinchInv` and `ArmInv` bound each position by that number of loops, the
arm by one more because its reading is one loop old; TLC checks both in
`robot_winch` and `robot_arm`.

*Routines and the plan.* What `oneBallAuto` has done is not in the labels of the
coroutines alone: `OneBallInv` adds, for each of them, what the timer, the roller
and the drive motors must then be (a suspended shot has its roller on, a routine
under way has a fresh drive command or stands still), and `RoutineInv` the types
and the mode, so that a routine that was cut off is started afresh before it is
run again.  `RoutineInv` is shown inductive one callback at a time and under each
one routine at a time (`RoutineStep`).  The refinement then is one lemma per
phase of the plan: the same steps, seen through `PlanPhase`, are steps of the
plan or stutter.  TLC checks `RoutineInv` and `ImplementsPlan` in `robot_auto`.

*The bumper.* `BumperInv` says what the arm will be asked once the latches are
read, in the order in which they are read next: `(armDown \/ pressed) /\ ~released`
before the first reading of a loop, `(armDown /\ ~released) \/ pressed` between the
two.  Every packet, reading and change of mode preserves it, except the edges that
set `swapped`.  That `BumperAlone` leaves out `testAuto` is needed: its triggers move
the arm themselves.  The lemmas about `oneBallAuto` and `taxiAuto` say that those
do not.

*The path editor.* The invariant says of the lists what it says of every file, of
every write on its way and of what has been read (`PathOK`), so that saving and
opening, in any order, only copy it.  An undo needs a fact about the filter that
keeps the trigger points off the last segment (`TriggersKept`): that all it keeps
are off that segment, and no more than there were.  It is an induction, and the
induction theorems of the library cannot be used here; `LeastNatural` takes their
place (a set of naturals that is not empty has a least element, from the well-founded
order of finite sets), applied to the lengths for which the fact would fail.  For
the inputs, what counts is that an input is there for every number up to
`previousTriggerPointCount`, even if the path has fewer trigger points than that
because a file was opened.

*Points and triggers of a path.* Until `draw()` runs, the points are those of the
path without its last vector; `CoverInv` says so, and says of every file, write and
path being read that its points are those of its own vectors.  It holds while
`hasty` is false.  `NothingNew` is why that is enough: a path gets to the disk from
the disk, or from the page as the page is.  An undo is the one step that computes:
`LastSegment` splits the points of a path into those of its front and those of its
last segment, as many as its length rounded up, which is what `Splice` takes off if
the length is whole and not 0.  `MeasureInv` says of every trigger point that its
distance is no more than the points up to the end of its segment (`Reach`), with no
condition: a length in hundredths of an inch, rounded down, is at most a hundred
times the length in inches, rounded up (`HundredthsFacts`, from the existence of
whole square roots), and sums keep that (`DistanceWithinPoints`).  `TriggersReached`
is the two together.  TLC, given `CoverInv` and `MeasureInv` as
invariants of `path_editor`, finds no violation of them either.

*The store.* Every handler is one step of `PathStore`; what has to be shown is that an
answer of a picker or of a file still fits the page that gets it.  `PickerOK` says
so: while the page asks where to save it has no file, and while it asks what to
open it is opening nothing, as no other input reaches it meanwhile.  `StoreInv` adds
that what was read or is being written has exactly the three lists of a path, from
`NothingNew`.  `StoreSteps` then takes the actions one by one.

*Logs.* `ReplyComplete` speaks of answers; the invariant speaks of every request:
what was promised when it was sent (`least`) is still in the log while it is
under way, and within the measured size afterwards, unless the log was emptied,
which voids the promise (`Promise`).  It rests on one fact about the writer:
without an opening, logs only grow (`Grow`, `LineWritten`).  For the page, the
list of logs is asked for alone and first (`WaitsOK`), so that the selector is
set once and no request without a name can follow it.

*The service.* That the second half of `readFile` yields the beginning of the log as it
is at that moment is the promise again: without an emptying, the measured size is
still within the log, and lines before it have not changed.  Of an emptied log the
answer is part of what is there now or is torn, which the abstract request allows
because it is void.  `ServiceInv` adds that what was measured is a log that is
there, and `StoryInv` that the open file is one of the names.  There is one
lemma per abstract action (`WriteStep`, `EmptyStep`, `AskStep`, `AnswerStep`, `ReadStep`,
`ForgetStep`) and one per actor (`RobotServes`, `ServerServes`, `PageIsServed`).

*What a log tells.* `StoryInv` relates each event as the robot had it to the lines
of its log (`Told`): the first line with its id is its start, it has another one if
and only if it was stopped, and then the last one is that stop.  Ids begin at 0 again
with every program, so it also needs that a file that is being written holds no
id that the program has not given yet, which an opening restores by emptying the
file (`LoggerOK`).  `ViewOfTold` then is what the viewer's first and last line make
of it.

*Levels.* The tracks after each event are a function of the events so far
(`TracksExist`); that no two events of one track overlap, and that no event is on
two tracks, is kept by each placing, which gives `EventsApart`.  For
`EventsFewest`, consider the event that opened the last track: in every track
before it there was an event that overlaps it, and as none of the events so far
begins later, all of those go on at the moment in which it begins.  They are on
different tracks, so there are as many of them as tracks.

Only model-checked is liveness: `Finishes`, `AllTriggersCalled`, `OneBallCompletes`,
`PageSettles`.  That every finding's property is violated is TLC's, too.  The parts
of `StoryInv` and of the invariants of `RobotLogsProofs` and `PathMakerProofs` that
quantify over all sequences cannot be enumerated; TLC checks what follows from them.

## What is left out

- Geometry: angles, rotation of paths, PID, and the blending of two axes.  A
  heading is a goal point (`PurePursuit`) or one of four directions (`Odometry`).
  `run()` and `trackLocation` agree on the heading only because both mode inits
  reset the gyro first; the gyro is not in the repository.
- `auto1Auto` and `auto2Auto`, which the chooser does not offer; `makePath` and its
  segments, which only unit tests call; ramp and slideshow, which no robot code
  uses.
- The drivetrain's blending goes through WPILib's `curvatureDriveIK`, on reals.
- Places in the middle of a segment of the editor; colors; painting; focus of the
  keyboard.
- In the log viewer, heights of nested events, the graphs of data, zooming; of the
  server, the page's own files and answers to bad requests.  What a log line says
  beyond its kind, id, parent and time.
- The simulator: its physics, scenes, area events and web sockets are the Godot
  engine's; what would be left is a handful of assignments.
- The generator of the bindings, a text generator that runs at build time, and its
  output, which forwards calls to WPILib and keeps no state.
- Vendored code (LuaJIT, Metadesk, headers), which is most of the repository's
  lines.

External behaviour that is assumed: motor controllers keep their last command
through being disabled and act on it when enabled; at most one change of mode
arrives per loop, through disabled; the arm is not moved by hand; an option
picked on the dashboard is not taken back; if `init.lua` cannot be loaded the
callbacks do nothing; while a file picker is open the page gets no other input; a line of a log reaches
the file in one write, being shorter than the C library's buffer; names that
`os.date()` gives differ whenever the second does; time begins again with each
program (`getFPGATimestamp` may go on, which changes no order within a log); what the
logger has flushed survives.  `file:flush()` (`logger.lua:25`) hands a line to the
operating system and nothing asks for it to be written to the storage, so `PowerLoss`
is any end of the program, but not one in which the storage loses lines as well.

Bounds that are guards and not constants: the editor reads one file at a time
(`OpenAsks` needs `loading = None`), whereas `script.js:307-312` lets a second opening
begin while a file is being read.  Each replaces the whole path, so the later one
to end would be what is shown.

Cases that a property exempts, and which therefore no run vouches for:

- `ArmFollowsBumper`: a bumper that bounces between the two readings of one loop
  (`robot.lua:89`).  It covers edges that were latched earlier and come late.
- `EventsHaveLevels`: a log with finished nested events, for which `getLevels` fails
  and the levels of the log before stay (`script.js:46` of the log viewer).  It covers
  answers in every order for all other logs.
- `PointsCoverLines`: handlers that act before the `draw()` of the one before
  (`script.js:497` of pathMaker), and undone segments of length 0 or no whole length
  (`script.js:192`), which are what `path_undo` and `UndoTakesItsPoints` are about.
- `AsksByName`: a page whose selector is empty, which asks for `/logs/`
  (`script.js:260` of the log viewer).

## Plan

Done: the path follower, the robot program and its plan, odometry, the path editor
with the robot's side of its files, and its store; logs from the robot to the page,
and the service they amount to.  Every safety and action property of a run that
holds, and every refinement, is a theorem.  What could still be done: the
counterpart of `OneBallPlan` for `taxiAuto` and `testAuto`; the heights of nested
events, once the viewer can show them; `auto1Auto` and `auto2Auto`, once the chooser
offers them.
