-------------------------------- MODULE Logger --------------------------------
(***************************************************************************)
(* The log writer, utils/logger.lua, called by robot code in any order     *)
(* (robot.lua loads it; its callers are the most general ones).            *)
(*                                                                         *)
(* A line is written and flushed at once and is shorter than the C         *)
(* library's buffer, so a reader of the file sees whole lines.  Messages,  *)
(* names and values are left out: an event is known by its id.             *)
(***************************************************************************)
EXTENDS Integers, SequencesExt

CONSTANTS
  Dates,          \* what os.date() can answer, as names of log files
  None,           \* no file
  MaxOpens,       \* bound: log files opened, by all programs
  MaxEvents,      \* bound: calls of log() by one program
  MaxLines,       \* bound: lines of all files together
  MaxTime         \* bound: lines written by one program

ASSUME LoggerAssumption ==
  /\ Dates \subseteq STRING
  /\ None \notin Dates
  /\ {MaxOpens, MaxEvents, MaxLines, MaxTime} \subseteq Nat

VARIABLES
  dirExists,      \* /home/lvuser/logs
  names,          \* the names of the logs in it
  logs,           \* name -> its lines, none for a log that is not there
  file,           \* the name of the open file, None if it is nil
  currentID,
  handles,        \* what log() returned: [id, parent, here]; here: its first
                  \* line is in the open file (history)
  now,            \* getFPGATimestamp(), which is later for every line
  opens,          \* how many files were opened
  story,          \* history: the events of each file, as the robot had them
  strays          \* history: files with the second line of an event only

loggerVars == <<dirExists, names, logs, file, currentID, handles, now, opens, story, strays>>

LoggerInit ==
  /\ dirExists = FALSE
  /\ names = {}
  /\ logs = [d \in Dates |-> <<>>]
  /\ file = None
  /\ currentID = -1
  /\ handles = {}
  /\ now = 0
  /\ opens = 0
  /\ story = {}
  /\ strays = {}

\* A new program: the Lua state is new, the files are still there.
Restart ==
  /\ file' = None
  /\ currentID' = -1
  /\ handles' = {}
  /\ now' = 0
  /\ UNCHANGED <<dirExists, names, logs, opens, story, strays>>

Unfinished == -1
EventLine(id, parent) == [type |-> "event", id |-> id, parent |-> parent, time |-> now]
DataLine == [type |-> "data", time |-> now]

\* A wrong mode of io.open: what is in the file stays.
OpenToAppend(date) == logs[date]

OpenToWrite(date) == <<>>

\* Two programs, or two calls, in the same second have the same name, and the
\* second one empties the file.  Handles of the first one are still good.
InitLogging(date) ==
  /\ opens < MaxOpens
  /\ opens' = opens + 1
  /\ dirExists' = TRUE
  /\ file' = date
  /\ names' = names \cup {date}
  /\ logs' = [logs EXCEPT ![date] = OpenToWrite(date)]
  /\ handles' = {[h EXCEPT !.here = FALSE] : h \in handles}
  /\ story' = {e \in story : e.of # date}
  /\ strays' = strays \ {date}
  /\ UNCHANGED <<currentID, now>>

\* A file that cannot be opened leaves nil, whatever was open before.
InitLoggingFails ==
  /\ file # None \/ ~dirExists
  /\ dirExists' = TRUE
  /\ file' = None
  /\ handles' = {[h EXCEPT !.here = FALSE] : h \in handles}
  /\ UNCHANGED <<names, logs, currentID, now, opens, story, strays>>

LinesWritten == SumFunction([d \in Dates |-> Len(logs[d])])

WriteLine(line) ==
  /\ now < MaxTime
  /\ now' = now + 1
  /\ LinesWritten < MaxLines
  /\ logs' = [logs EXCEPT ![file] = Append(@, line)]

\* A wrong id: it is not counted on.
SameID == currentID

UniqueID == currentID + 1

Log(parent) ==
  /\ file # None
  /\ currentID < MaxEvents - 1
  /\ currentID' = currentID + 1
  /\ WriteLine(EventLine(UniqueID, parent))
  /\ handles' = handles \cup {[id |-> UniqueID, parent |-> parent, here |-> TRUE]}
  /\ story' = story \cup
       {[of |-> file, id |-> currentID + 1, parent |-> parent, start |-> now, end |-> Unfinished]}
  /\ UNCHANGED <<dirExists, names, file, opens, strays>>

\* The id is taken before the line is written.
LogFails ==
  /\ file = None
  /\ currentID < MaxEvents - 1
  /\ currentID' = UniqueID
  /\ UNCHANGED <<dirExists, names, logs, file, handles, now, opens, story, strays>>

\* stop() writes the event again with another time; nobody keeps a robot from
\* stopping it twice.
StopEvent(h) ==
  /\ file # None
  /\ WriteLine(EventLine(h.id, h.parent))
  /\ story' = {IF h.here /\ e.of = file /\ e.id = h.id THEN [e EXCEPT !.end = now] ELSE e :
                 e \in story}
  /\ strays' = IF h.here THEN strays ELSE strays \cup {file}
  /\ UNCHANGED <<dirExists, names, file, currentID, handles, opens>>

\* logData and update; without a file they fail and change nothing.
LogData ==
  /\ file # None
  /\ WriteLine(DataLine)
  /\ UNCHANGED <<dirExists, names, file, currentID, handles, opens, story, strays>>

Parents == {-1} \cup {h.id : h \in handles}

LoggerNext ==
  \/ \E date \in Dates : InitLogging(date)
  \/ InitLoggingFails
  \/ \E parent \in Parents : Log(parent)
  \/ LogFails
  \/ \E h \in handles : StopEvent(h)
  \/ LogData

LoggerTypeOK ==
  /\ dirExists \in BOOLEAN
  /\ names \subseteq Dates
  /\ names # {} => dirExists
  /\ file \in names \cup {None}
  /\ currentID \in -1 .. MaxEvents - 1
  /\ now \in 0 .. MaxTime
==============================================================================
