------------------------------ MODULE RobotLogs ------------------------------
(***************************************************************************)
(* Logs from the robot to the screen: the robot program writes them        *)
(* (Logger), its HTTP server's thread reads them (httpserver.cpp), and a   *)
(* page of the log viewer (script.js) asks for them and draws them         *)
(* (LogViewer).  The program may be cut off anywhere and started again;    *)
(* answers reach the page in any order.                                    *)
(***************************************************************************)
EXTENDS Logger, LogViewer

CONSTANTS
  MaxBoots,       \* bound: starts of the program
  MaxRequests     \* bound: requests of the page on their way

ASSUME RobotLogsAssumption ==
  /\ {MaxBoots, MaxRequests} \subseteq Nat
  /\ {"", "list"} \cap Dates = {}

VARIABLES
  program,        \* "off", "init" (RobotInit), "up" (the server listens),
                  \* "idle" (init.lua failed: no robot code, no server)
  boots,
  page,           \* "closed", "listing", "loading", "ready", "dead" (an error
                  \* ended the function that sets the page up)
  options,        \* the names in the match selector
  selected,       \* its value
  requests,       \* slots for requests on their way, of records: see Ask
  events,         \* the log of the events on the page: [of, nested]
  levels          \* the log of the levels they are drawn on

programVars == <<program, boots>>
selector == <<options, selected>>
drawn == <<events, levels>>
pageVars == <<page, selector, requests, drawn>>
vars == <<loggerVars, programVars, pageVars>>

List == "list"     \* GET /logs; every other request is GET /logs/<name>
NoName == ""
NoEvents == [of |-> NoName, nested |-> FALSE]

Slots == 1 .. MaxRequests
Request(of, state, least) ==
  [of |-> of, state |-> state, least |-> least, size |-> 0, cut |-> FALSE, reply |-> None]
Free == Request(NoName, "free", 0)
Pending == {n \in Slots : requests[n].state # "free"}
FirstFree == {n \in Slots \ Pending : 1 .. n - 1 \subseteq Pending}

Init ==
  /\ LoggerInit
  /\ program = "off" /\ boots = 0
  /\ page = "closed" /\ options = {} /\ selected = NoName
  /\ requests = [n \in Slots |-> Free] /\ events = NoEvents /\ levels = NoName

------------------------------------------------------------------------------
(* The robot program *)

Boot ==
  /\ program = "off" /\ boots < MaxBoots
  /\ boots' = boots + 1
  /\ program' \in {"init", "idle"}
  /\ Restart
  /\ UNCHANGED pageVars

\* After robotInit, whether that succeeded or not.
StartHTTPServer ==
  /\ program = "init"
  /\ program' = "up"
  /\ UNCHANGED <<loggerVars, boots, pageVars>>

\* A log that is emptied while a request for it is under way: what the request
\* was promised is void, and what was measured is no longer there.
Truncated(date) ==
  [n \in Slots |->
     IF requests[n].of # date \/ requests[n].state = "answered" THEN requests[n]
     ELSE [requests[n] EXCEPT !.least = 0, !.cut = requests[n].state = "measured"]]

RobotCode ==
  /\ program \in {"init", "up"}
  /\ \/ \E date \in Dates : /\ InitLogging(date)
                            /\ requests' = Truncated(date)
     \/ /\ \/ InitLoggingFails
           \/ \E parent \in Parents : Log(parent)
           \/ LogFails
           \/ \E h \in handles : StopEvent(h)
           \/ LogData
        /\ UNCHANGED requests
  /\ UNCHANGED <<programVars, page, selector, drawn>>

\* A wrong page: it goes on waiting for a server that is gone.
StillWaiting == requests

\* Requests without an answer fail when the program ends.
Surviving == [n \in Slots |-> IF requests[n].state = "answered" THEN requests[n] ELSE Free]

\* The functions that wait for an answer that never comes end in an error: the
\* page is dead if it was still being set up.
Ends ==
  /\ program' = "off"
  /\ requests' = Surviving
  /\ page' = IF page \in {"listing", "loading"} /\ requests' # requests THEN "dead" ELSE page
  /\ UNCHANGED <<loggerVars, boots, selector, drawn>>

\* Every line that was flushed is still there.  file:flush() (logger.lua:25) hands
\* it to the operating system and asks for no more: of the storage losing power
\* with the robot nothing is said here.
PowerLoss == program # "off" /\ Ends

------------------------------------------------------------------------------
(* The server: one thread, one request after another, beside the robot's *)

\* What the page will find in an answer: a torn line, finished events that are
\* nested, and some whose parents are missing.
Reply(lines, torn) ==
  [size |-> Len(lines), torn |-> torn,
   nested |-> Nested(lines) # {}, orphans |-> Orphans(lines) # {}]

Answer(n, reply) == requests' = [requests EXCEPT ![n].state = "answered", ![n].reply = reply]
Sent(n) == /\ program = "up"
           /\ requests[n].state = "sent"
           /\ \A k \in Slots : requests[k].state # "measured"

AnswerList(n) ==
  /\ Sent(n)
  /\ requests[n].of = List
  /\ Answer(n, names)
  /\ UNCHANGED <<loggerVars, programVars, page, selector, drawn>>

\* GET /logs/ opens the directory itself as a file.  What its size is depends
\* on the file system: nothing, or more than a string can have.
ReadDirectory(n) ==
  /\ Sent(n)
  /\ requests[n].of = NoName
  /\ \/ /\ Answer(n, Reply(<<>>, FALSE))
        /\ UNCHANGED <<loggerVars, programVars, page, selector, drawn>>
     \/ Ends

\* readFile, first half: seek to the end, and how far that is.
Measure(n) ==
  /\ Sent(n)
  /\ requests[n].of \in names
  /\ requests' = [requests EXCEPT ![n].state = "measured", ![n].size = Len(logs[requests[n].of])]
  /\ UNCHANGED <<loggerVars, programVars, page, selector, drawn>>

\* A wrong read: everything but the last line.
ReadShort(r, torn) == Reply(SubSeq(logs[r.of], 1, r.size - 1), torn)

\* Second half: that many characters.  Of a log that was emptied in between,
\* that may be some lines and a part of one, or all and then zeros.
ReadSize(r, torn) ==
  Reply(IF r.size < Len(logs[r.of]) THEN SubSeq(logs[r.of], 1, r.size) ELSE logs[r.of], torn)

Read(n) ==
  /\ program = "up"
  /\ requests[n].state = "measured"
  /\ \E torn \in BOOLEAN :
       /\ torn => requests[n].cut /\ requests[n].size > 0
       /\ requests[n].size > Len(logs[requests[n].of]) => torn
       /\ Answer(n, ReadSize(requests[n], torn))
  /\ UNCHANGED <<loggerVars, programVars, page, selector, drawn>>

Serve == \E n \in Slots :
  AnswerList(n) \/ ReadDirectory(n) \/ Measure(n) \/ Read(n)

------------------------------------------------------------------------------
(* The page *)

\* least: how much of the log was written when the request was sent.
Ask(n, of) ==
  requests' = [requests EXCEPT ![n] =
                 Request(of, "sent", IF of \in names THEN Len(logs[of]) ELSE 0)]

\* The page itself comes from the server.  Every request begins by going
\* through the directory: without it the iterator throws, nobody catches, and
\* the program ends.
OpenPage ==
  /\ page = "closed" /\ program = "up"
  /\ IF dirExists
     THEN /\ page' = "listing"
          /\ \E n \in FirstFree : Ask(n, List)
          /\ UNCHANGED <<loggerVars, programVars, selector, drawn>>
     ELSE Ends

\* Reloaded, it forgets everything.
Close ==
  /\ page \in {"ready", "dead"}
  /\ page' = "closed" /\ options' = {} /\ selected' = NoName
  /\ requests' = [n \in Slots |-> Free] /\ events' = NoEvents /\ levels' = NoName
  /\ UNCHANGED <<loggerVars, programVars>>

Answered(n) == requests[n].state = "answered"
Done(n) == requests' = [requests EXCEPT ![n] = Free]

\* A wrong list: the empty name after the last separator is not filtered out.
Unfiltered(reply) == reply \cup {NoName}

Filtered(reply) == reply \ {NoName}

\* loadMatches has answered: the selector shows the first of its options, if it
\* has one, and that is asked for.
Listed(n) ==
  /\ Answered(n) /\ requests[n].of = List
  /\ page' = IF program = "up" THEN "loading" ELSE "dead"
  /\ options' = Filtered(requests[n].reply)
  /\ selected' \in IF options' = {} THEN {NoName} ELSE options'
  /\ NoName \in options' => selected' = NoName
  /\ IF program = "up"
     THEN Ask(n, selected')
     ELSE Done(n)
  /\ UNCHANGED <<loggerVars, programVars, drawn>>

Select(name) ==
  /\ page = "ready" /\ name # selected
  /\ selected' = name
  /\ IF program = "up" THEN \E n \in FirstFree : Ask(n, name) ELSE UNCHANGED requests
  /\ UNCHANGED <<loggerVars, programVars, page, options, drawn>>

\* A wrong handler: levels are those of the log before.
LevelsAsBefore(name) == levels

LevelsOf(name) == name

\* loadMatch has answered: the events, then their levels, as far as there is no
\* error on the way.  An error while the page is set up leaves it without any
\* of its handlers.
Loaded(n) ==
  LET reply == requests[n].reply
      fails == reply.torn \/ reply.nested
  IN /\ Answered(n) /\ requests[n].of # List
     /\ Done(n)
     /\ events' = IF reply.torn \/ reply.orphans THEN events
                  ELSE [of |-> requests[n].of, nested |-> reply.nested]
     /\ levels' = IF fails THEN levels ELSE LevelsOf(requests[n].of)
     /\ page' = IF page = "loading" THEN (IF fails THEN "dead" ELSE "ready") ELSE page
     /\ UNCHANGED <<loggerVars, programVars, selector>>

Receive == \E n \in Slots : Listed(n) \/ Loaded(n)

Next ==
  \/ Boot \/ StartHTTPServer \/ RobotCode \/ PowerLoss
  \/ Serve
  \/ OpenPage \/ Close \/ Receive
  \/ \E name \in options : Select(name)

Spec == Init /\ [][Next]_vars

\* The event loops of the server and of the browser go on as long as there is
\* something to do.
FairSpec == Spec /\ WF_vars(Serve) /\ WF_vars(Receive)

------------------------------------------------------------------------------
Known == Dates \cup {NoName, List}

TypeOK ==
  /\ LoggerTypeOK
  /\ \A d \in names : Ids(logs[d]) \subseteq 0 .. MaxEvents - 1
  /\ program \in {"off", "init", "idle", "up"} /\ boots \in 0 .. MaxBoots
  /\ page \in {"closed", "listing", "loading", "ready", "dead"}
  /\ options \subseteq Dates /\ selected \in options \cup {NoName}
  /\ \A n \in Slots : requests[n].of \in Known

\* What the viewer makes of a log is what the robot did: an event with its
\* start and its last stop, or a point if it was never stopped, although ids
\* begin at 0 again with every program (logger.lua:16) and two programs may
\* write to files of one name.  Excluded are logs into which an event of a
\* file before was stopped.
LogTellsStory ==
  \A d \in names \ strays :
    LET told == {e \in story : e.of = d}
    IN /\ Finished(logs[d]) = {e.id : e \in {e \in told : e.end # Unfinished}}
       /\ PointEvents(logs[d]) = {e.id : e \in {e \in told : e.end = Unfinished}}
       /\ \A e \in told : e.end # Unfinished =>
            Event(logs[d], e.id) = [id |-> e.id, parent |-> e.parent,
                                    start |-> e.start, end |-> e.end]

\* The two halves of readFile fit: what a page gets of a log is whole lines
\* from its beginning, all that were written when it asked among them, however
\* many are added meanwhile - unless the log was emptied between the halves.
ReplyComplete ==
  \A n \in Pending :
    LET r == requests[n]
    IN r.state = "answered" /\ r.of \in Dates /\ ~r.cut =>
         ~r.reply.torn /\ r.reply.size >= r.least

\* Whether a request has been measured is nobody's business but the server's.
AsAsked(r) == [of |-> r.of, state |-> IF r.state = "measured" THEN "sent" ELSE r.state,
               least |-> r.least, void |-> r.cut, reply |-> r.reply]

Service == INSTANCE LogService WITH
  Nothing <- AsAsked(Free),
  View <- Reply,
  asked <- [n \in Slots |-> AsAsked(requests[n])]

\* The two halves of readFile, on a thread beside the robot's, are as good as
\* one: what a page is answered is a log as it was at one moment since it was
\* asked for (httpserver.cpp), with the exception of logs emptied meanwhile.
ImplementsService == Service!ServiceSpec

\* The events on the page have levels of their own, in whatever order answers
\* come, unless one of them is nested, for which getLevels fails.
EventsHaveLevels == ~events.nested => levels = events.of

\* Only a page that was shown no log at all asks for the log without a name,
\* which the server may not survive.
AsksByName ==
  options # {} => \A n \in Pending : requests[n].of # NoName

\* A page that waits is set up in the end or fails, whatever happens to the
\* robot program.
PageSettles == page \in {"listing", "loading"} ~> page \in {"ready", "dead"}
==============================================================================
