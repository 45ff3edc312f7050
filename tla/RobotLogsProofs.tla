--------------------------- MODULE RobotLogsProofs ---------------------------
(***************************************************************************)
(* What a page gets from the server, proved for every set of log names,    *)
(* every number of requests and every bound.                               *)
(***************************************************************************)
EXTENDS MCRobotLogs, LogViewerProofs

Line == [type : {"event"}, id : Int, parent : Int, time : Int]
          \cup [type : {"data"}, time : Int]

Handle == [id : Int, parent : Int, here : BOOLEAN]

LogsOK ==
  /\ names \subseteq Dates
  /\ logs \in [Dates -> Seq(Line)]
  /\ file \in Dates \cup {None}
  /\ currentID \in Int /\ now \in Int
  /\ handles \subseteq Handle

Replies == [size : Nat, torn : BOOLEAN, nested : BOOLEAN, orphans : BOOLEAN]
Requests == [of : Known, state : {"free", "sent", "measured", "answered"}, least : Nat,
             size : Nat, cut : BOOLEAN, reply : {None} \cup Replies \cup SUBSET Dates]

\* What was promised to a request is still there while it is under way, and in
\* its answer, unless the log was emptied after it was measured.
Promise(r) ==
  r.of \in Dates =>
    /\ r.state = "sent" => r.least <= Len(logs[r.of])
    /\ r.state = "measured" /\ ~r.cut => r.least <= r.size /\ r.size <= Len(logs[r.of])
    /\ r.state = "answered" /\ ~r.cut => ~r.reply.torn /\ r.reply.size >= r.least

Sound(r) ==
  /\ r.state = "free" => r = Free
  /\ r.state = "measured" => r.of \in Dates
  /\ Promise(r)
  /\ r.state = "answered" => IF r.of = List THEN r.reply \subseteq Dates
                              ELSE r.reply.orphans => r.reply.nested

RequestsOK ==
  /\ requests \in [Slots -> Requests]
  /\ \A n \in Slots : Sound(requests[n])

\* The page waits for the list alone, and for nothing while it is closed.
WaitsOK ==
  /\ page = "closed" => Pending = {}
  /\ \A n, k \in Pending : requests[n].of = List => page = "listing" /\ k = n

PageOK ==
  /\ WaitsOK
  /\ options \subseteq Dates /\ selected \in options \cup {NoName}
  /\ AsksByName
  /\ EventsHaveLevels

IInv == LogsOK /\ RequestsOK /\ PageOK

LEMMA Constants ==
  /\ None \notin Dates /\ NoName \notin Dates /\ List \notin Dates /\ NoName # List
  /\ Free.state = "free" /\ Free.of = NoName
  BY LoggerAssumption, RobotLogsAssumption DEF NoName, List, Free, Request

LEMMA FreeIsSound == Free \in Requests /\ Sound(Free)
  BY Constants DEF Free, Request, Requests, Known, Sound, Promise, NoName, List

LEMMA Starts == Init => IInv
<1> SUFFICES ASSUME Init PROVE IInv
  OBVIOUS
<1>1. LogsOK
  BY DEF Init, LoggerInit, LogsOK
<1>2. RequestsOK
  BY FreeIsSound DEF Init, RequestsOK
<1>3. PageOK
  BY Constants DEF Init, PageOK, WaitsOK, AsksByName, EventsHaveLevels, Pending, NoEvents
<1> QED
  BY <1>1, <1>2, <1>3 DEF IInv

------------------------------------------------------------------------------
(* The logs only grow, unless they are opened again *)

Grow == \A d \in Dates : Len(logs[d]) <= Len(logs'[d])

\* One line more is in the open log, and the others are as they were.
LEMMA LineWritten ==
  ASSUME LogsOK, file # None, NEW line \in Line, WriteLine(line),
         UNCHANGED <<names, file>>, currentID' \in Int,
         handles' \subseteq Handle
  PROVE  LogsOK' /\ Grow
<1>1. file \in Dates /\ logs[file] \in Seq(Line)
  BY DEF LogsOK
<1>2. Append(logs[file], line) \in Seq(Line) /\ Len(Append(logs[file], line)) = Len(logs[file]) + 1
  BY <1>1
<1>3. logs' = [logs EXCEPT ![file] = Append(@, line)] /\ now' = now + 1
  BY DEF WriteLine
<1>4. logs' \in [Dates -> Seq(Line)]
  BY <1>1, <1>2, <1>3 DEF LogsOK
<1>5. Grow
  <2> SUFFICES ASSUME NEW d \in Dates PROVE Len(logs[d]) <= Len(logs'[d])
    BY DEF Grow
  <2>1. Len(logs[d]) \in Nat
    BY LenProperties DEF LogsOK
  <2> QED
    BY <1>1, <1>2, <1>3, <2>1 DEF LogsOK
<1> QED
  BY <1>3, <1>4, <1>5 DEF LogsOK

LEMMA NothingWritten ==
  ASSUME LogsOK, UNCHANGED <<names, logs, now>>, file' \in {file, None}, currentID' \in Int,
         handles' \subseteq Handle
  PROVE  LogsOK' /\ Grow
<1>1. Grow
  BY LenProperties DEF Grow, LogsOK
<1> QED
  BY <1>1 DEF LogsOK

LEMMA LogsGrow ==
  ASSUME LogsOK,
         \/ InitLoggingFails
         \/ \E parent \in Parents : Log(parent)
         \/ LogFails
         \/ \E h \in handles : StopEvent(h)
         \/ LogData
  PROVE  LogsOK' /\ Grow
<1>1. CASE InitLoggingFails
  <2>1. handles' \subseteq Handle
    BY <1>1 DEF InitLoggingFails, LogsOK, Handle
  <2> QED
    BY <1>1, <2>1, NothingWritten DEF InitLoggingFails, LogsOK
<1>2. ASSUME NEW parent \in Parents, Log(parent)
      PROVE  LogsOK' /\ Grow
  <2>1. parent \in Int /\ currentID + 1 \in Int
    BY DEF Parents, LogsOK, Handle
  <2>2. EventLine(UniqueID, parent) \in Line
    BY <2>1 DEF EventLine, UniqueID, Line, LogsOK
  <2>3. handles' \subseteq Handle
    <3>1. handles' = handles \cup {[id |-> currentID + 1, parent |-> parent, here |-> TRUE]}
      BY <1>2 DEF Log, UniqueID
    <3>2. [id |-> currentID + 1, parent |-> parent, here |-> TRUE] \in Handle
      BY <2>1 DEF Handle
    <3> QED
      BY <3>1, <3>2 DEF LogsOK
  <2> QED
    BY <1>2, <2>1, <2>2, <2>3, LineWritten DEF Log
<1>3. CASE LogFails
  BY <1>3, NothingWritten DEF LogFails, UniqueID, LogsOK
<1>4. ASSUME NEW h \in handles, StopEvent(h)
      PROVE  LogsOK' /\ Grow
  <2>1. EventLine(h.id, h.parent) \in Line
    BY DEF EventLine, Line, LogsOK, Handle
  <2> QED
    BY <1>4, <2>1, LineWritten DEF StopEvent, LogsOK
<1>5. CASE LogData
  <2>1. DataLine \in Line
    BY DEF DataLine, Line, LogsOK
  <2> QED
    BY <1>5, <2>1, LineWritten DEF LogData, LogsOK
<1> QED
  BY <1>1, <1>2, <1>3, <1>4, <1>5

LEMMA LogEmptied ==
  ASSUME LogsOK, NEW date \in Dates, InitLogging(date)
  PROVE  /\ LogsOK'
         /\ \A d \in Dates \ {date} : logs'[d] = logs[d]
<1>1. logs' = [logs EXCEPT ![date] = <<>>] /\ names' = names \cup {date} /\ file' = date
  BY DEF InitLogging, OpenToWrite
<1>2. handles' \subseteq Handle
  BY DEF InitLogging, LogsOK, Handle
<1> QED
  BY <1>1, <1>2 DEF LogsOK, InitLogging

------------------------------------------------------------------------------
(* What was promised to requests *)

\* While logs grow, requests that nobody touches keep their promises.
LEMMA PromisesKept ==
  ASSUME LogsOK, LogsOK', RequestsOK, Grow, UNCHANGED requests
  PROVE  RequestsOK'
<1> SUFFICES ASSUME NEW n \in Slots PROVE Sound(requests[n])'
  BY DEF RequestsOK
<1>1. Sound(requests[n]) /\ requests[n] \in Requests
  BY DEF RequestsOK
<1>2. requests[n].of \in Dates =>
        /\ Len(logs[requests[n].of]) \in Nat /\ Len(logs'[requests[n].of]) \in Nat
        /\ Len(logs[requests[n].of]) <= Len(logs'[requests[n].of])
  BY LenProperties DEF LogsOK, Grow
<1>3. requests[n].size \in Nat /\ requests[n].least \in Nat
  BY <1>1 DEF Requests
<1>4. UNCHANGED requests[n]
  OBVIOUS
<1> HIDE DEF Slots
<1>5. CASE requests[n].of \in Dates
  BY <1>1, <1>2, <1>3, <1>4, <1>5, SMTT(60) DEF Sound, Promise
<1>6. CASE requests[n].of \notin Dates
  BY <1>1, <1>4, <1>6 DEF Sound, Promise
<1> QED
  BY <1>5, <1>6

\* A sound request may take a slot while the logs stay as they are.
LEMMA SlotTaken ==
  ASSUME RequestsOK, UNCHANGED logs, NEW n \in Slots, NEW r \in Requests, Sound(r),
         requests' = [requests EXCEPT ![n] = r]
  PROVE  RequestsOK'
<1>1. requests' \in [Slots -> Requests]
  BY DEF RequestsOK
<1>2. ASSUME NEW k \in Slots PROVE Sound(requests[k])'
  <2>1. requests'[k] = IF k = n THEN r ELSE requests[k]
    BY DEF RequestsOK
  <2> QED
    BY <2>1 DEF RequestsOK, Sound, Promise
<1> QED
  BY <1>1, <1>2 DEF RequestsOK

\* A request that is sent is promised what is there.
LEMMA Asked ==
  ASSUME LogsOK, RequestsOK, UNCHANGED logs, NEW n \in Slots, NEW of \in Known, Ask(n, of)
  PROVE  RequestsOK'
<1> DEFINE r == Request(of, "sent", IF of \in names THEN Len(logs[of]) ELSE 0)
<1>1. of \in Dates => Len(logs[of]) \in Nat
  BY LenProperties DEF LogsOK
<1>2. r \in Requests
  BY <1>1 DEF Request, Requests, LogsOK
<1>3. Sound(r)
  BY <1>1 DEF Request, Sound, Promise
<1>4. requests' = [requests EXCEPT ![n] = r]
  BY DEF Ask
<1> QED
  BY <1>2, <1>3, <1>4, SlotTaken

LEMMA Forgotten ==
  ASSUME RequestsOK, UNCHANGED logs, NEW n \in Slots, Done(n)
  PROVE  RequestsOK'
  BY FreeIsSound, SlotTaken DEF Done

\* What was promised of a log that is emptied is void.
LEMMA PromisesVoid ==
  ASSUME LogsOK, LogsOK', RequestsOK, NEW date \in Dates, InitLogging(date),
         requests' = Truncated(date)
  PROVE  RequestsOK'
<1>1. ASSUME NEW n \in Slots
      PROVE  requests'[n] \in Requests /\ Sound(requests[n])'
  <2> DEFINE r == requests[n]
  <2>1. r \in Requests /\ Sound(r)
    BY DEF RequestsOK
  <2>2. CASE r.of # date \/ r.state = "answered"
    <3>1. requests'[n] = r
      BY <2>2 DEF Truncated
    <3>2. r.of \in Dates /\ r.state # "answered" => logs'[r.of] = logs[r.of]
      BY <2>2, LogEmptied
    <3> QED
      BY <2>1, <3>1, <3>2 DEF Sound, Promise
  <2>3. CASE r.of = date /\ r.state # "answered"
    <3>1. requests'[n] = [r EXCEPT !.least = 0, !.cut = r.state = "measured"]
      BY <2>3 DEF Truncated
    <3>2. \A cut \in BOOLEAN :
            LET q == [r EXCEPT !.least = 0, !.cut = cut]
            IN /\ q \in Requests /\ q.state = r.state /\ q.of = r.of
               /\ q.least = 0 /\ q.cut = cut
      BY <2>1 DEF Requests
    <3>3. /\ requests'[n] \in Requests
          /\ requests'[n].state = r.state /\ requests'[n].of = r.of
          /\ requests'[n].least = 0
          /\ r.state = "measured" => requests'[n].cut
      BY <3>1, <3>2, Zenon
    <3>4. r.state # "free"
      BY <2>1, <2>3, Constants DEF Sound
    <3>5. Len(logs'[date]) \in Nat
      BY LenProperties DEF LogsOK
    <3> QED
      BY <2>1, <2>3, <3>3, <3>4, <3>5 DEF Sound, Promise, Requests
  <2> QED
    BY <2>2, <2>3
<1>2. requests' = [n \in Slots |-> requests'[n]]
  BY DEF Truncated
<1> QED
  BY <1>1, <1>2 DEF RequestsOK

------------------------------------------------------------------------------
(* The server *)

LEMMA RepliesAreSound ==
  ASSUME NEW log, Len(log) \in Nat, NEW torn \in BOOLEAN
  PROVE  /\ Reply(log, torn) \in Replies
         /\ Reply(log, torn).size = Len(log)
         /\ Reply(log, torn).torn = torn
         /\ Reply(log, torn).orphans => Reply(log, torn).nested
<1>1. Orphans(log) # {} => Nested(log) # {}
  BY DEF Orphans
<1>2. \A a, b \in BOOLEAN : (b => a) =>
        LET q == [size |-> Len(log), torn |-> torn, nested |-> a, orphans |-> b]
        IN q \in Replies /\ q.size = Len(log) /\ q.torn = torn /\ (q.orphans => q.nested)
  BY DEF Replies
<1>3. (Nested(log) # {}) \in BOOLEAN /\ (Orphans(log) # {}) \in BOOLEAN
  OBVIOUS
<1> QED
  BY <1>1, <1>2, <1>3, Zenon DEF Reply

\* An answer that has what was promised.
LEMMA Answering ==
  ASSUME LogsOK, RequestsOK, UNCHANGED logs, NEW n \in Slots,
         NEW reply \in {None} \cup Replies \cup SUBSET Dates, Answer(n, reply),
         IF requests[n].of = List THEN reply \subseteq Dates ELSE reply.orphans => reply.nested,
         requests[n].of \in Dates /\ ~requests[n].cut =>
           ~reply.torn /\ reply.size >= requests[n].least
  PROVE  RequestsOK'
<1> DEFINE q == requests[n]
           r == [q EXCEPT !.state = "answered", !.reply = reply]
<1>1. q \in Requests /\ requests \in [Slots -> Requests]
  BY DEF RequestsOK
<1>2. r \in Requests /\ r.state = "answered" /\ r.reply = reply /\ r.of = q.of
      /\ r.cut = q.cut /\ r.least = q.least
  BY <1>1 DEF Requests
<1>3. Sound(r)
  BY <1>2 DEF Sound, Promise
<1>4. requests' = [requests EXCEPT ![n] = r]
  BY <1>1 DEF Answer, Requests
<1> QED
  BY <1>2, <1>3, <1>4, SlotTaken

LEMMA Measuring ==
  ASSUME LogsOK, RequestsOK, NEW n \in Slots, Measure(n)
  PROVE  RequestsOK'
<1> DEFINE q == requests[n]
           r == [q EXCEPT !.state = "measured", !.size = Len(logs[q.of])]
<1>1. q \in Requests /\ requests \in [Slots -> Requests] /\ Sound(q)
  BY DEF RequestsOK
<1>2. q.of \in Dates /\ q.state = "sent" /\ Len(logs[q.of]) \in Nat
  BY LenProperties DEF Measure, Sent, LogsOK
<1>3. r \in Requests /\ r.state = "measured" /\ r.size = Len(logs[q.of]) /\ r.of = q.of
      /\ r.cut = q.cut /\ r.least = q.least
  BY <1>1, <1>2 DEF Requests
<1>4. Sound(r)
  BY <1>1, <1>2, <1>3 DEF Sound, Promise
<1>5. requests' = [requests EXCEPT ![n] = r]
  BY <1>1 DEF Measure, Requests
<1>6. UNCHANGED logs
  BY DEF Measure, loggerVars
<1> QED
  BY <1>3, <1>4, <1>5, <1>6, SlotTaken

\* Whole lines of what was measured, unless the log was emptied since.
LEMMA Reading ==
  ASSUME LogsOK, RequestsOK, NEW n \in Slots, Read(n)
  PROVE  RequestsOK'
<1> DEFINE q == requests[n]
<1>1. q \in Requests /\ Sound(q) /\ q.state = "measured" /\ UNCHANGED logs
  BY DEF RequestsOK, Read, loggerVars
<1>2. PICK torn \in BOOLEAN :
        /\ torn => q.cut /\ q.size > 0
        /\ q.size > Len(logs[q.of]) => torn
        /\ Answer(n, ReadSize(q, torn))
  BY DEF Read
<1> DEFINE log == logs[q.of]
           part == IF q.size < Len(log) THEN SubSeq(log, 1, q.size) ELSE log
           reply == Reply(part, torn)
<1>3. /\ q.of \in Dates /\ log \in Seq(Line) /\ Len(log) \in Nat
      /\ q.size \in Nat /\ q.least \in Nat
  BY <1>1, LenProperties DEF LogsOK, Requests, Sound
<1>4. q.size < Len(log) => Len(SubSeq(log, 1, q.size)) = q.size
  BY <1>3, SubSeqProperties, LenProperties
<1>5. Len(part) \in Nat /\ (~q.cut => ~torn /\ Len(part) >= q.least)
  BY <1>1, <1>2, <1>3, <1>4 DEF Sound, Promise
<1>6. reply \in Replies /\ reply.size = Len(part) /\ reply.torn = torn
      /\ (reply.orphans => reply.nested)
  BY <1>5, RepliesAreSound
<1>7. Answer(n, reply)
  BY <1>2 DEF ReadSize
<1> HIDE DEF reply, part, log
<1>8. requests[n].of \in Dates /\ ~requests[n].cut => ~reply.torn /\ reply.size >= requests[n].least
  BY <1>5, <1>6
<1>9. requests[n].of # List /\ (reply.orphans => reply.nested)
  BY <1>3, <1>6, Constants
<1>10. UNCHANGED logs /\ reply \in {None} \cup Replies \cup SUBSET Dates
  BY <1>1, <1>6
<1> QED
  BY <1>7, <1>8, <1>9, <1>10, Answering

\* Whatever the server does, requests stay sound.
LEMMA Serving ==
  ASSUME LogsOK, RequestsOK, NEW n \in Slots, AnswerList(n) \/ Measure(n) \/ Read(n)
  PROVE  RequestsOK'
<1>1. CASE AnswerList(n)
  <2>1. Answer(n, names) /\ requests[n].of = List /\ UNCHANGED logs
    BY <1>1 DEF AnswerList, loggerVars
  <2>2. names \subseteq Dates
    BY DEF LogsOK
  <2> QED
    BY <2>1, <2>2, Constants, Answering
<1> QED
  BY <1>1, Measuring, Reading

------------------------------------------------------------------------------
(* The page *)

\* Requests on their way as they were, and the page too.
LEMMA PageKept ==
  ASSUME PageOK, UNCHANGED <<page, options, selected, events, levels>>,
         \A n \in Slots : requests'[n].of = requests[n].of
                          /\ (requests'[n].state = "free" <=> requests[n].state = "free")
  PROVE  PageOK'
<1>1. Pending' = Pending
  BY DEF Pending
<1>2. WaitsOK'
  BY <1>1 DEF PageOK, WaitsOK, Pending
<1>3. AsksByName' /\ EventsHaveLevels'
  BY <1>1 DEF PageOK, AsksByName, EventsHaveLevels, Pending
<1> QED
  BY <1>2, <1>3 DEF PageOK

\* A list that has arrived survives the program that sent it.
LEMMA PageWhenItEnds ==
  ASSUME RequestsOK, PageOK, Ends
  PROVE  PageOK'
<1>1. \A n \in Slots : requests'[n] = IF requests[n].state = "answered" THEN requests[n] ELSE Free
  BY DEF Ends, Surviving
<1>2. Pending' = {n \in Slots : requests[n].state = "answered"} /\ Pending' \subseteq Pending
      /\ \A n \in Pending' : requests'[n] = requests[n]
  BY <1>1, Constants DEF Pending
<1>3. UNCHANGED <<options, selected, events, levels>>
  BY DEF Ends, selector, drawn
<1>4. page' \in {page, "dead"} /\ (page' # page => requests' # requests)
  BY DEF Ends
<1>5. ASSUME NEW n \in Pending', NEW k \in Pending', requests'[n].of = List
      PROVE  page' = "listing" /\ k = n
  <2>1. page = "listing" /\ \A j \in Pending : j = n
    BY <1>2, <1>5 DEF PageOK, WaitsOK
  <2>2. \A j \in Slots : requests'[j] = requests[j]
    BY <1>1, <1>2, <2>1 DEF RequestsOK, Sound, Pending
  <2>3. requests' = requests
    BY <2>2 DEF RequestsOK, Ends, Surviving
  <2> QED
    BY <1>2, <1>4, <2>1, <2>3
<1>6. page' = "closed" => Pending' = {}
  BY <1>2, <1>4 DEF PageOK, WaitsOK
<1>7. AsksByName' /\ EventsHaveLevels'
  BY <1>2, <1>3 DEF PageOK, AsksByName, EventsHaveLevels
<1> QED
  BY <1>3, <1>5, <1>6, <1>7 DEF PageOK, WaitsOK

LEMMA PageListed ==
  ASSUME RequestsOK, PageOK, NEW n \in Slots, Listed(n)
  PROVE  PageOK'
<1>1. /\ requests[n].state = "answered" /\ requests[n].of = List
      /\ page' \in {"loading", "dead"} /\ UNCHANGED <<events, levels>>
  BY DEF Listed, Answered, drawn
<1>2. Pending = {n}
  BY <1>1 DEF PageOK, WaitsOK, Pending
<1>3. options' \subseteq Dates
  BY <1>1 DEF Listed, Filtered, RequestsOK, Sound
<1>4. selected' \in options' \cup {NoName} /\ (options' # {} => selected' \in options')
  BY DEF Listed
<1>5. Pending' \subseteq {n} /\ (n \in Pending' => requests'[n].of = selected')
  <2>1. PICK r : requests' = [requests EXCEPT ![n] = r]
                 /\ (r.state = "free" \/ r.of = selected')
    BY Constants DEF Listed, Ask, Done, Request
  <2> QED
    BY <1>2, <2>1 DEF RequestsOK, Pending
<1>6. selected' # List /\ (options' # {} => selected' # NoName)
  BY <1>3, <1>4, Constants
<1> QED
  BY <1>1, <1>3, <1>4, <1>5, <1>6 DEF PageOK, WaitsOK, AsksByName, EventsHaveLevels

\* Events are drawn on their own levels, or are not drawn.
LEMMA PageLoaded ==
  ASSUME RequestsOK, PageOK, NEW n \in Slots, Loaded(n)
  PROVE  PageOK'
<1>1. /\ requests[n].state = "answered" /\ requests[n].of # List
      /\ requests' = [requests EXCEPT ![n] = Free]
      /\ UNCHANGED <<options, selected>>
  BY DEF Loaded, Answered, Done, selector
<1>2. n \in Pending /\ Pending' \subseteq Pending /\ \A k \in Pending' : requests'[k] = requests[k]
  BY <1>1, Constants DEF RequestsOK, Pending
<1>3. page # "closed" /\ \A k \in Pending : requests[k].of # List
  BY <1>1, <1>2 DEF PageOK, WaitsOK
<1>4. page' # "closed"
  BY <1>3 DEF Loaded
<1>5. EventsHaveLevels'
  <2>1. requests[n].reply.orphans => requests[n].reply.nested
    BY <1>1 DEF RequestsOK, Sound
  <2> QED
    BY <2>1 DEF Loaded, LevelsOf, PageOK, EventsHaveLevels
<1> QED
  BY <1>1, <1>2, <1>3, <1>4, <1>5 DEF PageOK, WaitsOK, AsksByName

LEMMA PageSelected ==
  ASSUME RequestsOK, PageOK, NEW name \in options, Select(name)
  PROVE  PageOK'
<1>1. name \in Dates /\ page = "ready" /\ selected' = name
      /\ UNCHANGED <<page, options, events, levels>>
  BY DEF PageOK, Select, drawn
<1>2. \A k \in Pending' : requests'[k].of = name \/ (k \in Pending /\ requests'[k] = requests[k])
  BY DEF Select, Ask, Request, RequestsOK, Pending, FirstFree
<1> QED
  BY <1>1, <1>2, Constants DEF PageOK, WaitsOK, AsksByName, EventsHaveLevels

LEMMA PageOpened ==
  ASSUME RequestsOK, PageOK, page = "closed", page' = "listing", NEW n \in Slots, Ask(n, List),
         UNCHANGED <<options, selected, events, levels>>
  PROVE  PageOK'
<1>1. Pending = {}
  BY DEF PageOK, WaitsOK
<1>2. Pending' = {n} /\ requests'[n].of = List
  BY <1>1 DEF Ask, Request, RequestsOK, Pending
<1> QED
  BY <1>2, Constants DEF PageOK, WaitsOK, AsksByName, EventsHaveLevels

------------------------------------------------------------------------------
(* Every step *)

LEMMA SameLogs == LogsOK /\ UNCHANGED <<names, logs, file, currentID, now, handles>> => LogsOK'
  BY DEF LogsOK

LEMMA SameRequests == LogsOK /\ RequestsOK /\ UNCHANGED <<logs, requests>> => RequestsOK'
  BY DEF RequestsOK, Sound, Promise

LEMMA SamePage == PageOK /\ UNCHANGED pageVars => PageOK'
  BY PageKept DEF pageVars, selector, drawn

LEMMA ProgramEnds == IInv /\ Ends => IInv'
<1> SUFFICES ASSUME IInv, Ends PROVE IInv'
  OBVIOUS
<1>1. LogsOK' /\ UNCHANGED logs
  BY SameLogs DEF IInv, Ends, loggerVars
<1>2. requests' = [n \in Slots |-> IF requests[n].state = "answered" THEN requests[n] ELSE Free]
  BY DEF Ends, Surviving
<1>3. \A n \in Slots : requests'[n] \in Requests /\ Sound(requests[n])'
  <2> SUFFICES ASSUME NEW n \in Slots
               PROVE  requests'[n] \in Requests /\ Sound(requests[n])'
    OBVIOUS
  <2>1. requests'[n] \in {requests[n], Free}
    BY <1>2
  <2>2. requests'[n] \in Requests /\ Sound(requests'[n])
    BY <2>1, FreeIsSound DEF IInv, RequestsOK
  <2> QED
    BY <1>1, <2>2 DEF Sound, Promise
<1>4. RequestsOK'
  BY <1>2, <1>3 DEF RequestsOK
<1> QED
  BY <1>1, <1>4, PageWhenItEnds DEF IInv

LEMMA RobotSteps == IInv /\ (Boot \/ StartHTTPServer \/ RobotCode) => IInv'
<1> SUFFICES ASSUME IInv, Boot \/ StartHTTPServer \/ RobotCode PROVE IInv'
  OBVIOUS
<1> USE DEF IInv
<1>1. CASE Boot
  <2>1. LogsOK' /\ UNCHANGED <<logs, requests>> /\ UNCHANGED pageVars
    BY <1>1 DEF Boot, Restart, LogsOK, pageVars
  <2> QED
    BY <2>1, SameRequests, SamePage
<1>2. CASE StartHTTPServer
  <2>1. UNCHANGED <<names, logs, file, currentID, now, handles, requests>> /\ UNCHANGED pageVars
    BY <1>2 DEF StartHTTPServer, loggerVars, pageVars
  <2> QED
    BY <2>1, SameLogs, SameRequests, SamePage
<1>3. ASSUME NEW date \in Dates, InitLogging(date), requests' = Truncated(date),
             UNCHANGED <<page, selector, drawn>>
      PROVE  IInv'
  <2>1. LogsOK'
    BY <1>3, LogEmptied
  <2>2. RequestsOK'
    BY <1>3, <2>1, PromisesVoid
  <2>3. \A n \in Slots : requests'[n].of = requests[n].of
                         /\ (requests'[n].state = "free" <=> requests[n].state = "free")
    BY <1>3 DEF Truncated, RequestsOK, Requests
  <2>4. PageOK'
    BY <1>3, <2>3, PageKept DEF selector, drawn
  <2> QED
    BY <2>1, <2>2, <2>4
<1>4. ASSUME UNCHANGED <<page, selector, drawn>>, UNCHANGED requests,
             \/ InitLoggingFails
             \/ \E parent \in Parents : Log(parent)
             \/ LogFails
             \/ \E h \in handles : StopEvent(h)
             \/ LogData
      PROVE  IInv'
  <2>1. LogsOK' /\ Grow
    BY <1>4, LogsGrow
  <2>2. RequestsOK'
    BY <1>4, <2>1, PromisesKept
  <2>3. PageOK'
    BY <1>4, SamePage DEF pageVars
  <2> QED
    BY <2>1, <2>2, <2>3
<1> QED
  BY <1>1, <1>2, <1>3, <1>4 DEF RobotCode

LEMMA ServerSteps == IInv /\ Serve => IInv'
<1> SUFFICES ASSUME IInv, NEW n \in Slots,
                    AnswerList(n) \/ ReadDirectory(n) \/ Measure(n) \/ Read(n)
             PROVE  IInv'
  BY DEF Serve
<1>1. CASE AnswerList(n) \/ Measure(n) \/ Read(n)
  <2>1. UNCHANGED <<names, logs, file, currentID, now, handles>>
        /\ UNCHANGED <<page, options, selected, events, levels>>
    BY <1>1 DEF AnswerList, Measure, Read, loggerVars, selector, drawn
  <2>2. \A k \in Slots : requests'[k].of = requests[k].of
                         /\ (requests'[k].state = "free" <=> requests[k].state = "free")
    <3>1. requests \in [Slots -> Requests] /\ requests[n].state \in {"sent", "measured"}
      BY <1>1 DEF AnswerList, Measure, Read, Sent, IInv, RequestsOK
    <3>2. CASE \E reply : Answer(n, reply)
      BY <3>1, <3>2 DEF Answer, Requests
    <3>3. CASE Measure(n)
      BY <3>1, <3>3 DEF Measure, Requests
    <3> QED
      BY <1>1, <3>2, <3>3 DEF AnswerList, Read
  <2> QED
    BY <1>1, <2>1, <2>2, SameLogs, Serving, PageKept DEF IInv
<1>2. CASE ReadDirectory(n) /\ ~Ends
  <2> DEFINE reply == Reply(<<>>, FALSE)
  <2>1. Answer(n, reply) /\ requests[n].of = NoName /\ Sent(n)
        /\ UNCHANGED <<names, logs, file, currentID, now, handles>>
        /\ UNCHANGED <<page, options, selected, events, levels>>
    BY <1>2 DEF ReadDirectory, loggerVars, selector, drawn
  <2>2. reply \in Replies /\ (reply.orphans => reply.nested)
    BY RepliesAreSound
  <2>3. RequestsOK'
    BY <2>1, <2>2, Constants, Answering DEF IInv
  <2>4. \A k \in Slots : requests'[k].of = requests[k].of
                         /\ (requests'[k].state = "free" <=> requests[k].state = "free")
    BY <2>1 DEF Answer, Sent, IInv, RequestsOK, Requests
  <2> QED
    BY <2>1, <2>3, <2>4, SameLogs, PageKept DEF IInv
<1> QED
  BY <1>1, <1>2, ProgramEnds

LEMMA PageSteps ==
  IInv /\ (OpenPage \/ Close \/ Receive \/ \E name \in options : Select(name)) => IInv'
<1> SUFFICES ASSUME IInv,
                    OpenPage \/ Close \/ Receive \/ \E name \in options : Select(name),
                    ~Ends
             PROVE  IInv'
  BY ProgramEnds
<1> USE DEF IInv
<1>1. UNCHANGED <<names, logs, file, currentID, now, handles>> /\ LogsOK'
  BY SameLogs DEF OpenPage, Close, Receive, Listed, Loaded, Select, loggerVars
<1>2. CASE OpenPage
  <2>1. PICK n \in Slots : Ask(n, List)
    BY <1>2 DEF OpenPage, FirstFree
  <2>2. RequestsOK'
    BY <1>1, <2>1, Asked DEF Known
  <2>3. PageOK'
    BY <1>2, <2>1, PageOpened DEF OpenPage, selector, drawn
  <2> QED
    BY <1>1, <2>2, <2>3
<1>3. CASE Close
  <2>1. RequestsOK'
    BY <1>1, <1>3, FreeIsSound DEF Close, RequestsOK, Sound, Promise
  <2>2. PageOK'
    BY <1>3, Constants DEF Close, PageOK, WaitsOK, AsksByName, EventsHaveLevels, Pending, NoEvents
  <2> QED
    BY <1>1, <2>1, <2>2
<1>4. ASSUME NEW n \in Slots, Listed(n) PROVE IInv'
  <2>1. PageOK'
    BY <1>4, PageListed
  <2>2. selected' \in Known
    BY <2>1 DEF PageOK, Known
  <2>3. Ask(n, selected') \/ Done(n)
    BY <1>4 DEF Listed
  <2>4. RequestsOK'
    BY <1>1, <2>2, <2>3, Asked, Forgotten
  <2> QED
    BY <1>1, <2>1, <2>4
<1>5. ASSUME NEW n \in Slots, Loaded(n) PROVE IInv'
  <2>1. RequestsOK'
    BY <1>1, <1>5, Forgotten DEF Loaded
  <2> QED
    BY <1>1, <1>5, <2>1, PageLoaded
<1>6. ASSUME NEW name \in options, Select(name) PROVE IInv'
  <2>1. PageOK' /\ name \in Known
    BY <1>6, PageSelected DEF PageOK, Known
  <2>2. RequestsOK'
    <3>1. CASE UNCHANGED requests
      BY <1>1, <3>1, SameRequests
    <3>2. CASE \E n \in FirstFree : Ask(n, name)
      BY <1>1, <2>1, <3>2, Asked DEF FirstFree
    <3> QED
      BY <1>6, <3>1, <3>2 DEF Select
  <2> QED
    BY <1>1, <2>1, <2>2
<1> QED
  BY <1>2, <1>3, <1>4, <1>5, <1>6 DEF Receive

LEMMA Steps == IInv /\ [Next]_vars => IInv'
<1> SUFFICES ASSUME IInv, [Next]_vars PROVE IInv'
  OBVIOUS
<1>1. CASE UNCHANGED vars
  BY <1>1, SameLogs, SameRequests, SamePage DEF IInv, vars, loggerVars, pageVars
<1>2. CASE PowerLoss
  BY <1>2, ProgramEnds DEF PowerLoss
<1> QED
  BY <1>1, <1>2, RobotSteps, ServerSteps, PageSteps DEF Next

\* readFile answers with whole lines from the beginning of a log, all that were
\* written when the page asked among them, unless the log was emptied between
\* its two halves: for any number of logs, lines, requests and starts.
THEOREM RepliesComplete == Spec => []ReplyComplete
<1>1. IInv => ReplyComplete
  BY DEF IInv, RequestsOK, Sound, Promise, ReplyComplete, Pending
<1> QED
  BY <1>1, Starts, Steps, PTL DEF Spec

\* The page draws events on levels of the same log, in whatever order answers
\* arrive, and asks for a log without a name only if there is none.
THEOREM PageConsistent == Spec => [](EventsHaveLevels /\ AsksByName)
<1>1. IInv => EventsHaveLevels /\ AsksByName
  BY DEF IInv, PageOK
<1> QED
  BY <1>1, Starts, Steps, PTL DEF Spec

------------------------------------------------------------------------------
(* What is in the logs *)

\* What the logger keeps while it works.
LoggerOK ==
  /\ LoggerTypeOK
  /\ \A h \in handles : h.id \in 0 .. MaxEvents - 1
  /\ \A d \in Dates : Ids(logs[d]) \subseteq 0 .. MaxEvents - 1

\* The lines of an event, from the first to the last, are what the robot did.
Told(log, e) ==
  \E a, b \in LinesOf(log, e.id) :
    /\ \A n \in LinesOf(log, e.id) : a <= n /\ n <= b
    /\ log[a].parent = e.parent /\ log[a].time = e.start
    /\ IF e.end = Unfinished THEN a = b ELSE a # b /\ log[b].time = e.end

StoryEvent == [of : Dates, id : Int, parent : Int, start : Int, end : Int]

\* Each id of the open file was given by this program, so that the next one is
\* new to it; what is in the open file can still be stopped in it.
StoryOK ==
  /\ story \subseteq StoryEvent
  /\ \A e, f \in story : e.of = f.of /\ e.id = f.id => e = f
  /\ \A e \in story : e.of = file => e.id <= currentID
  /\ \A h \in handles : h.here =>
       \E e \in story : e.of = file /\ e.id = h.id /\ e.parent = h.parent
  /\ \A d \in Dates \ strays : Ids(logs[d]) = {e.id : e \in {f \in story : f.of = d}}
  /\ \A e \in story : e.of \notin strays => Told(logs[e.of], e)

\* A line more: where it is, and which id it may add.
LEMMA LineAdded ==
  ASSUME NEW log \in Seq(Line), NEW line \in Line
  PROVE  /\ Len(log) \in Nat /\ DOMAIN log = 1 .. Len(log)
         /\ DOMAIN Append(log, line) = 1 .. Len(log) + 1
         /\ \A n \in 1 .. Len(log) : Append(log, line)[n] = log[n]
         /\ Append(log, line)[Len(log) + 1] = line
  BY LenProperties, AppendProperties

LEMMA LinesAdded ==
  ASSUME NEW log \in Seq(Line), NEW line \in Line, NEW i
  PROVE  /\ LinesOf(log, i) \subseteq 1 .. Len(log)
         /\ IsEvent(line) /\ line.id = i =>
              LinesOf(Append(log, line), i) = LinesOf(log, i) \cup {Len(log) + 1}
         /\ ~(IsEvent(line) /\ line.id = i) =>
              LinesOf(Append(log, line), i) = LinesOf(log, i)
<1> DEFINE longer == Append(log, line)
           L == Len(log)
<1>1. /\ L \in Nat /\ DOMAIN log = 1 .. L /\ DOMAIN longer = 1 .. L + 1
      /\ \A n \in 1 .. L : longer[n] = log[n]
      /\ longer[L + 1] = line
  BY LineAdded
<1> HIDE DEF longer
<1>2. \A n : n \in 1 .. L + 1 <=> n \in 1 .. L \/ n = L + 1
  BY <1>1
<1>3. \A n : n \in LinesOf(longer, i) <=>
               n \in LinesOf(log, i) \/ (n = L + 1 /\ IsEvent(line) /\ line.id = i)
  BY <1>1, <1>2 DEF LinesOf
<1>4. LinesOf(log, i) \subseteq 1 .. L
  BY <1>1 DEF LinesOf
<1> QED
  BY <1>3, <1>4 DEF longer

LEMMA IdsAdded ==
  ASSUME NEW log \in Seq(Line), NEW line \in Line
  PROVE  \A i : i \in Ids(Append(log, line)) <=>
                  i \in Ids(log) \/ (IsEvent(line) /\ i = line.id)
<1> DEFINE longer == Append(log, line)
           L == Len(log)
<1>1. /\ L \in Nat /\ DOMAIN log = 1 .. L /\ DOMAIN longer = 1 .. L + 1
      /\ \A n \in 1 .. L : longer[n] = log[n]
      /\ longer[L + 1] = line
  BY LineAdded
<1> HIDE DEF longer
<1>2. \A n : n \in 1 .. L + 1 <=> n \in 1 .. L \/ n = L + 1
  BY <1>1
<1>3. \A i : i \in Ids(longer) <=> i \in Ids(log) \/ (i = line.id /\ IsEvent(line))
  BY <1>1, <1>2 DEF Ids
<1> QED
  BY <1>3 DEF longer

\* An event is told as before if the line is not one of its own.
LEMMA StillTold ==
  ASSUME NEW log \in Seq(Line), NEW line \in Line, NEW e, Told(log, e),
         ~(IsEvent(line) /\ line.id = e.id)
  PROVE  Told(Append(log, line), e)
<1> DEFINE longer == Append(log, line)
<1>1. LinesOf(log, e.id) \subseteq 1 .. Len(log) /\ LinesOf(longer, e.id) = LinesOf(log, e.id)
  BY LinesAdded
<1>2. \A n \in 1 .. Len(log) : longer[n] = log[n]
  BY LineAdded
<1> HIDE DEF longer
<1>3. PICK a \in LinesOf(log, e.id), b \in LinesOf(log, e.id) :
        /\ \A n \in LinesOf(log, e.id) : a <= n /\ n <= b
        /\ log[a].parent = e.parent /\ log[a].time = e.start
        /\ IF e.end = Unfinished THEN a = b ELSE a # b /\ log[b].time = e.end
  BY DEF Told
<1>4. longer[a] = log[a] /\ longer[b] = log[b]
  BY <1>1, <1>2
<1>5. Told(longer, e)
  BY <1>1, <1>3, <1>4 DEF Told
<1> QED
  BY <1>5 DEF longer

\* The last line of an event says when it was stopped.
LEMMA StopTold ==
  ASSUME NEW log \in Seq(Line), NEW line \in Line, NEW e \in StoryEvent, Told(log, e),
         IsEvent(line), line.id = e.id, line.time \in Nat
  PROVE  Told(Append(log, line), [e EXCEPT !.end = line.time])
<1> DEFINE longer == Append(log, line)
           L == Len(log)
           stopped == [e EXCEPT !.end = line.time]
<1>1. LinesOf(log, e.id) \subseteq 1 .. L /\ LinesOf(longer, e.id) = LinesOf(log, e.id) \cup {L + 1}
  BY LinesAdded
<1>2. L \in Nat /\ longer[L + 1] = line /\ \A n \in 1 .. L : longer[n] = log[n]
  BY LineAdded
<1> HIDE DEF longer
<1>3. /\ stopped.id = e.id /\ stopped.parent = e.parent /\ stopped.start = e.start
      /\ stopped.end = line.time /\ stopped.end # Unfinished
  BY DEF StoryEvent, Unfinished
<1> HIDE DEF stopped
<1>4. PICK a \in LinesOf(log, e.id) :
        /\ \A n \in LinesOf(log, e.id) : a <= n
        /\ log[a].parent = e.parent /\ log[a].time = e.start
  BY DEF Told
<1>5. longer[a] = log[a] /\ a # L + 1 /\ a <= L + 1
  BY <1>1, <1>2
<1>6. \A n \in LinesOf(longer, e.id) : a <= n /\ n <= L + 1
  BY <1>1, <1>2, <1>4, <1>5
<1>7. Told(longer, stopped)
  BY <1>1, <1>2, <1>3, <1>4, <1>5, <1>6 DEF Told
<1> QED
  BY <1>7 DEF longer, stopped

\* The first line of an event with an id of its own says how it began.
LEMMA StartTold ==
  ASSUME NEW log \in Seq(Line), NEW line \in Line, NEW e, e.end = Unfinished,
         IsEvent(line), line.id = e.id, line.parent = e.parent, line.time = e.start,
         e.id \notin Ids(log)
  PROVE  Told(Append(log, line), e)
<1> DEFINE longer == Append(log, line)
           L == Len(log)
<1>1. LinesOf(longer, e.id) = LinesOf(log, e.id) \cup {L + 1}
  BY LinesAdded
<1>2. LinesOf(log, e.id) = {}
  BY DEF LinesOf, Ids
<1>3. L \in Nat /\ longer[L + 1] = line
  BY LineAdded
<1> HIDE DEF longer
<1>4. Told(longer, e)
  BY <1>1, <1>2, <1>3 DEF Told
<1> QED
  BY <1>4 DEF longer

------------------------------------------------------------------------------
(* The logger's steps *)

StoryInv == LoggerOK /\ StoryOK

\* The line that is written is in the open log alone.
LEMMA OneLogWritten ==
  ASSUME LogsOK, file # None, NEW line \in Line, WriteLine(line)
  PROVE  /\ file \in Dates /\ logs[file] \in Seq(Line)
         /\ logs'[file] = Append(logs[file], line)
         /\ \A d \in Dates \ {file} : logs'[d] = logs[d]
         /\ now \in Int /\ now < MaxTime /\ now' = now + 1
  BY DEF LogsOK, WriteLine

LEMMA WritingKeepsLogger ==
  ASSUME LogsOK, LoggerOK, file # None, NEW line \in Line, WriteLine(line),
         IsEvent(line) => line.id \in 0 .. MaxEvents - 1,
         UNCHANGED <<dirExists, names, file>>,
         currentID' \in -1 .. MaxEvents - 1,
         \A h \in handles' : h.id \in 0 .. MaxEvents - 1
  PROVE  LoggerOK'
<1>1. ASSUME NEW d \in Dates PROVE Ids(logs'[d]) \subseteq 0 .. MaxEvents - 1
  <2>1. CASE d = file
    <3>1. file \in Dates /\ logs[file] \in Seq(Line) /\ logs'[file] = Append(logs[file], line)
      BY OneLogWritten
    <3>2. \A i \in Ids(Append(logs[file], line)) :
            i \in Ids(logs[file]) \/ (IsEvent(line) /\ i = line.id)
      BY <3>1, IdsAdded
    <3> QED
      BY <2>1, <3>1, <3>2 DEF LoggerOK
  <2>2. CASE d # file
    BY <2>2, OneLogWritten DEF LoggerOK
  <2> QED
    BY <2>1, <2>2
<1>2. now' \in 0 .. MaxTime
  BY OneLogWritten, LoggerAssumption DEF LoggerOK, LoggerTypeOK
<1> QED
  BY <1>1, <1>2 DEF LoggerOK, LoggerTypeOK

\* Lines that belong to no event leave the story as it is.
LEMMA DataKeepsStory ==
  ASSUME LogsOK, StoryOK, LogData
  PROVE  StoryOK'
<1>1. DataLine \in Line /\ ~IsEvent(DataLine)
  BY DEF DataLine, Line, IsEvent, LogsOK
<1>2. /\ file \in Dates /\ logs[file] \in Seq(Line)
      /\ logs'[file] = Append(logs[file], DataLine)
      /\ \A d \in Dates \ {file} : logs'[d] = logs[d]
      /\ UNCHANGED <<file, currentID, handles, story, strays>>
  BY <1>1, OneLogWritten DEF LogData
<1>3. \A d \in Dates : Ids(logs'[d]) = Ids(logs[d])
  <2>1. \A i : i \in Ids(Append(logs[file], DataLine)) <=> i \in Ids(logs[file])
    BY <1>1, <1>2, IdsAdded
  <2> SUFFICES ASSUME NEW d \in Dates PROVE Ids(logs'[d]) = Ids(logs[d])
    OBVIOUS
  <2>2. CASE d = file
    <3>1. Ids(logs'[d]) \subseteq Ids(logs[d]) /\ Ids(logs[d]) \subseteq Ids(logs'[d])
      BY <1>2, <2>1, <2>2
    <3> QED
      BY <3>1
  <2>3. CASE d # file
    BY <1>2, <2>3
  <2> QED
    BY <2>2, <2>3
<1>4. ASSUME NEW e \in story, e.of \notin strays PROVE Told(logs'[e.of], e)
  <2>1. Told(logs[e.of], e) /\ e.of \in Dates
    BY <1>4 DEF StoryOK, StoryEvent
  <2> QED
    BY <1>1, <1>2, <2>1, StillTold
<1> QED
  BY <1>2, <1>3, <1>4 DEF StoryOK

\* log() tells of a new event, with an id that is not in the file.
LEMMA LogKeepsStory ==
  ASSUME LogsOK, LoggerOK, StoryOK, NEW parent \in Parents, Log(parent)
  PROVE  StoryOK'
<1> DEFINE line == EventLine(UniqueID, parent)
           new == [of |-> file, id |-> currentID + 1, parent |-> parent, start |-> now,
                   end |-> Unfinished]
           handle == [id |-> currentID + 1, parent |-> parent, here |-> TRUE]
<1>1. parent \in Int /\ currentID \in Int /\ now \in Int
  BY DEF Parents, LogsOK, Handle
<1>2. line \in Line /\ IsEvent(line) /\ line.id = currentID + 1 /\ line.parent = parent
      /\ line.time = now
  BY <1>1 DEF EventLine, UniqueID, Line, IsEvent
<1>3. /\ file # None /\ WriteLine(line) /\ currentID' = currentID + 1
      /\ handles' = handles \cup {handle} /\ story' = story \cup {new}
      /\ UNCHANGED <<file, strays>>
  BY DEF Log, UniqueID
<1> HIDE DEF line
<1>4. /\ file \in Dates /\ logs[file] \in Seq(Line)
      /\ logs'[file] = Append(logs[file], line)
      /\ \A d \in Dates \ {file} : logs'[d] = logs[d]
  BY <1>2, <1>3, OneLogWritten
<1>5. /\ new \in StoryEvent /\ new.of = file /\ new.id = currentID + 1 /\ new.parent = parent
      /\ new.start = now /\ new.end = Unfinished
  BY <1>1, <1>4 DEF StoryEvent, Unfinished
<1>6. handle.id = new.id /\ handle.parent = new.parent
  BY <1>5
<1> HIDE DEF new, handle
<1>7. \A e \in story : e.of = file => e.id # new.id /\ e.id <= currentID + 1
  BY <1>1, <1>5 DEF StoryOK, StoryEvent
<1>8. story' \subseteq StoryEvent
      /\ \A e, f \in story' : e.of = f.of /\ e.id = f.id => e = f
  BY <1>3, <1>5, <1>7 DEF StoryOK
<1>9. \A e \in story' : e.of = file' => e.id <= currentID'
  BY <1>1, <1>3, <1>5, <1>7
<1>10. \A h \in handles' : h.here =>
         \E e \in story' : e.of = file' /\ e.id = h.id /\ e.parent = h.parent
  BY <1>3, <1>5, <1>6 DEF StoryOK
<1>11. ASSUME NEW d \in Dates \ strays'
       PROVE  Ids(logs'[d]) = {e.id : e \in {f \in story' : f.of = d}}
  <2>1. Ids(logs[d]) = {e.id : e \in {f \in story : f.of = d}}
    BY <1>3 DEF StoryOK
  <2>2. CASE d = file
    <3>1. \A i : i \in Ids(Append(logs[file], line)) <=> i \in Ids(logs[file]) \/ i = new.id
      BY <1>2, <1>4, <1>5, IdsAdded
    <3>2. Ids(logs'[d]) = Ids(logs[d]) \cup {new.id}
      BY <1>4, <2>2, <3>1
    <3> QED
      BY <1>3, <1>5, <2>1, <2>2, <3>2
  <2>3. CASE d # file
    BY <1>3, <1>4, <1>5, <2>1, <2>3
  <2> QED
    BY <2>2, <2>3
<1>12. ASSUME NEW e \in story', e.of \notin strays' PROVE Told(logs'[e.of], e)
  <2>1. CASE e \in story
    <3>1. Told(logs[e.of], e) /\ e.of \in Dates
      BY <1>3, <1>12, <2>1 DEF StoryOK, StoryEvent
    <3>2. e.of = file => ~(IsEvent(line) /\ line.id = e.id)
      BY <1>2, <1>5, <1>7, <2>1
    <3> QED
      BY <1>2, <1>4, <3>1, <3>2, StillTold
  <2>2. CASE e = new
    <3>1. Ids(logs[file]) = {f.id : f \in {g \in story : g.of = file}}
      BY <1>3, <1>4, <1>5, <1>12, <2>2 DEF StoryOK
    <3>2. new.id \notin Ids(logs[file])
      BY <1>7, <3>1
    <3>3. Told(Append(logs[file], line), new)
      BY <1>2, <1>4, <1>5, <3>2, StartTold
    <3> QED
      BY <1>4, <1>5, <2>2, <3>3
  <2> QED
    BY <1>3, <2>1, <2>2
<1> QED
  BY <1>8, <1>9, <1>10, <1>11, <1>12 DEF StoryOK

\* stop() tells of the end of an event whose start is in the file, and makes a
\* stray of a file in which it is not.
LEMMA StopKeepsStory ==
  ASSUME LogsOK, LoggerOK, StoryOK, NEW h \in handles, StopEvent(h)
  PROVE  StoryOK'
<1> DEFINE line == EventLine(h.id, h.parent)
           Now(e) == IF h.here /\ e.of = file /\ e.id = h.id THEN [e EXCEPT !.end = now] ELSE e
<1>1. h \in Handle /\ now \in 0 .. MaxTime /\ now \in Nat
  BY LoggerAssumption DEF LogsOK, LoggerOK, LoggerTypeOK
<1>2. line \in Line /\ IsEvent(line) /\ line.id = h.id /\ line.parent = h.parent
      /\ line.time = now
  BY <1>1 DEF EventLine, Line, IsEvent, Handle
<1>3. /\ file # None /\ WriteLine(line)
      /\ story' = {Now(e) : e \in story}
      /\ strays' = IF h.here THEN strays ELSE strays \cup {file}
      /\ UNCHANGED <<file, currentID, handles>>
  BY DEF StopEvent
<1> HIDE DEF line
<1>4. /\ file \in Dates /\ logs[file] \in Seq(Line)
      /\ logs'[file] = Append(logs[file], line)
      /\ \A d \in Dates \ {file} : logs'[d] = logs[d]
  BY <1>2, <1>3, OneLogWritten
<1>5. \A e \in story : /\ Now(e) \in StoryEvent /\ Now(e).of = e.of /\ Now(e).id = e.id
                       /\ Now(e).parent = e.parent
  BY <1>1 DEF StoryOK, StoryEvent
<1>6. h.here => \E e \in story : e.of = file /\ e.id = h.id /\ e.parent = h.parent
  BY DEF StoryOK
<1>7. ASSUME NEW e \in story, Now(e).of \notin strays' PROVE Told(logs'[e.of], Now(e))
  <2>1. e \in StoryEvent /\ e.of \in Dates /\ e.of \notin strays /\ Told(logs[e.of], e)
    BY <1>3, <1>5, <1>7 DEF StoryOK, StoryEvent
  <2>2. CASE e.of # file
    BY <1>4, <2>1, <2>2
  <2>3. CASE e.of = file /\ e.id # h.id
    <3>1. Told(Append(logs[file], line), e)
      BY <1>2, <1>4, <2>1, <2>3, StillTold
    <3> QED
      BY <1>4, <2>3, <3>1
  <2>4. CASE e.of = file /\ e.id = h.id
    <3>1. h.here /\ Now(e) = [e EXCEPT !.end = now]
      BY <1>3, <1>5, <1>7, <2>4
    <3>2. Told(Append(logs[file], line), [e EXCEPT !.end = now])
      BY <1>1, <1>2, <1>4, <2>1, <2>4, StopTold
    <3> QED
      BY <1>4, <2>4, <3>1, <3>2
  <2> QED
    BY <2>2, <2>3, <2>4
<1> HIDE DEF Now
<1>8. story' \subseteq StoryEvent
      /\ \A e, f \in story' : e.of = f.of /\ e.id = f.id => e = f
  BY <1>3, <1>5 DEF StoryOK
<1>9. \A e \in story' : e.of = file' => e.id <= currentID'
  BY <1>3, <1>5 DEF StoryOK
<1>10. \A g \in handles' : g.here =>
         \E e \in story' : e.of = file' /\ e.id = g.id /\ e.parent = g.parent
  BY <1>3, <1>5 DEF StoryOK
<1>11. ASSUME NEW d \in Dates \ strays'
       PROVE  Ids(logs'[d]) = {e.id : e \in {f \in story' : f.of = d}}
  <2>1. Ids(logs[d]) = {e.id : e \in {f \in story : f.of = d}}
    BY <1>3 DEF StoryOK
  <2>2. {e.id : e \in {f \in story' : f.of = d}} = {e.id : e \in {f \in story : f.of = d}}
    BY <1>3, <1>5
  <2>3. CASE d = file
    <3>1. \A i : i \in Ids(Append(logs[file], line)) <=> i \in Ids(logs[file]) \/ i = h.id
      BY <1>2, <1>4, IdsAdded
    <3>2. h.here
      BY <1>3, <2>3
    <3>3. h.id \in Ids(logs[file])
      BY <1>6, <2>1, <2>3, <3>2
    <3>4. Ids(logs'[d]) \subseteq Ids(logs[d]) /\ Ids(logs[d]) \subseteq Ids(logs'[d])
      BY <1>4, <2>3, <3>1, <3>3
    <3>5. Ids(logs'[d]) = Ids(logs[d])
      BY <3>4
    <3> QED
      BY <2>1, <2>2, <3>5
  <2>4. CASE d # file
    BY <1>4, <2>1, <2>2, <2>4
  <2> QED
    BY <2>3, <2>4
<1>12. \A e \in story' : e.of \notin strays' => Told(logs'[e.of], e)
  <2> SUFFICES ASSUME NEW e \in story, Now(e).of \notin strays'
               PROVE  Told(logs'[Now(e).of], Now(e))
    BY <1>3
  <2>1. Now(e).of = e.of
    BY <1>5
  <2> QED
    BY <1>7, <2>1
<1> QED
  BY <1>8, <1>9, <1>10, <1>11, <1>12 DEF StoryOK

\* A file that is emptied has no story yet.
LEMMA OpeningKeepsStory ==
  ASSUME LogsOK, StoryOK, NEW date \in Dates, InitLogging(date)
  PROVE  StoryOK'
<1>1. /\ file' = date /\ logs' = [logs EXCEPT ![date] = <<>>]
      /\ handles' = {[h EXCEPT !.here = FALSE] : h \in handles}
      /\ story' = {e \in story : e.of # date}
      /\ strays' = strays \ {date}
      /\ currentID' = currentID
  BY DEF InitLogging, OpenToWrite
<1>2. logs'[date] = <<>> /\ \A d \in Dates \ {date} : logs'[d] = logs[d]
  BY <1>1 DEF LogsOK
<1>3. Ids(<<>>) = {}
  BY DEF Ids
<1>4. \A h \in handles' : ~h.here
  BY <1>1 DEF LogsOK, Handle
<1>5. ASSUME NEW d \in Dates \ strays'
      PROVE  Ids(logs'[d]) = {e.id : e \in {f \in story' : f.of = d}}
  <2>1. CASE d = date
    BY <1>1, <1>2, <1>3, <2>1
  <2>2. CASE d # date
    <3>1. Ids(logs[d]) = {e.id : e \in {f \in story : f.of = d}}
      BY <1>1, <2>2 DEF StoryOK
    <3>2. {f \in story' : f.of = d} = {f \in story : f.of = d}
      BY <1>1, <2>2
    <3> QED
      BY <1>2, <2>2, <3>1, <3>2
  <2> QED
    BY <2>1, <2>2
<1>6. ASSUME NEW e \in story', e.of \notin strays' PROVE Told(logs'[e.of], e)
  <2>1. e \in story /\ e.of # date /\ e.of \notin strays /\ e.of \in Dates
    BY <1>1, <1>6 DEF StoryOK, StoryEvent
  <2> QED
    BY <1>2, <2>1 DEF StoryOK
<1>7. /\ story' \subseteq StoryEvent
      /\ \A e, f \in story' : e.of = f.of /\ e.id = f.id => e = f
      /\ \A e \in story' : e.of # file'
  BY <1>1 DEF StoryOK
<1> QED
  BY <1>4, <1>5, <1>6, <1>7 DEF StoryOK

\* Without an open file nothing can be added to a story.
LEMMA ClosedKeepsStory ==
  ASSUME StoryOK, file' = None, UNCHANGED <<logs, story, strays>>,
         \A h \in handles' : ~h.here
  PROVE  StoryOK'
<1>1. \A e \in story : e.of # file'
  BY LoggerAssumption DEF StoryOK, StoryEvent
<1> QED
  BY <1>1 DEF StoryOK

\* Every call of the logger keeps its types and the story.
LEMMA LoggerSteps ==
  ASSUME LogsOK, StoryInv,
         \/ \E date \in Dates : InitLogging(date)
         \/ InitLoggingFails
         \/ \E parent \in Parents : Log(parent)
         \/ LogFails
         \/ \E h \in handles : StopEvent(h)
         \/ LogData
  PROVE  StoryInv'
<1>1. LoggerOK /\ StoryOK /\ MaxEvents \in Nat /\ currentID \in -1 .. MaxEvents - 1
  BY LoggerAssumption DEF StoryInv, LoggerOK, LoggerTypeOK
<1>2. ASSUME NEW date \in Dates, InitLogging(date) PROVE StoryInv'
  <2>1. /\ file' = date /\ names' = names \cup {date} /\ dirExists' = TRUE
        /\ handles' = {[h EXCEPT !.here = FALSE] : h \in handles}
        /\ logs'[date] = <<>> /\ \A d \in Dates \ {date} : logs'[d] = logs[d]
        /\ UNCHANGED <<currentID, now>>
    BY <1>2, LogEmptied DEF InitLogging, OpenToWrite, LogsOK
  <2>2. Ids(<<>>) = {}
    BY DEF Ids
  <2>3. \A d \in Dates : Ids(logs'[d]) \subseteq 0 .. MaxEvents - 1
    BY <1>1, <2>1, <2>2 DEF LoggerOK
  <2>4. \A h \in handles' : h.id \in 0 .. MaxEvents - 1
    BY <1>1, <2>1 DEF LoggerOK, LogsOK, Handle
  <2>5. LoggerOK'
    BY <1>1, <2>1, <2>3, <2>4 DEF LoggerOK, LoggerTypeOK
  <2> QED
    BY <1>1, <1>2, <2>5, OpeningKeepsStory DEF StoryInv
<1>3. CASE InitLoggingFails
  <2>1. /\ file' = None /\ dirExists' = TRUE
        /\ handles' = {[h EXCEPT !.here = FALSE] : h \in handles}
        /\ UNCHANGED <<names, logs, currentID, now, story, strays>>
    BY <1>3 DEF InitLoggingFails
  <2>2. \A h \in handles' : ~h.here /\ h.id \in 0 .. MaxEvents - 1
    BY <1>1, <2>1 DEF LoggerOK, LogsOK, Handle
  <2>3. LoggerOK'
    BY <1>1, <2>1, <2>2 DEF LoggerOK, LoggerTypeOK
  <2> QED
    BY <1>1, <2>1, <2>2, <2>3, ClosedKeepsStory DEF StoryInv
<1>4. ASSUME NEW parent \in Parents, Log(parent) PROVE StoryInv'
  <2> DEFINE line == EventLine(UniqueID, parent)
  <2>1. parent \in Int /\ currentID \in Int /\ now \in Int
    BY DEF Parents, LogsOK, Handle
  <2>2. line \in Line /\ line.id = currentID + 1
    BY <2>1 DEF EventLine, UniqueID, Line
  <2>3. /\ file # None /\ WriteLine(line) /\ currentID < MaxEvents - 1
        /\ currentID' = currentID + 1
        /\ handles' = handles \cup {[id |-> currentID + 1, parent |-> parent, here |-> TRUE]}
        /\ UNCHANGED <<dirExists, names, file>>
    BY <1>4 DEF Log, UniqueID
  <2> HIDE DEF line
  <2>4. currentID + 1 \in 0 .. MaxEvents - 1 /\ currentID' \in -1 .. MaxEvents - 1
    BY <1>1, <2>3
  <2>5. \A h \in handles' : h.id \in 0 .. MaxEvents - 1
    BY <1>1, <2>3, <2>4 DEF LoggerOK
  <2>6. LoggerOK'
    BY <1>1, <2>2, <2>3, <2>4, <2>5, WritingKeepsLogger
  <2> QED
    BY <1>1, <1>4, <2>6, LogKeepsStory DEF StoryInv
<1>5. CASE LogFails
  <2>1. /\ file = None /\ file' = None /\ currentID' \in -1 .. MaxEvents - 1
        /\ UNCHANGED <<dirExists, names, logs, handles, now, story, strays>>
    BY <1>1, <1>5 DEF LogFails, UniqueID
  <2>2. \A h \in handles' : ~h.here
    BY <1>1, <2>1, LoggerAssumption DEF StoryOK, StoryEvent, LogsOK, Handle
  <2>3. LoggerOK'
    BY <1>1, <2>1 DEF LoggerOK, LoggerTypeOK
  <2> QED
    BY <1>1, <2>1, <2>2, <2>3, ClosedKeepsStory DEF StoryInv
<1>6. ASSUME NEW h \in handles, StopEvent(h) PROVE StoryInv'
  <2>1. EventLine(h.id, h.parent) \in Line /\ EventLine(h.id, h.parent).id = h.id
    BY DEF EventLine, Line, LogsOK, Handle
  <2>2. LoggerOK'
    BY <1>1, <1>6, <2>1, WritingKeepsLogger DEF StopEvent, LoggerOK
  <2> QED
    BY <1>1, <1>6, <2>2, StopKeepsStory DEF StoryInv
<1>7. CASE LogData
  <2>1. DataLine \in Line /\ ~IsEvent(DataLine)
    BY DEF DataLine, Line, IsEvent, LogsOK
  <2>2. LoggerOK'
    BY <1>1, <1>7, <2>1, WritingKeepsLogger DEF LogData, LoggerOK
  <2> QED
    BY <1>1, <1>7, <2>2, DataKeepsStory DEF StoryInv
<1> QED
  BY <1>2, <1>3, <1>4, <1>5, <1>6, <1>7

\* A new program has no open file and no events to stop.
LEMMA RestartKeepsStory == LogsOK /\ StoryInv /\ Restart => StoryInv'
<1> SUFFICES ASSUME LogsOK, StoryInv, Restart PROVE StoryInv'
  OBVIOUS
<1>1. /\ file' = None /\ currentID' = -1 /\ handles' = {} /\ now' = 0
      /\ UNCHANGED <<dirExists, names, logs, story, strays>>
  BY DEF Restart
<1>2. StoryOK'
  BY <1>1, ClosedKeepsStory DEF StoryInv
<1>3. LoggerOK'
  BY <1>1, LoggerAssumption DEF StoryInv, LoggerOK, LoggerTypeOK
<1> QED
  BY <1>2, <1>3 DEF StoryInv

LEMMA SameStory == StoryInv /\ UNCHANGED loggerVars => StoryInv'
  BY DEF StoryInv, StoryOK, LoggerOK, LoggerTypeOK, loggerVars

ProgramOK ==
  /\ program \in {"off", "init", "idle", "up"} /\ boots \in 0 .. MaxBoots
  /\ page \in {"closed", "listing", "loading", "ready", "dead"}

LEMMA Bounds == MaxEvents \in Nat /\ MaxTime \in Nat /\ MaxBoots \in Nat
  BY LoggerAssumption, RobotLogsAssumption

LEMMA StoryStarts == Init => StoryInv /\ ProgramOK
<1> SUFFICES ASSUME Init PROVE StoryInv /\ ProgramOK
  OBVIOUS
<1>1. Ids(<<>>) = {}
  BY DEF Ids
<1>2. /\ dirExists = FALSE /\ names = {} /\ file = None /\ currentID = -1 /\ handles = {}
      /\ now = 0 /\ story = {} /\ strays = {} /\ \A d \in Dates : logs[d] = <<>>
  BY DEF Init, LoggerInit
<1>3. LoggerOK
  <2>1. -1 \in -1 .. MaxEvents - 1 /\ 0 \in 0 .. MaxTime
    BY Bounds
  <2>2. LoggerTypeOK
    BY <1>2, <2>1 DEF LoggerTypeOK
  <2>3. \A d \in Dates : Ids(logs[d]) \subseteq 0 .. MaxEvents - 1
    BY <1>1, <1>2
  <2> QED
    BY <1>2, <2>2, <2>3 DEF LoggerOK
<1>4. StoryOK
  BY <1>1, <1>2 DEF StoryOK
<1>5. ProgramOK
  BY Bounds DEF Init, ProgramOK
<1> QED
  BY <1>3, <1>4, <1>5 DEF StoryInv

LEMMA StorySteps == IInv /\ StoryInv /\ ProgramOK /\ [Next]_vars => StoryInv' /\ ProgramOK'
<1> SUFFICES ASSUME IInv, StoryInv, ProgramOK, [Next]_vars PROVE StoryInv' /\ ProgramOK'
  OBVIOUS
<1>1. CASE Boot
  <2>1. ProgramOK'
    BY <1>1, Bounds DEF Boot, ProgramOK, pageVars
  <2> QED
    BY <1>1, <2>1, RestartKeepsStory DEF Boot, IInv
<1>2. CASE RobotCode
  <2>1. ProgramOK'
    BY <1>2 DEF RobotCode, programVars, ProgramOK
  <2> QED
    BY <1>2, <2>1, LoggerSteps DEF RobotCode, IInv
<1>3. CASE ~Boot /\ ~RobotCode
  <2>1. UNCHANGED loggerVars
    BY <1>3 DEF Next, StartHTTPServer, PowerLoss, Ends, Serve, AnswerList, ReadDirectory, Measure,
       Read, OpenPage, Close, Receive, Listed, Loaded, Select, vars
  <2>2. ProgramOK'
    BY <1>3 DEF Next, StartHTTPServer, PowerLoss, Ends, Serve, AnswerList, ReadDirectory, Measure,
       Read, OpenPage, Close, Receive, Listed, Loaded, Select, vars, programVars, pageVars, ProgramOK
  <2> QED
    BY <2>1, <2>2, SameStory
<1> QED
  BY <1>1, <1>2, <1>3

LEMMA StoryAlways == Spec => [](IInv /\ StoryInv /\ ProgramOK)
  BY Starts, Steps, StoryStarts, StorySteps, PTL DEF Spec

\* The specification keeps every variable in its type, and no log has an id that
\* the robot could not have given.
THEOREM TypeCorrect == Spec => []TypeOK
<1>1. IInv /\ StoryInv /\ ProgramOK => TypeOK
  <2> SUFFICES ASSUME IInv, StoryInv, ProgramOK PROVE TypeOK
    OBVIOUS
  <2>1. \A d \in names : Ids(logs[d]) \subseteq 0 .. MaxEvents - 1
    BY DEF StoryInv, LoggerOK, LoggerTypeOK
  <2>2. \A n \in Slots : requests[n].of \in Known
    BY DEF IInv, RequestsOK, Requests
  <2> QED
    BY <2>1, <2>2 DEF IInv, PageOK, StoryInv, LoggerOK, ProgramOK, TypeOK
<1> QED
  BY <1>1, StoryAlways, PTL

\* What the viewer makes of the lines of an event that is told by them.
LEMMA ViewOfTold ==
  ASSUME NEW log \in Seq(Line), NEW e \in StoryEvent, Told(log, e)
  PROVE  /\ e.id \in Finished(log) <=> e.end # Unfinished
         /\ e.id \in Ids(log)
         /\ e.end # Unfinished => Event(log, e.id) = [id |-> e.id, parent |-> e.parent,
                                                      start |-> e.start, end |-> e.end]
<1> DEFINE T == LinesOf(log, e.id)
<1>1. DOMAIN log = 1 .. Len(log) /\ Len(log) \in Nat /\ T \subseteq 1 .. Len(log)
  BY LenProperties DEF LinesOf
<1>2. PICK a \in T, b \in T :
        /\ \A n \in T : a <= n /\ n <= b
        /\ log[a].parent = e.parent /\ log[a].time = e.start
        /\ IF e.end = Unfinished THEN a = b ELSE a # b /\ log[b].time = e.end
  BY DEF Told
<1>3. e.id \in Ids(log)
  BY <1>2 DEF LinesOf, Ids
<1>4. e.id \in Finished(log) <=> e.end # Unfinished
  <2>1. (\E m, n \in T : m # n) <=> a # b
    <3> HIDE DEF T
    <3>1. \A n \in T : n \in Int
      BY <1>1
    <3> QED
      BY <1>2, <3>1
  <2> QED
    BY <1>2, <1>3, <2>1 DEF Finished
<1>5. PICK x : x = Min(T) /\ x \in T /\ \A n \in T : x <= n
  <2>1. T \in SUBSET Nat /\ T # {}
    BY <1>1, <1>2
  <2> HIDE DEF T
  <2> QED
    BY <2>1, MinOfNaturals
<1>6. PICK y : y = Max(T) /\ y \in T /\ \A n \in T : n <= y
  <2>1. T \in SUBSET (1 .. Len(log)) /\ T # {} /\ 1 \in Int /\ Len(log) \in Int
    BY <1>1, <1>2
  <2> HIDE DEF T
  <2> QED
    BY <2>1, MaxOfInterval
<1>7. x = a /\ y = b
  <2> HIDE DEF T
  <2> QED
    BY <1>1, <1>2, <1>5, <1>6
<1>8. FirstLine(log, e.id) = log[a] /\ LastLine(log, e.id) = log[b]
  BY <1>5, <1>6, <1>7 DEF FirstLine, LastLine
<1> QED
  BY <1>2, <1>3, <1>4, <1>8 DEF Event

\* What the viewer shows of a log is what the robot did when it wrote it, for
\* any number of events, lines, files and programs: each event that was stopped
\* with its start and its last stop, every other one as a point.
THEOREM LogsTellStories == Spec => []LogTellsStory
<1>1. IInv /\ StoryInv => LogTellsStory
  <2> SUFFICES ASSUME IInv, StoryInv, NEW d \in names \ strays
               PROVE  LET told == {e \in story : e.of = d}
                      IN /\ Finished(logs[d]) = {e.id : e \in {e \in told : e.end # Unfinished}}
                         /\ PointEvents(logs[d]) = {e.id : e \in {e \in told : e.end = Unfinished}}
                         /\ \A e \in told : e.end # Unfinished =>
                              Event(logs[d], e.id) = [id |-> e.id, parent |-> e.parent,
                                                      start |-> e.start, end |-> e.end]
    BY DEF LogTellsStory
  <2> DEFINE told == {e \in story : e.of = d}
             log == logs[d]
  <2>1. d \in Dates \ strays /\ log \in Seq(Line)
    BY DEF IInv, LogsOK
  <2>2. Ids(log) = {e.id : e \in told}
    BY <2>1 DEF StoryInv, StoryOK
  <2>3. \A e, f \in told : e.id = f.id => e = f
    BY DEF StoryInv, StoryOK
  <2>4. ASSUME NEW e \in told
        PROVE  /\ e.id \in Finished(log) <=> e.end # Unfinished
               /\ e.end # Unfinished => Event(log, e.id) = [id |-> e.id, parent |-> e.parent,
                                                            start |-> e.start, end |-> e.end]
    <3>1. e \in StoryEvent /\ Told(log, e)
      BY <2>1, <2>4 DEF StoryInv, StoryOK
    <3> QED
      BY <2>1, <3>1, ViewOfTold
  <2>5. Finished(log) \subseteq Ids(log)
    BY DEF Finished
  <2>6. Finished(log) = {e.id : e \in {e \in told : e.end # Unfinished}}
    <3> DEFINE stopped == {e.id : e \in {e \in told : e.end # Unfinished}}
    <3>1. ASSUME NEW i \in Finished(log) PROVE i \in stopped
      <4>1. PICK e \in told : e.id = i
        BY <2>2, <2>5, Zenon
      <4>2. e.end # Unfinished
        BY <2>4, <4>1, Zenon
      <4> QED
        BY <4>1, <4>2, Zenon
    <3>2. ASSUME NEW i \in stopped PROVE i \in Finished(log)
      <4>1. PICK e \in told : e.id = i /\ e.end # Unfinished
        BY Zenon
      <4> QED
        BY <2>4, <4>1, Zenon
    <3> HIDE DEF stopped
    <3>3. Finished(log) = stopped
      BY <3>1, <3>2, Zenon
    <3> QED
      BY <3>3, Zenon DEF stopped
  <2>7. PointEvents(log) = {e.id : e \in {e \in told : e.end = Unfinished}}
    <3> DEFINE open == {e.id : e \in {e \in told : e.end = Unfinished}}
    <3>1. ASSUME NEW i \in PointEvents(log) PROVE i \in open
      <4>1. PICK e \in told : e.id = i
        BY <2>2, Zenon DEF PointEvents
      <4>2. e.end = Unfinished
        BY <2>4, <4>1, Zenon DEF PointEvents
      <4> QED
        BY <4>1, <4>2, Zenon
    <3>2. ASSUME NEW i \in open PROVE i \in PointEvents(log)
      <4>1. PICK e \in told : e.id = i /\ e.end = Unfinished
        BY Zenon
      <4>2. i \in Ids(log) /\ i \notin Finished(log)
        BY <2>2, <2>4, <4>1, Zenon
      <4> QED
        BY <4>2, Zenon DEF PointEvents
    <3> HIDE DEF open
    <3>3. PointEvents(log) = open
      BY <3>1, <3>2, Zenon
    <3> QED
      BY <3>3, Zenon DEF open
  <2> QED
    BY <2>4, <2>6, <2>7
<1> QED
  BY <1>1, StoryAlways, PTL

------------------------------------------------------------------------------
(* What a page is answered *)

\* What was measured is a log that is there.
ServiceInv == \A n \in Slots : requests[n].state = "measured" => requests[n].of \in names

Measured(r) == r.state = "measured"

LEMMA NothingMeasured ==
  ASSUME ServiceInv, names \subseteq names',
         \A n \in Slots : Measured(requests'[n]) =>
           requests'[n].of \in names \/ (requests'[n].of = requests[n].of /\ Measured(requests[n]))
  PROVE  ServiceInv'
  BY DEF ServiceInv, Measured

LEMMA SlotChanged ==
  ASSUME RequestsOK, NEW n \in Slots, NEW r, requests' = [requests EXCEPT ![n] = r]
  PROVE  \A k \in Slots : requests'[k] = IF k = n THEN r ELSE requests[k]
  BY DEF RequestsOK

LEMMA ServiceStays == IInv /\ ServiceInv /\ [Next]_vars => ServiceInv'
<1> SUFFICES ASSUME IInv, ServiceInv, [Next]_vars PROVE ServiceInv'
  OBVIOUS
<1>1. RequestsOK /\ LogsOK /\ requests \in [Slots -> Requests]
  BY DEF IInv, RequestsOK
<1>2. names \subseteq names'
  BY DEF Next, Boot, Restart, StartHTTPServer, RobotCode, InitLogging, InitLoggingFails, Log,
     LogFails, StopEvent, LogData, PowerLoss, Ends, Serve, AnswerList, ReadDirectory, Measure,
     Read, OpenPage, Close, Receive, Listed, Loaded, Select, vars, loggerVars
<1>3. ASSUME UNCHANGED requests PROVE ServiceInv'
  BY <1>2, <1>3, NothingMeasured
<1>4. Free.state = "free"
  BY Constants
<1>5. CASE Ends
  <2>1. \A n \in Slots : requests'[n] \in {requests[n], Free}
    BY <1>5 DEF Ends, Surviving
  <2> QED
    BY <1>2, <1>4, <2>1, NothingMeasured DEF Measured
<1>6. ASSUME NEW n \in Slots, NEW of, Ask(n, of) PROVE ServiceInv'
  <2>1. \A k \in Slots : k # n => requests'[k] = requests[k]
    BY <1>1, <1>6 DEF Ask
  <2>2. requests'[n].state = "sent"
    BY <1>1, <1>6 DEF Ask, Request
  <2> QED
    BY <1>2, <2>1, <2>2, NothingMeasured DEF Measured
<1>7. ASSUME NEW n \in Slots, NEW reply, Answer(n, reply) PROVE ServiceInv'
  <2>1. \A k \in Slots : k # n => requests'[k] = requests[k]
    BY <1>1, <1>7 DEF Answer
  <2>2. requests'[n].state = "answered"
    BY <1>1, <1>7 DEF Answer, Requests
  <2> QED
    BY <1>2, <2>1, <2>2, NothingMeasured DEF Measured
<1>8. ASSUME NEW n \in Slots, Done(n) PROVE ServiceInv'
  <2>1. \A k \in Slots : requests'[k] \in {requests[k], Free}
    BY <1>1, <1>8 DEF Done
  <2> QED
    BY <1>2, <1>4, <2>1, NothingMeasured DEF Measured
<1>9. CASE RobotCode
  <2>1. ASSUME NEW date \in Dates, requests' = Truncated(date) PROVE ServiceInv'
    <3>1. \A n \in Slots : requests'[n].of = requests[n].of /\ requests'[n].state = requests[n].state
      BY <1>1, <2>1 DEF Truncated, Requests
    <3> QED
      BY <1>2, <3>1, NothingMeasured DEF Measured
  <2> QED
    BY <1>3, <1>9, <2>1 DEF RobotCode
<1>10. CASE Serve
  <2>1. ASSUME NEW n \in Slots, Measure(n) PROVE ServiceInv'
    <3>1. \A k \in Slots : k # n => requests'[k] = requests[k]
      BY <1>1, <2>1 DEF Measure
    <3>2. requests'[n].of = requests[n].of /\ requests[n].of \in names
      BY <1>1, <2>1 DEF Measure, Requests
    <3> QED
      BY <1>2, <3>1, <3>2, NothingMeasured
  <2> QED
    BY <1>5, <1>7, <1>10, <2>1 DEF Serve, AnswerList, ReadDirectory, Read
<1>11. CASE OpenPage \/ Receive \/ \E name \in options : Select(name)
  <2>1. \A n \in FirstFree : n \in Slots
    BY DEF FirstFree
  <2>2. CASE OpenPage
    BY <1>5, <1>6, <2>1, <2>2 DEF OpenPage
  <2>3. CASE Receive
    BY <1>6, <1>8, <2>3 DEF Receive, Listed, Loaded
  <2>4. CASE \E name \in options : Select(name)
    BY <1>3, <1>6, <2>1, <2>4 DEF Select
  <2> QED
    BY <1>11, <2>2, <2>3, <2>4
<1>12. CASE Close
  <2>1. \A n \in Slots : requests'[n] = Free
    BY <1>12 DEF Close
  <2> QED
    BY <1>2, <1>4, <2>1, NothingMeasured DEF Measured
<1>13. CASE Boot \/ StartHTTPServer \/ UNCHANGED vars
  BY <1>3, <1>13 DEF Boot, StartHTTPServer, pageVars, vars
<1> QED
  BY <1>5, <1>9, <1>10, <1>11, <1>12, <1>13 DEF Next, PowerLoss

LEMMA ServiceAlways == Spec => [](IInv /\ StoryInv /\ ServiceInv)
<1>1. Init => ServiceInv
  BY Constants DEF Init, ServiceInv
<1> QED
  BY <1>1, StoryAlways, ServiceStays, PTL DEF Spec

\* A step in which no request is sent or answered, and no log changes.
LEMMA ForgetStep ==
  ASSUME UNCHANGED <<names, logs>>,
         \A n \in Slots : AsAsked(requests'[n]) \in {AsAsked(requests[n]), AsAsked(Free)}
  PROVE  Service!Forget
  BY DEF Service!Forget, AsAsked

LEMMA NobodyAsked ==
  ASSUME UNCHANGED <<names, logs>>, \A n \in Slots : requests'[n] \in {requests[n], Free}
  PROVE  Service!Forget
  BY ForgetStep

\* Another line.
LEMMA WriteStep ==
  ASSUME LogsOK, NEW line \in Line, file # None, WriteLine(line), UNCHANGED <<names, requests>>
  PROVE  file \in Dates /\ Service!Write(file)
<1>1. /\ file \in Dates /\ logs[file] \in Seq(Line)
      /\ logs'[file] = Append(logs[file], line)
      /\ \A d \in Dates \ {file} : logs'[d] = logs[d]
  BY OneLogWritten
<1>2. Len(logs'[file]) = Len(logs[file]) + 1
  BY <1>1, LineAdded
<1>3. \A k \in 1 .. Len(logs[file]) : logs'[file][k] = logs[file][k]
  BY <1>1, LineAdded
<1>4. UNCHANGED <<names, [n \in Slots |-> AsAsked(requests[n])]>>
  BY DEF AsAsked
<1> QED
  BY <1>1, <1>2, <1>3, <1>4 DEF Service!Write

\* What is asked of the service when a request gets another promise, or an answer.
AskedOf(of, state, least, void, reply) ==
  [of |-> of, state |-> state, least |-> least, void |-> void, reply |-> reply]

LEMMA AnotherPromise ==
  ASSUME NEW q \in Requests, NEW cut
  PROVE  AsAsked([q EXCEPT !.least = 0, !.cut = cut]) = [AsAsked(q) EXCEPT !.least = 0, !.void = cut]
<1> DEFINE r == [q EXCEPT !.least = 0, !.cut = cut]
           a == AsAsked(q)
           b == [a EXCEPT !.least = 0]
<1>1. r.of = q.of /\ r.state = q.state /\ r.least = 0 /\ r.cut = cut /\ r.reply = q.reply
  BY DEF Requests
<1>2. [a EXCEPT !.least = 0, !.void = cut] = [b EXCEPT !.void = cut]
  OBVIOUS
<1> HIDE DEF r
<1>3. AsAsked(r) = AskedOf(q.of, a.state, 0, cut, q.reply)
  BY <1>1 DEF AsAsked, AskedOf
<1>4. a = AskedOf(q.of, a.state, q.least, q.cut, q.reply)
  BY DEF AsAsked, AskedOf
<1> HIDE DEF a
<1>5. b = AskedOf(q.of, a.state, 0, q.cut, q.reply)
  BY <1>4 DEF AskedOf
<1> HIDE DEF b
<1>6. [b EXCEPT !.void = cut] = AskedOf(q.of, a.state, 0, cut, q.reply)
  BY <1>5 DEF AskedOf
<1>7. AsAsked(r) = [a EXCEPT !.least = 0, !.void = cut]
  BY <1>2, <1>3, <1>6
<1> QED
  BY <1>7 DEF r, a

LEMMA AnotherAnswer ==
  ASSUME NEW q \in Requests, NEW reply
  PROVE  AsAsked([q EXCEPT !.state = "answered", !.reply = reply]) =
           [AsAsked(q) EXCEPT !.state = "answered", !.reply = reply]
<1> DEFINE r == [q EXCEPT !.state = "answered", !.reply = reply]
           a == AsAsked(q)
           b == [a EXCEPT !.state = "answered"]
<1>1. r.of = q.of /\ r.state = "answered" /\ r.least = q.least /\ r.cut = q.cut /\ r.reply = reply
  BY DEF Requests
<1>2. [a EXCEPT !.state = "answered", !.reply = reply] = [b EXCEPT !.reply = reply]
  OBVIOUS
<1> HIDE DEF r
<1>3. AsAsked(r) = AskedOf(q.of, "answered", q.least, q.cut, reply)
  BY <1>1 DEF AsAsked, AskedOf
<1>4. a = AskedOf(q.of, a.state, q.least, q.cut, q.reply)
  BY DEF AsAsked, AskedOf
<1> HIDE DEF a
<1>5. b = AskedOf(q.of, "answered", q.least, q.cut, q.reply)
  BY <1>4 DEF AskedOf
<1> HIDE DEF b
<1>6. [b EXCEPT !.reply = reply] = AskedOf(q.of, "answered", q.least, q.cut, reply)
  BY <1>5 DEF AskedOf
<1>7. AsAsked(r) = [a EXCEPT !.state = "answered", !.reply = reply]
  BY <1>2, <1>3, <1>6
<1> QED
  BY <1>7 DEF r, a

\* A log is emptied, and with it what was promised of it.
LEMMA EmptyStep ==
  ASSUME LogsOK, RequestsOK, NEW date \in Dates, InitLogging(date), requests' = Truncated(date)
  PROVE  Service!Empty(date)
<1>1. names' = names \cup {date} /\ logs' = [logs EXCEPT ![date] = <<>>]
  BY DEF InitLogging, OpenToWrite
<1>2. ASSUME NEW n \in Slots
      PROVE  IF AsAsked(requests[n]).state = "sent" /\ AsAsked(requests[n]).of = date
             THEN \E void \in BOOLEAN :
                    AsAsked(requests'[n]) = [AsAsked(requests[n]) EXCEPT !.least = 0, !.void = void]
             ELSE AsAsked(requests'[n]) = AsAsked(requests[n])
  <2> DEFINE r == requests[n]
  <2>1. r \in Requests /\ (r.state = "free" => r.of # date)
    BY Constants DEF RequestsOK, Sound
  <2>2. requests'[n] = IF r.of # date \/ r.state = "answered" THEN r
                       ELSE [r EXCEPT !.least = 0, !.cut = r.state = "measured"]
    BY DEF Truncated
  <2>3. CASE r.of # date \/ r.state = "answered"
    BY <2>1, <2>2, <2>3 DEF AsAsked
  <2>4. CASE r.of = date /\ r.state \in {"sent", "measured"}
    <3> DEFINE cut == r.state = "measured"
    <3>1. cut \in BOOLEAN
      OBVIOUS
    <3>2. r.of = date /\ r.state # "answered"
      BY <2>4
    <3>3. requests'[n] = [r EXCEPT !.least = 0, !.cut = cut]
      BY <2>2, <3>2, Zenon
    <3> HIDE DEF cut
    <3>4. AsAsked([r EXCEPT !.least = 0, !.cut = cut]) =
            [AsAsked(r) EXCEPT !.least = 0, !.void = cut]
      BY <2>1, AnotherPromise, Zenon
    <3>5. AsAsked(requests'[n]) = [AsAsked(r) EXCEPT !.least = 0, !.void = cut]
      BY <3>3, <3>4, Zenon
    <3>6. AsAsked(r).state = "sent" /\ AsAsked(r).of = date
      BY <2>4 DEF AsAsked
    <3>7. \E void \in BOOLEAN :
            AsAsked(requests'[n]) = [AsAsked(r) EXCEPT !.least = 0, !.void = void]
      BY <3>1, <3>5, Zenon
    <3> QED
      BY <3>6, <3>7, Zenon
  <2>5. r.state \in {"free", "sent", "measured", "answered"}
    BY <2>1 DEF Requests
  <2> QED
    BY <2>1, <2>3, <2>4, <2>5
<1>3. ASSUME NEW n \in Slots
      PROVE  IF Service!Waiting(n) /\ [k \in Slots |-> AsAsked(requests[k])][n].of = date
             THEN \E void \in BOOLEAN :
                    [k \in Slots |-> AsAsked(requests[k])]'[n] =
                      [[k \in Slots |-> AsAsked(requests[k])][n] EXCEPT !.least = 0, !.void = void]
             ELSE [k \in Slots |-> AsAsked(requests[k])]'[n] =
                    [k \in Slots |-> AsAsked(requests[k])][n]
  <2>1. [k \in Slots |-> AsAsked(requests[k])][n] = AsAsked(requests[n])
    OBVIOUS
  <2>2. [k \in Slots |-> AsAsked(requests[k])]'[n] = AsAsked(requests'[n])
    BY DEF AsAsked
  <2> QED
    BY <1>2, <2>1, <2>2 DEF Service!Waiting
<1> QED
  BY <1>1, <1>3 DEF Service!Empty

\* A slot is taken by a new request.
LEMMA AskStep ==
  ASSUME RequestsOK, UNCHANGED <<names, logs>>, NEW n \in Slots, NEW of \in Known, Ask(n, of),
         requests[n].state \in {"free", "answered"}
  PROVE  Service!Ask(n, of)
<1> DEFINE lines == IF of \in names THEN Len(logs[of]) ELSE 0
           r == Request(of, "sent", lines)
<1>1. AsAsked(r) = Service!Question(of, lines)
  BY DEF AsAsked, Request, Free, Service!Question
<1>2. requests' = [requests EXCEPT ![n] = r]
  BY DEF Ask
<1> HIDE DEF r
<1>3. \A k \in Slots : requests'[k] = IF k = n THEN r ELSE requests[k]
  BY <1>2, SlotChanged
<1>4. [k \in Slots |-> AsAsked(requests[k])]' =
        [[k \in Slots |-> AsAsked(requests[k])] EXCEPT ![n] = AsAsked(r)]
  BY <1>3 DEF AsAsked
<1>5. AsAsked(requests[n]).state # "sent"
  BY DEF AsAsked
<1> QED
  BY <1>1, <1>4, <1>5 DEF Service!Ask, Service!Waiting

\* A request is answered.
LEMMA AnswerStep ==
  ASSUME RequestsOK, NEW n \in Slots, NEW reply, Answer(n, reply),
         requests[n].state \in {"sent", "measured"}
  PROVE  /\ Service!Reply(n, reply) /\ Service!Waiting(n)
         /\ [k \in Slots |-> AsAsked(requests[k])][n].of = requests[n].of
         /\ [k \in Slots |-> AsAsked(requests[k])][n].void = requests[n].cut
         /\ [k \in Slots |-> AsAsked(requests[k])][n].least = requests[n].least
<1> DEFINE q == requests[n]
           r == [q EXCEPT !.state = "answered", !.reply = reply]
<1>1. q \in Requests /\ requests' = [requests EXCEPT ![n] = r]
  BY DEF RequestsOK, Answer, Requests
<1>2. AsAsked(r) = [AsAsked(q) EXCEPT !.state = "answered", !.reply = reply]
  BY <1>1, AnotherAnswer
<1>3. \A k \in Slots : requests'[k] = IF k = n THEN r ELSE requests[k]
  BY <1>1, SlotChanged
<1> HIDE DEF r
<1>4. [k \in Slots |-> AsAsked(requests[k])]' =
        [[k \in Slots |-> AsAsked(requests[k])] EXCEPT ![n] =
           [AsAsked(q) EXCEPT !.state = "answered", !.reply = reply]]
  BY <1>2, <1>3 DEF AsAsked
<1>5. Service!Reply(n, reply)
  BY <1>4 DEF Service!Reply
<1> QED
  BY <1>5 DEF Service!Waiting, AsAsked

\* The two halves of a reading are the beginning of the log as it is now.
LEMMA ReadStep ==
  ASSUME LogsOK, RequestsOK, ServiceInv, NEW n \in Slots, Read(n)
  PROVE  Service!Answer(n)
<1> DEFINE q == requests[n]
           log == logs[q.of]
<1>1. q \in Requests /\ Sound(q) /\ q.state = "measured" /\ UNCHANGED <<names, logs>>
  BY DEF RequestsOK, Read, loggerVars
<1>2. PICK torn \in BOOLEAN :
        /\ torn => q.cut /\ q.size > 0
        /\ q.size > Len(log) => torn
        /\ Answer(n, ReadSize(q, torn))
  BY DEF Read
<1>3. /\ q.of \in names /\ q.of \in Dates /\ log \in Seq(Line) /\ Len(log) \in Nat
      /\ q.size \in Nat /\ q.least \in Nat
  BY <1>1, LenProperties DEF LogsOK, Requests, Sound, ServiceInv
<1> DEFINE k == IF q.size < Len(log) THEN q.size ELSE Len(log)
<1>4. k \in 0 .. Len(log) /\ (~q.cut => k >= q.least /\ ~torn)
  BY <1>1, <1>2, <1>3 DEF Sound, Promise
<1>5. SubSeq(log, 1, Len(log)) = log
  BY <1>3
<1>6. ReadSize(q, torn) = Reply(SubSeq(log, 1, k), torn)
  BY <1>5 DEF ReadSize
<1> HIDE DEF k
<1>7. Answer(n, Reply(SubSeq(log, 1, k), torn))
  BY <1>2, <1>6
<1>8. Service!ReplyLog(n)
  BY <1>1, <1>3, <1>4, <1>7, AnswerStep DEF Service!ReplyLog
<1>9. Service!Waiting(n)
  BY <1>1, <1>7, AnswerStep
<1> QED
  BY <1>1, <1>8, <1>9 DEF Service!Answer

LEMMA RobotServes ==
  ASSUME IInv, StoryInv, RobotCode
  PROVE  Service!ServiceNext
<1>1. LogsOK /\ RequestsOK /\ file \in names \cup {None}
  BY DEF IInv, StoryInv, LoggerOK, LoggerTypeOK
<1>2. ASSUME NEW date \in Dates, InitLogging(date), requests' = Truncated(date)
      PROVE  Service!ServiceNext
  BY <1>1, <1>2, EmptyStep DEF Service!ServiceNext
<1>3. ASSUME NEW line \in Line, file # None, WriteLine(line), UNCHANGED <<names, requests>>
      PROVE  Service!ServiceNext
  BY <1>1, <1>3, WriteStep DEF Service!ServiceNext
<1>4. ASSUME UNCHANGED <<names, logs, requests>> PROVE Service!ServiceNext
  BY <1>4, NobodyAsked DEF Service!ServiceNext
<1>5. ASSUME UNCHANGED requests, NEW parent \in Parents, Log(parent) PROVE Service!ServiceNext
  <2>1. EventLine(UniqueID, parent) \in Line
    BY <1>1 DEF EventLine, UniqueID, Line, LogsOK, Parents, Handle
  <2> QED
    BY <1>3, <1>5, <2>1 DEF Log
<1>6. ASSUME UNCHANGED requests, NEW h \in handles, StopEvent(h) PROVE Service!ServiceNext
  <2>1. EventLine(h.id, h.parent) \in Line
    BY <1>1 DEF EventLine, Line, LogsOK, Handle
  <2> QED
    BY <1>3, <1>6, <2>1 DEF StopEvent
<1>7. ASSUME UNCHANGED requests, LogData PROVE Service!ServiceNext
  <2>1. DataLine \in Line
    BY <1>1 DEF DataLine, Line, LogsOK
  <2> QED
    BY <1>3, <1>7, <2>1 DEF LogData
<1>8. ASSUME UNCHANGED requests, InitLoggingFails \/ LogFails PROVE Service!ServiceNext
  BY <1>4, <1>8 DEF InitLoggingFails, LogFails
<1> QED
  BY <1>2, <1>5, <1>6, <1>7, <1>8 DEF RobotCode

LEMMA EndServes == Ends => Service!Forget
<1> SUFFICES ASSUME Ends PROVE Service!Forget
  OBVIOUS
<1>1. \A n \in Slots : requests'[n] \in {requests[n], Free}
  BY DEF Ends, Surviving
<1> QED
  BY <1>1, NobodyAsked DEF Ends, loggerVars

LEMMA ServerServes ==
  ASSUME IInv, StoryInv, ServiceInv, Serve
  PROVE  Service!ServiceNext
<1>1. LogsOK /\ RequestsOK
  BY DEF IInv
<1>2. ASSUME NEW n \in Slots, Service!Answer(n) PROVE Service!ServiceNext
  BY <1>2 DEF Service!ServiceNext
<1>3. ASSUME NEW n \in Slots, AnswerList(n) PROVE Service!ServiceNext
  <2>1. Service!ReplyNames(n) /\ Service!Waiting(n) /\ UNCHANGED <<names, logs>>
    BY <1>1, <1>3, AnswerStep DEF AnswerList, Sent, loggerVars, Service!ReplyNames
  <2> QED
    BY <1>2, <2>1 DEF Service!Answer
<1>4. ASSUME NEW n \in Slots, ReadDirectory(n) PROVE Service!ServiceNext
  <2>1. CASE Ends
    BY <2>1, EndServes DEF Service!ServiceNext
  <2>2. CASE Answer(n, Reply(<<>>, FALSE)) /\ UNCHANGED loggerVars
    <3>1. Service!ReplyNothing(n) /\ Service!Waiting(n)
      BY <1>1, <1>4, <2>2, AnswerStep DEF ReadDirectory, Sent, Service!ReplyNothing
    <3> QED
      BY <1>2, <2>2, <3>1 DEF Service!Answer, loggerVars
  <2> QED
    BY <1>4, <2>1, <2>2 DEF ReadDirectory
<1>5. ASSUME NEW n \in Slots, Measure(n) PROVE Service!ServiceNext
  <2> DEFINE q == requests[n]
             r == [q EXCEPT !.state = "measured", !.size = Len(logs[q.of])]
  <2>1. q \in Requests /\ requests' = [requests EXCEPT ![n] = r] /\ q.state = "sent"
        /\ UNCHANGED <<names, logs>>
    BY <1>1, <1>5 DEF RequestsOK, Requests, Measure, Sent, loggerVars
  <2>2. AsAsked(r) = AsAsked(q)
    BY <2>1 DEF AsAsked, Requests
  <2>3. \A k \in Slots : requests'[k] = IF k = n THEN r ELSE requests[k]
    BY <1>1, <2>1, SlotChanged
  <2> HIDE DEF r
  <2>4. \A k \in Slots : AsAsked(requests'[k]) = AsAsked(requests[k])
    BY <2>2, <2>3
  <2> QED
    BY <2>1, <2>4, ForgetStep DEF Service!ServiceNext
<1>6. ASSUME NEW n \in Slots, Read(n) PROVE Service!ServiceNext
  BY <1>1, <1>2, <1>6, ReadStep
<1> QED
  BY <1>3, <1>4, <1>5, <1>6 DEF Serve

LEMMA PageIsServed ==
  ASSUME IInv, StoryInv,
         OpenPage \/ Close \/ Receive \/ \E name \in options : Select(name)
  PROVE  Service!ServiceNext
<1>1. LogsOK /\ RequestsOK /\ options \subseteq Dates
  BY DEF IInv, PageOK
<1>2. ASSUME NEW n \in Slots, NEW of \in Known, Ask(n, of), UNCHANGED <<names, logs>>,
             requests[n].state \in {"free", "answered"}
      PROVE  Service!ServiceNext
  BY <1>1, <1>2, AskStep DEF Service!ServiceNext, Known
<1>3. ASSUME NEW n \in Slots, Done(n), UNCHANGED <<names, logs>> PROVE Service!ServiceNext
  <2>1. \A k \in Slots : requests'[k] \in {requests[k], Free}
    BY <1>1, <1>3, SlotChanged DEF Done
  <2> QED
    BY <1>3, <2>1, NobodyAsked DEF Service!ServiceNext
<1>4. ASSUME NEW n \in FirstFree PROVE n \in Slots /\ requests[n].state = "free"
  BY DEF FirstFree, Pending
<1>5. CASE OpenPage
  <2>1. CASE Ends
    BY <2>1, EndServes DEF Service!ServiceNext
  <2>2. CASE ~Ends
    BY <1>2, <1>4, <1>5, <2>2 DEF OpenPage, Known, loggerVars
  <2> QED
    BY <2>1, <2>2
<1>6. CASE Close
  <2>1. \A n \in Slots : requests'[n] = Free
    BY <1>6 DEF Close
  <2> QED
    BY <1>6, <2>1, NobodyAsked DEF Close, loggerVars, Service!ServiceNext
<1>7. ASSUME NEW n \in Slots, Listed(n) PROVE Service!ServiceNext
  <2>1. selected' \in Known
    BY <1>1, <1>7 DEF Listed, Answered, Filtered, Known, Sound, RequestsOK
  <2>2. UNCHANGED <<names, logs>> /\ requests[n].state = "answered"
    BY <1>7 DEF Listed, Answered, loggerVars
  <2> QED
    BY <1>2, <1>3, <1>7, <2>1, <2>2 DEF Listed
<1>8. ASSUME NEW n \in Slots, Loaded(n) PROVE Service!ServiceNext
  BY <1>3, <1>8 DEF Loaded, loggerVars
<1>9. ASSUME NEW name \in options, Select(name) PROVE Service!ServiceNext
  <2>1. UNCHANGED <<names, logs>> /\ name \in Known
    BY <1>1, <1>9 DEF Select, loggerVars, Known
  <2>2. CASE UNCHANGED requests
    BY <2>1, <2>2, NobodyAsked DEF Service!ServiceNext
  <2> QED
    BY <1>2, <1>4, <1>9, <2>1, <2>2 DEF Select
<1> QED
  BY <1>5, <1>6, <1>7, <1>8, <1>9 DEF Receive

LEMMA ServiceSteps ==
  IInv /\ StoryInv /\ ServiceInv /\ [Next]_vars => [Service!ServiceNext]_(Service!serviceVars)
<1> SUFFICES ASSUME IInv, StoryInv, ServiceInv, [Next]_vars PROVE Service!ServiceNext
  OBVIOUS
<1>1. CASE Boot \/ StartHTTPServer \/ UNCHANGED vars
  <2>1. UNCHANGED <<names, logs, requests>>
    BY <1>1 DEF Boot, Restart, StartHTTPServer, vars, loggerVars, pageVars
  <2> QED
    BY <2>1, NobodyAsked DEF Service!ServiceNext
<1>2. CASE PowerLoss
  BY <1>2, EndServes DEF PowerLoss, Service!ServiceNext
<1> QED
  BY <1>1, <1>2, RobotServes, ServerServes, PageIsServed DEF Next

\* The robot, its server and the pages do what LogService promises: an answer
\* is a log as it was at one moment since it was asked for, or the names of all
\* of them, although a log is read in two halves beside the thread that writes
\* it, and the program may be cut off between them.
THEOREM ServiceImplemented == Spec => ImplementsService
<1>1. Init => Service!ServiceInit
  BY DEF Init, LoggerInit, AsAsked, Service!ServiceInit
<1> QED
  BY <1>1, ServiceAlways, ServiceSteps, PTL DEF Spec, ImplementsService, Service!ServiceSpec

------------------------------------------------------------------------------
(* The levels *)

LEMMA ListsAreLists == \A list \in Lists : EventList(list)
<1> SUFFICES ASSUME NEW list \in Lists PROVE EventList(list)
  OBVIOUS
<1>1. PICK t \in [1 .. 3 -> {u \in Times \X Times : u[1] <= u[2]}] :
        list = [i \in 1 .. 3 |-> [id |-> i, start |-> t[i][1], end |-> t[i][2]]]
  BY DEF Lists, EventLists
<1>2. \A i \in 1 .. 3 : t[i][1] \in Int /\ t[i][2] \in Int
  BY DEF Times
<1>3. list \in Seq([id : Int, start : Int, end : Int]) /\ Len(list) = 3
  BY <1>1, <1>2
<1> QED
  BY <1>1, <1>2, <1>3 DEF EventList

\* Two events that go on at the same time never hide each other: for any list
\* of events, in any order, and so for those of the run.
THEOREM LevelsKeepApart ==
  /\ \A list : EventList(list) => Apart(list)
  /\ Spec => []LevelsApart
<1>1. \A list : EventList(list) => Apart(list)
  BY EventsApart
<1>2. LevelsApart
  BY <1>1, ListsAreLists DEF LevelsApart
<1> QED
  BY <1>1, <1>2, PTL

\* No level is opened that is not needed: for any list of events that take some
\* time, in the order in which they begin, and so for those of the run.
THEOREM LevelsAreFewest ==
  /\ \A list : EventList(list) /\ InOrder(list) /\ TakesTime(list) => Fewest(list)
  /\ Spec => []LevelsFewest
<1>1. \A list : EventList(list) /\ InOrder(list) /\ TakesTime(list) => Fewest(list)
  BY EventsFewest
<1>2. LevelsFewest
  BY <1>1, ListsAreLists DEF LevelsFewest
<1> QED
  BY <1>1, <1>2, PTL
==============================================================================
