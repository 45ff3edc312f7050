------------------------------ MODULE LogService ------------------------------
(***************************************************************************)
(* What the robot promises to a page that asks for its logs, without the   *)
(* server's thread and the two halves of its reading: an answer is the     *)
(* beginning of a log as it was at one moment since it was asked for, or   *)
(* the names of all logs at one moment.  Only a request that was under way *)
(* when its log was emptied may be answered with less or with a torn line. *)
(* RobotLogs implements this specification: its ImplementsService.         *)
(***************************************************************************)
EXTENDS Integers, Sequences

CONSTANTS
  Dates,        \* names of logs
  List, NoName, \* requests for the names of all logs, and for none of them
  Slots,
  Nothing,      \* a slot without a request
  View(_, _)    \* what a page finds in lines, of which the last may be torn

VARIABLES
  names,        \* of the logs there are
  logs,         \* name -> its lines
  asked         \* slot -> [of, state, least, void, reply]; least: lines there
                \* were when it was asked for; void: it was emptied since

serviceVars == <<names, logs, asked>>

ServiceInit ==
  /\ names = {} /\ logs = [d \in Dates |-> <<>>]
  /\ asked = [n \in Slots |-> Nothing]

\* Another line, of any kind.
Write(d) ==
  /\ Len(logs'[d]) = Len(logs[d]) + 1
  /\ \A k \in 1 .. Len(logs[d]) : logs'[d][k] = logs[d][k]
  /\ \A e \in Dates \ {d} : logs'[e] = logs[e]
  /\ UNCHANGED <<names, asked>>

Waiting(n) == asked[n].state = "sent"

Empty(d) ==
  /\ names' = names \cup {d}
  /\ logs' = [logs EXCEPT ![d] = <<>>]
  /\ \A n \in Slots :
       IF Waiting(n) /\ asked[n].of = d
       THEN \E void \in BOOLEAN : asked'[n] = [asked[n] EXCEPT !.least = 0, !.void = void]
       ELSE asked'[n] = asked[n]

Question(of, lines) ==
  [of |-> of, state |-> "sent", least |-> lines, void |-> FALSE, reply |-> Nothing.reply]

\* A request that waits is not replaced by another one.
Ask(n, of) ==
  /\ UNCHANGED <<names, logs>>
  /\ ~Waiting(n)
  /\ asked' = [asked EXCEPT ![n] = Question(of, IF of \in names THEN Len(logs[of]) ELSE 0)]

Reply(n, reply) == asked' = [asked EXCEPT ![n].state = "answered", ![n].reply = reply]

ReplyNames(n) == asked[n].of = List /\ Reply(n, names)
ReplyNothing(n) == asked[n].of = NoName /\ Reply(n, View(<<>>, FALSE))

\* All that was there when it was asked for, and no more than there is now.
ReplyLog(n) ==
  LET log == logs[asked[n].of]
  IN /\ asked[n].of \in names
     /\ \E k \in 0 .. Len(log), torn \in BOOLEAN :
          /\ ~asked[n].void => k >= asked[n].least /\ ~torn
          /\ Reply(n, View(SubSeq(log, 1, k), torn))

Answer(n) ==
  /\ UNCHANGED <<names, logs>>
  /\ Waiting(n)
  /\ ReplyNames(n) \/ ReplyNothing(n) \/ ReplyLog(n)

\* The page has taken its answers, or was closed, or the program has ended.
Forget ==
  /\ UNCHANGED <<names, logs>>
  /\ \A n \in Slots : asked'[n] \in {asked[n], Nothing}

ServiceNext ==
  \/ Forget
  \/ \E d \in names : Write(d)
  \/ \E d \in Dates : Empty(d)
  \/ \E n \in Slots : Answer(n) \/ \E of \in Dates \cup {List, NoName} : Ask(n, of)

ServiceSpec == ServiceInit /\ [][ServiceNext]_serviceVars
==============================================================================
