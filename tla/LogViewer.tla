------------------------------ MODULE LogViewer ------------------------------
(***************************************************************************)
(* What tools/logViewer/script.js makes of the lines of a log: spacetime   *)
(* events (a start and an end), point events (a start only), and the       *)
(* levels on which the spacetime events are drawn.                         *)
(***************************************************************************)
EXTENDS Integers, SequencesExt

IsEvent(line) == line.type = "event"
Ids(log) == {log[n].id : n \in {k \in DOMAIN log : IsEvent(log[k])}}

\* Where the lines of an event are.
LinesOf(log, i) == {n \in DOMAIN log : IsEvent(log[n]) /\ log[n].id = i}
FirstLine(log, i) == log[Min(LinesOf(log, i))]
LastLine(log, i) == log[Max(LinesOf(log, i))]

\* The first line of an id is the start, the last of the others is the end.
Event(log, i) ==
  [id |-> i, parent |-> FirstLine(log, i).parent,
   start |-> FirstLine(log, i).time, end |-> LastLine(log, i).time]

\* A wrong filter: an event is finished when it has begun.
Begun(log) == Ids(log)

Finished(log) == {i \in Ids(log) : \E m, n \in LinesOf(log, i) : m # n}

\* getPointEvents
PointEvents(log) == Ids(log) \ Finished(log)

\* A finished event whose parent is not in the log is an error of
\* getSpacetimeEvents.  One whose parent is leaves undefined in the list of
\* events: getSpacetimeEvents succeeds, and getLevels fails.
Nested(log) == {i \in Finished(log) : Event(log, i).parent # -1}
Orphans(log) == {i \in Nested(log) : Event(log, i).parent \notin Ids(log)}

\* The events in the order of Object.values, which is that of their ids.
SpacetimeEvents(log) ==
  LET byId == SetToSortSeq(Finished(log), <)
  IN [n \in DOMAIN byId |-> Event(log, byId[n])]

\* A wrong comparison: an event may begin where another one is still going on.
BeginTogether(e, f) == e.start = f.start

DoEventsOverlap(e, f) == e.start < f.end /\ e.end > f.start

Fits(track, e) == \A f \in track : ~DoEventsOverlap(e, f)

\* A wrong track: only the last one is tried.
LastTrack(tracks, e) ==
  IF tracks # <<>> /\ Fits(Last(tracks), e) THEN Len(tracks) ELSE Len(tracks) + 1

\* The first track in which an event overlaps none, or a new one.
TrackFor(tracks, e) ==
  Min({k \in DOMAIN tracks : Fits(tracks[k], e)} \cup {Len(tracks) + 1})

Placed(tracks, e) ==
  LET k == TrackFor(tracks, e)
  IN IF k \in DOMAIN tracks THEN [tracks EXCEPT ![k] = @ \cup {e}]
     ELSE Append(tracks, {e})

SortIntoTracks(events) ==
  LET tracks[n \in 0 .. Len(events)] ==
        IF n = 0 THEN <<>> ELSE Placed(tracks[n - 1], events[n])
  IN tracks[Len(events)]

\* getLevels of events without children, which are one level high.
Levels(events) ==
  LET tracks == SortIntoTracks(events)
  IN [i \in {events[n].id : n \in DOMAIN events} |->
        CHOOSE k \in 0 .. Len(tracks) - 1 : \E e \in tracks[k + 1] : e.id = i]

------------------------------------------------------------------------------
(* What a list of events and its levels should be to each other *)

Overlap(e, f) == Max({e.start, f.start}) < Min({e.end, f.end})

\* No two events that go on at the same time are drawn on one level, whatever
\* their order in the list.
Apart(events) ==
  \A m, n \in DOMAIN events : m # n /\ Overlap(events[m], events[n]) =>
    Levels(events)[events[m].id] # Levels(events)[events[n].id]

InOrder(events) ==
  \A m, n \in DOMAIN events : m < n => events[m].start <= events[n].start
TakesTime(events) == \A n \in DOMAIN events : events[n].start < events[n].end

Together(events, t) == {n \in DOMAIN events : events[n].start <= t /\ t < events[n].end}

\* The events are drawn on no more levels than there are events at one time.
Fewest(events) ==
  \/ DOMAIN events = {}
  \/ \E m \in DOMAIN events : \A n \in DOMAIN events :
       Levels(events)[events[n].id] < Cardinality(Together(events, events[m].start))
==============================================================================
