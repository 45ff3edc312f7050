--------------------------- MODULE LogViewerProofs ---------------------------
(***************************************************************************)
(* The levels on which the log viewer draws events, for every list of      *)
(* events.                                                                 *)
(***************************************************************************)
EXTENDS LogViewer, NumberLemmas, FiniteSetTheorems, SequenceTheorems

\* Events with times, each with an id of its own.
EventList(events) ==
  /\ \E S : events \in Seq(S)
  /\ \A n \in 1 .. Len(events) : events[n].start \in Int /\ events[n].end \in Int
  /\ \A m, n \in 1 .. Len(events) : events[m].id = events[n].id => m = n

\* The events up to the n-th.
First(events, n) == {events[m] : m \in 1 .. n}
All(events) == First(events, Len(events))

LEMMA ListFacts ==
  ASSUME NEW events, EventList(events)
  PROVE  /\ Len(events) \in Nat /\ DOMAIN events = 1 .. Len(events)
         /\ \A n \in 1 .. Len(events) : events[n] \in All(events)
         /\ \A m, n \in 1 .. Len(events) : events[m] = events[n] => m = n
<1>1. Len(events) \in Nat /\ DOMAIN events = 1 .. Len(events)
  BY LenProperties DEF EventList
<1> QED
  BY <1>1 DEF EventList, All, First

------------------------------------------------------------------------------
(* One event *)

\* The track that is found, and why not one before it.
LEMMA TrackFound ==
  ASSUME NEW E, NEW tracks \in Seq(SUBSET E), NEW e
  PROVE  /\ TrackFor(tracks, e) \in 1 .. Len(tracks) + 1
         /\ TrackFor(tracks, e) <= Len(tracks) => Fits(tracks[TrackFor(tracks, e)], e)
         /\ \A k \in 1 .. Len(tracks) : k < TrackFor(tracks, e) => ~Fits(tracks[k], e)
<1> DEFINE L == Len(tracks)
           T == {k \in DOMAIN tracks : Fits(tracks[k], e)} \cup {L + 1}
<1>1. L \in Nat /\ DOMAIN tracks = 1 .. L
  BY LenProperties
<1>2. T \in SUBSET Nat /\ T # {} /\ T \subseteq 1 .. L + 1
  BY <1>1
<1>3. PICK m : m = Min(T) /\ m \in T /\ \A k \in T : m <= k
  <2> HIDE DEF T
  <2> QED
    BY <1>2, MinOfNaturals
<1>4. TrackFor(tracks, e) = m
  BY <1>3 DEF TrackFor
<1>5. m \in 1 .. L + 1 /\ (m <= L => Fits(tracks[m], e))
  BY <1>1, <1>2, <1>3
<1>6. ASSUME NEW k \in 1 .. L, k < m PROVE ~Fits(tracks[k], e)
  <2>1. k \notin T
    <3> HIDE DEF T
    <3>1. k \in T => m <= k
      BY <1>3
    <3> QED
      BY <1>1, <1>5, <1>6, <3>1
  <2> QED
    BY <1>1, <2>1
<1> QED
  BY <1>4, <1>5, <1>6

\* Its track has the event besides what it had; the others are as they were.
LEMMA EventPlaced ==
  ASSUME NEW E, NEW tracks \in Seq(SUBSET E), NEW e \in E
  PROVE  LET placed == Placed(tracks, e)
             k == TrackFor(tracks, e)
         IN /\ placed \in Seq(SUBSET E)
            /\ Len(tracks) \in Nat /\ Len(placed) \in Nat
            /\ Len(tracks) <= Len(placed) /\ Len(placed) <= Len(tracks) + 1
            /\ k \in 1 .. Len(placed) /\ e \in placed[k]
            /\ k <= Len(tracks) => placed[k] = tracks[k] \cup {e} /\ Fits(tracks[k], e)
                                   /\ Len(placed) = Len(tracks)
            /\ k > Len(tracks) => placed[k] = {e} /\ k = Len(tracks) + 1
                                  /\ \A j \in 1 .. Len(tracks) : ~Fits(tracks[j], e)
            /\ \A j \in 1 .. Len(placed) : j # k => j \in 1 .. Len(tracks) /\ placed[j] = tracks[j]
            /\ \A j \in 1 .. Len(tracks) : j \in 1 .. Len(placed) /\ tracks[j] \subseteq placed[j]
<1> DEFINE placed == Placed(tracks, e)
           k == TrackFor(tracks, e)
           L == Len(tracks)
<1>1. /\ L \in Nat /\ DOMAIN tracks = 1 .. L /\ k \in 1 .. L + 1
      /\ k <= L => Fits(tracks[k], e)
      /\ \A j \in 1 .. L : j < k => ~Fits(tracks[j], e)
  BY LenProperties, TrackFound
<1>2. CASE k <= L
  <2>1. k \in 1 .. L
    BY <1>1, <1>2
  <2>2. tracks[k] \cup {e} \in SUBSET E
    BY <2>1, ElementOfSeq
  <2>3. placed = [tracks EXCEPT ![k] = tracks[k] \cup {e}]
    BY <1>1, <2>1 DEF Placed
  <2> HIDE DEF k, placed
  <2>4. /\ placed \in Seq(SUBSET E) /\ Len(placed) = L
        /\ \A j \in 1 .. L : placed[j] = IF j = k THEN tracks[k] \cup {e} ELSE tracks[j]
    BY <2>1, <2>2, <2>3, ExceptSeq
  <2> QED
    BY <1>1, <1>2, <2>1, <2>4 DEF k, placed
<1>3. CASE ~(k <= L)
  <2>1. k = L + 1 /\ k \notin DOMAIN tracks
    BY <1>1, <1>3
  <2>2. placed = Append(tracks, {e})
    BY <2>1 DEF Placed
  <2>3. \A j \in 1 .. L : ~Fits(tracks[j], e)
    BY <1>1, <2>1
  <2> HIDE DEF k, placed
  <2>4. /\ placed \in Seq(SUBSET E) /\ Len(placed) = L + 1
        /\ \A j \in 1 .. L : placed[j] = tracks[j]
        /\ placed[L + 1] = {e}
    BY <2>2, AppendProperties
  <2>5. placed[k] = {e}
    BY <2>1, <2>4
  <2>6. /\ \A j \in 1 .. L : j \in 1 .. Len(placed) /\ tracks[j] \subseteq placed[j]
        /\ \A j \in 1 .. Len(placed) : j # k => j \in 1 .. L /\ placed[j] = tracks[j]
        /\ Len(placed) \in Nat /\ L <= Len(placed) /\ Len(placed) <= L + 1
        /\ k \in 1 .. Len(placed)
    BY <1>1, <2>1, <2>4
  <2> QED
    BY <1>1, <1>3, <2>1, <2>3, <2>4, <2>5, <2>6 DEF k, placed
<1> QED
  BY <1>2, <1>3

------------------------------------------------------------------------------
(* All events, one after the other *)

\* The tracks after each of the events.
TracksAfter(F, events) ==
  /\ F \in [0 .. Len(events) -> Seq(SUBSET All(events))]
  /\ F[0] = <<>>
  /\ \A n \in 1 .. Len(events) : F[n] = Placed(F[n - 1], events[n])

LEMMA TracksExist ==
  ASSUME NEW events, EventList(events)
  PROVE  \E F : TracksAfter(F, events) /\ SortIntoTracks(events) = F[Len(events)]
<1> DEFINE L == Len(events)
           S == Seq(SUBSET All(events))
           next == [p \in (1 .. L) \X S |-> Placed(p[2], events[p[1]])]
           none == <<>>
           Def(F) == F = [n \in 0 .. L |-> IF n = 0 THEN <<>> ELSE Placed(F[n - 1], events[n])]
<1>1. L \in Nat /\ \A n \in 1 .. L : events[n] \in All(events)
  BY ListFacts
<1>2. next \in [(1 .. L) \X S -> S]
  BY <1>1, EventPlaced
<1>3. none \in S
  BY EmptySeq
<1>4. PICK F \in [0 .. L -> S] : F[0] = none /\ \A n \in 1 .. L : F[n] = next[<<n, F[n - 1]>>]
  <2>1. L \in Nat
    BY <1>1
  <2> HIDE DEF next, S, L, none
  <2> QED
    BY <1>2, <1>3, <2>1, StepByStep DEF Unrolls
<1>5. ASSUME NEW n \in 1 .. L PROVE F[n] = Placed(F[n - 1], events[n])
  <2>1. n - 1 \in 0 .. L
    BY <1>1
  <2>2. <<n, F[n - 1]>> \in (1 .. L) \X S
    BY <2>1
  <2> QED
    BY <1>4, <2>2
<1>6. Def(F)
  <2>1. \A n \in 0 .. L : F[n] = IF n = 0 THEN <<>> ELSE Placed(F[n - 1], events[n])
    BY <1>1, <1>4, <1>5
  <2> HIDE DEF S
  <2> QED
    BY <2>1
<1> DEFINE G == CHOOSE G : Def(G)
<1>7. Def(G)
  BY <1>6
<1>8. \A n \in 0 .. L : G[n] = IF n = 0 THEN <<>> ELSE Placed(G[n - 1], events[n])
  BY <1>7
<1>9. \A n \in 0 .. L : G[n] = F[n]
  <2> DEFINE T == {n \in 0 .. L : G[n] = F[n]}
  <2> HIDE DEF G
  <2>1. 0 \in T
    BY <1>1, <1>4, <1>8
  <2>2. ASSUME NEW n \in 0 .. L - 1, n \in T PROVE n + 1 \in T
    <3>1. n + 1 \in 1 .. L /\ n + 1 \in 0 .. L /\ n + 1 # 0 /\ (n + 1) - 1 = n
      BY <1>1
    <3>2. G[n + 1] = Placed(G[n], events[n + 1]) /\ F[n + 1] = Placed(F[n], events[n + 1])
      BY <1>5, <1>8, <3>1
    <3> QED
      BY <2>2, <3>1, <3>2
  <2>3. 0 .. L \subseteq T
    <3> HIDE DEF T
    <3> QED
      BY <1>1, <2>1, <2>2, UpTo
  <2> QED
    BY <2>3
<1>10. SortIntoTracks(events) = G[L]
  BY DEF SortIntoTracks
<1>11. SortIntoTracks(events) = F[L]
  BY <1>1, <1>9, <1>10
<1> QED
  BY <1>4, <1>5, <1>11 DEF TracksAfter

\* Where the first n events are: each in a track, none with one it overlaps, and
\* nothing else.
Sorted(tracks, events, n) ==
  /\ \A m \in 1 .. n : \E k \in 1 .. Len(tracks) : events[m] \in tracks[k]
  /\ \A k \in 1 .. Len(tracks) :
       /\ tracks[k] \subseteq First(events, n)
       /\ \A e, f \in tracks[k] : e # f => ~DoEventsOverlap(e, f)

\* No event is in two tracks.
Disjoint(tracks) ==
  \A j, k \in 1 .. Len(tracks) : j # k => tracks[j] \cap tracks[k] = {}

LEMMA PlacedStaysSorted ==
  ASSUME NEW events, EventList(events), NEW n \in 1 .. Len(events),
         NEW tracks \in Seq(SUBSET All(events)), Sorted(tracks, events, n - 1), Disjoint(tracks)
  PROVE  Sorted(Placed(tracks, events[n]), events, n) /\ Disjoint(Placed(tracks, events[n]))
<1> DEFINE e == events[n]
           placed == Placed(tracks, e)
           k == TrackFor(tracks, e)
           L == Len(tracks)
<1>1. /\ Len(events) \in Nat /\ e \in All(events)
      /\ \A m \in 1 .. n - 1 : events[m] # e
  BY ListFacts
<1>2. /\ L \in Nat /\ Len(placed) \in Nat
      /\ L <= Len(placed) /\ Len(placed) <= L + 1
      /\ k \in 1 .. Len(placed) /\ e \in placed[k]
      /\ k <= L => placed[k] = tracks[k] \cup {e} /\ Fits(tracks[k], e)
      /\ k > L => placed[k] = {e}
      /\ \A j \in 1 .. Len(placed) : j # k => j \in 1 .. L /\ placed[j] = tracks[j]
      /\ \A j \in 1 .. L : j \in 1 .. Len(placed) /\ tracks[j] \subseteq placed[j]
  <2>1. e \in All(events)
    BY <1>1, Zenon
  <2> HIDE DEF e
  <2> QED
    BY <2>1, EventPlaced, ZenonT(60)
<1>3. \A j \in 1 .. L : e \notin tracks[j] /\ tracks[j] \subseteq First(events, n - 1)
  BY <1>1 DEF Sorted, First
<1>4. First(events, n) = First(events, n - 1) \cup {e}
  <2>1. \A m : m \in 1 .. n <=> m \in 1 .. n - 1 \/ m = n
    BY <1>1
  <2> QED
    BY <2>1 DEF First
<1> HIDE DEF placed, k, e
<1>5. ASSUME NEW m \in 1 .. n PROVE \E j \in 1 .. Len(placed) : events[m] \in placed[j]
  <2>1. CASE m = n
    BY <1>2, <2>1 DEF e
  <2>2. CASE m # n
    <3>1. m \in 1 .. n - 1
      BY <1>1, <2>2
    <3>2. PICK j \in 1 .. L : events[m] \in tracks[j]
      BY <3>1 DEF Sorted
    <3> QED
      BY <1>2, <3>2
  <2> QED
    BY <2>1, <2>2
<1>6. ASSUME NEW j \in 1 .. Len(placed)
      PROVE  /\ placed[j] \subseteq First(events, n)
             /\ \A x, y \in placed[j] : x # y => ~DoEventsOverlap(x, y)
  <2>1. CASE j # k
    BY <1>2, <1>3, <1>4, <2>1 DEF Sorted
  <2>2. CASE j = k /\ k > L
    BY <1>2, <1>4, <2>2
  <2>3. CASE j = k /\ k <= L
    <3>1. k \in 1 .. L /\ placed[k] = tracks[k] \cup {e}
      BY <1>2, <2>3
    <3>2. \A x \in tracks[k] : ~DoEventsOverlap(e, x)
      BY <1>2, <2>3 DEF Fits
    <3>3. \A x \in tracks[k] : ~DoEventsOverlap(x, e)
      <4>1. /\ \A m \in 1 .. Len(events) : events[m].start \in Int /\ events[m].end \in Int
            /\ \A x \in tracks[k] : \E m \in 1 .. Len(events) : x = events[m]
            /\ e.start \in Int /\ e.end \in Int
        BY <1>1, <1>3, <3>1 DEF EventList, First, e
      <4> QED
        BY <3>2, <4>1 DEF DoEventsOverlap
    <3> QED
      BY <1>3, <1>4, <2>3, <3>1, <3>2, <3>3 DEF Sorted
  <2> QED
    BY <1>2, <2>1, <2>2, <2>3
<1>7. Disjoint(placed)
  <2> SUFFICES ASSUME NEW i \in 1 .. Len(placed), NEW j \in 1 .. Len(placed), i # j
               PROVE  placed[i] \cap placed[j] = {}
    BY DEF Disjoint
  <2>1. placed[i] \subseteq (IF i \in 1 .. L THEN tracks[i] ELSE {}) \cup (IF i = k THEN {e} ELSE {})
    BY <1>2
  <2>2. placed[j] \subseteq (IF j \in 1 .. L THEN tracks[j] ELSE {}) \cup (IF j = k THEN {e} ELSE {})
    BY <1>2
  <2> QED
    BY <1>3, <2>1, <2>2 DEF Disjoint
<1> QED
  BY <1>5, <1>6, <1>7 DEF Sorted, e, placed

\* So it is after all of them.
LEMMA AllSorted ==
  ASSUME NEW events, EventList(events), NEW F, TracksAfter(F, events)
  PROVE  \A n \in 0 .. Len(events) : Sorted(F[n], events, n) /\ Disjoint(F[n])
<1> DEFINE L == Len(events)
           T == {n \in 0 .. L : Sorted(F[n], events, n) /\ Disjoint(F[n])}
<1>1. L \in Nat
  BY ListFacts
<1>2. 0 \in T
  <2>1. F[0] = <<>> /\ Len(<<>>) = 0 /\ 1 .. 0 = {}
    BY DEF TracksAfter
  <2> QED
    BY <1>1, <2>1 DEF Sorted, Disjoint
<1>3. ASSUME NEW n \in 0 .. L - 1, n \in T PROVE n + 1 \in T
  <2>1. n \in 0 .. L /\ n + 1 \in 1 .. L /\ n + 1 \in 0 .. L /\ (n + 1) - 1 = n
    BY <1>1
  <2>2. F[n] \in Seq(SUBSET All(events)) /\ F[n + 1] = Placed(F[n], events[n + 1])
    BY <2>1 DEF TracksAfter
  <2>3. Sorted(F[n], events, (n + 1) - 1) /\ Disjoint(F[n])
    BY <1>3, <2>1
  <2>4. Sorted(F[n + 1], events, n + 1) /\ Disjoint(F[n + 1])
    BY <2>1, <2>2, <2>3, PlacedStaysSorted
  <2> QED
    BY <2>1, <2>4
<1>4. 0 .. L \subseteq T
  <2> HIDE DEF T
  <2> QED
    BY <1>1, <1>2, <1>3, UpTo
<1> QED
  BY <1>4

\* Every event has a level, which is that of a track with it.
LEMMA LevelOfEvent ==
  ASSUME NEW events, EventList(events), NEW tracks, tracks = SortIntoTracks(events),
         Len(tracks) \in Nat, Sorted(tracks, events, Len(events)),
         NEW n \in 1 .. Len(events)
  PROVE  /\ Levels(events)[events[n].id] \in 0 .. Len(tracks) - 1
         /\ events[n] \in tracks[Levels(events)[events[n].id] + 1]
<1> DEFINE At(i, k) == \E e \in tracks[k + 1] : e.id = i
           level == CHOOSE k \in 0 .. Len(tracks) - 1 : At(events[n].id, k)
<1>1. DOMAIN events = 1 .. Len(events)
  BY ListFacts
<1>2. Levels(events)[events[n].id] = level
  BY <1>1 DEF Levels
<1>3. PICK k \in 1 .. Len(tracks) : events[n] \in tracks[k]
  BY DEF Sorted
<1>4. k - 1 \in 0 .. Len(tracks) - 1 /\ At(events[n].id, k - 1)
  BY <1>3
<1>5. level \in 0 .. Len(tracks) - 1 /\ At(events[n].id, level)
  <2> HIDE DEF At
  <2> QED
    BY <1>4
<1>6. PICK e \in tracks[level + 1] : e.id = events[n].id
  BY <1>5
<1>7. level + 1 \in 1 .. Len(tracks)
  BY <1>5
<1> HIDE DEF level
<1>8. PICK m \in 1 .. Len(events) : e = events[m]
  BY <1>6, <1>7 DEF Sorted, First
<1>9. e = events[n]
  BY <1>6, <1>8 DEF EventList
<1> QED
  BY <1>2, <1>5, <1>6, <1>9

\* What goes on at the same time overlaps, as doEventsOverlap has it.
LEMMA OverlapMeans ==
  ASSUME NEW e, NEW f, e.start \in Int, e.end \in Int, f.start \in Int, f.end \in Int,
         Overlap(e, f)
  PROVE  DoEventsOverlap(e, f)
<1>1. /\ Max({e.start, f.start}) = IF e.start >= f.start THEN e.start ELSE f.start
      /\ Min({e.end, f.end}) = IF e.end <= f.end THEN e.end ELSE f.end
  BY MaxOfTwo, MinOfTwo
<1> QED
  BY <1>1 DEF Overlap, DoEventsOverlap

\* No two events that go on at the same time are drawn on one level: for every
\* list of events, in any order (getLevels and sortIntoTracks of script.js).
THEOREM EventsApart ==
  ASSUME NEW events, EventList(events)
  PROVE  Apart(events)
<1>1. /\ Len(events) \in Nat /\ DOMAIN events = 1 .. Len(events)
      /\ \A m, n \in 1 .. Len(events) : events[m] = events[n] => m = n
  BY ListFacts
<1>2. PICK F : TracksAfter(F, events) /\ SortIntoTracks(events) = F[Len(events)]
  BY TracksExist
<1> DEFINE tracks == F[Len(events)]
<1>3. Sorted(tracks, events, Len(events))
  BY <1>1, <1>2, AllSorted
<1>4. Len(tracks) \in Nat
  <2>1. tracks \in Seq(SUBSET All(events))
    BY <1>1, <1>2 DEF TracksAfter
  <2> QED
    BY <2>1, LenProperties
<1> HIDE DEF tracks
<1> SUFFICES ASSUME NEW m \in 1 .. Len(events), NEW n \in 1 .. Len(events),
                    m # n, Overlap(events[m], events[n]),
                    Levels(events)[events[m].id] = Levels(events)[events[n].id]
             PROVE  FALSE
  BY <1>1 DEF Apart
<1>5. tracks = SortIntoTracks(events)
  BY <1>2 DEF tracks
<1> DEFINE k == Levels(events)[events[m].id] + 1
<1>6. k \in 1 .. Len(tracks) /\ events[m] \in tracks[k] /\ events[n] \in tracks[k]
  BY <1>3, <1>4, <1>5, LevelOfEvent
<1>7. events[m] # events[n]
  BY <1>1
<1>8. ~DoEventsOverlap(events[m], events[n])
  BY <1>3, <1>6, <1>7 DEF Sorted
<1>9. DoEventsOverlap(events[m], events[n])
  BY OverlapMeans DEF EventList
<1> QED
  BY <1>8, <1>9

------------------------------------------------------------------------------
(* Events listed as they begin *)

\* Len(tracks) is no more than the number of events that go on when the m-th
\* begins.
AsManyAt(tracks, events, m) ==
  Len(tracks) <= Cardinality(Together(events, events[m].start))

LEMMA TogetherIsFinite ==
  ASSUME NEW events, EventList(events), NEW t
  PROVE  /\ IsFiniteSet(Together(events, t)) /\ Cardinality(Together(events, t)) \in Nat
<1>1. Len(events) \in Nat /\ DOMAIN events = 1 .. Len(events)
  BY ListFacts
<1>2. IsFiniteSet(1 .. Len(events)) /\ Together(events, t) \in SUBSET (1 .. Len(events))
  BY <1>1, FS_Interval DEF Together
<1> QED
  BY <1>2, FS_Subset, FS_CardinalityType

\* When an event needs a track of its own, one event of every other track goes
\* on as it begins.
LEMMA NewTrackIsNeeded ==
  ASSUME NEW events, EventList(events), InOrder(events), TakesTime(events),
         NEW n \in 1 .. Len(events),
         NEW tracks \in Seq(SUBSET All(events)), Sorted(tracks, events, n - 1), Disjoint(tracks),
         \A j \in 1 .. Len(tracks) : ~Fits(tracks[j], events[n])
  PROVE  Len(tracks) + 1 <= Cardinality(Together(events, events[n].start))
<1> DEFINE L == Len(tracks)
           together == Together(events, events[n].start)
           In(j, m) == m \in together /\ m # n /\ events[m] \in tracks[j]
           w == [j \in 1 .. L + 1 |-> IF j = L + 1 THEN n ELSE CHOOSE m \in together : In(j, m)]
<1>1. Len(events) \in Nat /\ DOMAIN events = 1 .. Len(events) /\ L \in Nat
  BY ListFacts, LenProperties
<1>2. n \in together
  BY <1>1 DEF Together, TakesTime, EventList
<1>3. ASSUME NEW j \in 1 .. L PROVE \E m \in together : In(j, m)
  <2>1. PICK f \in tracks[j] : DoEventsOverlap(events[n], f)
    BY <1>3 DEF Fits
  <2>2. PICK m \in 1 .. n - 1 : f = events[m]
    BY <1>3, <2>1 DEF Sorted, First
  <2>3. m \in 1 .. Len(events) /\ m < n
    BY <1>1, <2>2
  <2>4. events[m].start <= events[n].start /\ events[n].start < events[m].end
    BY <1>1, <2>1, <2>2, <2>3 DEF InOrder, DoEventsOverlap
  <2> QED
    BY <1>1, <2>1, <2>2, <2>3, <2>4 DEF Together
<1>4. \A j \in 1 .. L : w[j] \in together /\ In(j, w[j])
  <2>1. ASSUME NEW j \in 1 .. L PROVE w[j] = CHOOSE m \in together : In(j, m)
    BY <1>1
  <2> HIDE DEF w, In, together
  <2> QED
    BY <1>3, <2>1
<1>5. w[L + 1] = n
  BY <1>1
<1>6. w \in [1 .. L + 1 -> together]
  <2>1. \A j \in 1 .. L + 1 : j = L + 1 \/ j \in 1 .. L
    BY <1>1
  <2>2. \A j \in 1 .. L + 1 : w[j] \in together
    BY <1>2, <1>4, <1>5, <2>1
  <2>3. w = [j \in 1 .. L + 1 |-> w[j]]
    OBVIOUS
  <2> HIDE DEF w
  <2> QED
    BY <2>2, <2>3
<1> HIDE DEF w
<1>7. \A i, j \in 1 .. L + 1 : i # j => w[i] # w[j]
  <2> SUFFICES ASSUME NEW i \in 1 .. L + 1, NEW j \in 1 .. L + 1, i # j, w[i] = w[j]
               PROVE  FALSE
    OBVIOUS
  <2>1. CASE i \in 1 .. L /\ j \in 1 .. L
    <3>1. events[w[i]] \in tracks[i] \cap tracks[j]
      BY <1>4, <2>1
    <3> QED
      BY <2>1, <3>1 DEF Disjoint
  <2>2. CASE i = L + 1 \/ j = L + 1
    <3>1. \A x \in 1 .. L + 1 : x # L + 1 => w[x] # n
      BY <1>1, <1>4
    <3> QED
      BY <1>5, <2>2, <3>1
  <2> QED
    BY <1>1, <2>1, <2>2
<1>8. IsFiniteSet(together) /\ Cardinality(together) \in Nat
  BY TogetherIsFinite
<1>9. IsFiniteSet(1 .. L + 1) /\ Cardinality(1 .. L + 1) = L + 1
  BY <1>1, FS_Interval
<1> HIDE DEF together
<1>10. ~(Cardinality(together) < Cardinality(1 .. L + 1))
  BY <1>6, <1>7, <1>8, <1>9, FS_PigeonHole, SMTT(60)
<1> QED
  BY <1>1, <1>8, <1>9, <1>10 DEF together

\* There are never more tracks than events at the start of one of them.
LEMMA TracksAreNeeded ==
  ASSUME NEW events, EventList(events), InOrder(events), TakesTime(events),
         NEW F, TracksAfter(F, events)
  PROVE  \A n \in 0 .. Len(events) :
           n = 0 \/ \E m \in 1 .. Len(events) : AsManyAt(F[n], events, m)
<1> DEFINE L == Len(events)
           Needed(n) == n = 0 \/ \E m \in 1 .. L : AsManyAt(F[n], events, m)
           T == {n \in 0 .. L : Needed(n)}
<1>1. L \in Nat
  BY ListFacts
<1>2. 0 \in T
  BY <1>1
<1>3. ASSUME NEW n \in 0 .. L - 1, n \in T PROVE n + 1 \in T
  <2> DEFINE e == events[n + 1]
             k == TrackFor(F[n], e)
  <2>1. n \in 0 .. L /\ n + 1 \in 1 .. L /\ n + 1 \in 0 .. L /\ (n + 1) - 1 = n
    BY <1>1
  <2>2. F[n] \in Seq(SUBSET All(events)) /\ F[n + 1] = Placed(F[n], e) /\ F[0] = <<>>
    BY <2>1 DEF TracksAfter
  <2>3. Sorted(F[n], events, (n + 1) - 1) /\ Disjoint(F[n])
    BY <2>1, AllSorted
  <2>4. e \in All(events)
    BY <2>1, ListFacts
  <2>5. /\ Len(F[n]) \in Nat /\ Len(F[n + 1]) \in Nat /\ Len(F[n + 1]) <= Len(F[n]) + 1
        /\ k \in 1 .. Len(F[n + 1])
        /\ k <= Len(F[n]) => Len(F[n + 1]) = Len(F[n])
        /\ k > Len(F[n]) => \A j \in 1 .. Len(F[n]) : ~Fits(F[n][j], e)
    <3> DEFINE tracks == F[n]
               placed == Placed(tracks, e)
    <3>1. tracks \in Seq(SUBSET All(events)) /\ placed = F[n + 1]
      BY <2>2
    <3> HIDE DEF tracks, e
    <3>2. /\ Len(tracks) \in Nat /\ Len(placed) \in Nat /\ Len(placed) <= Len(tracks) + 1
          /\ TrackFor(tracks, e) \in 1 .. Len(placed)
          /\ TrackFor(tracks, e) <= Len(tracks) => Len(placed) = Len(tracks)
          /\ TrackFor(tracks, e) > Len(tracks) => \A j \in 1 .. Len(tracks) : ~Fits(tracks[j], e)
      BY <2>4, <3>1, EventPlaced
    <3> HIDE DEF placed
    <3> QED
      BY <3>1, <3>2 DEF tracks
  <2>6. CASE k > Len(F[n])
    <3>1. Len(F[n]) + 1 <= Cardinality(Together(events, e.start))
      BY <2>1, <2>2, <2>3, <2>5, <2>6, NewTrackIsNeeded
    <3>2. Cardinality(Together(events, e.start)) \in Nat
      BY TogetherIsFinite
    <3>3. AsManyAt(F[n + 1], events, n + 1)
      BY <2>5, <3>1, <3>2 DEF AsManyAt
    <3> QED
      BY <2>1, <3>3
  <2>7. CASE k <= Len(F[n])
    <3>1. n # 0
      <4>1. n = 0 => Len(F[n]) = 0
        BY <2>2
      <4> QED
        BY <2>5, <2>7, <4>1
    <3>2. PICK m \in 1 .. L : AsManyAt(F[n], events, m)
      BY <1>3, <3>1
    <3>3. AsManyAt(F[n + 1], events, m)
      BY <2>5, <2>7, <3>2 DEF AsManyAt
    <3> QED
      BY <2>1, <3>3
  <2> QED
    BY <2>5, <2>6, <2>7
<1>4. 0 .. L \subseteq T
  <2> HIDE DEF T
  <2> QED
    BY <1>1, <1>2, <1>3, UpTo
<1> QED
  BY <1>4

\* Events that take some time and are listed as they begin are drawn on no more
\* levels than there are events at one time.
THEOREM EventsFewest ==
  ASSUME NEW events, EventList(events), InOrder(events), TakesTime(events)
  PROVE  Fewest(events)
<1> DEFINE L == Len(events)
<1>1. L \in Nat /\ DOMAIN events = 1 .. L
  BY ListFacts
<1>2. PICK F : TracksAfter(F, events) /\ SortIntoTracks(events) = F[L]
  BY TracksExist
<1>3. CASE L = 0
  BY <1>1, <1>3 DEF Fewest
<1>4. CASE L # 0
  <2> DEFINE tracks == F[L]
  <2>1. L \in 0 .. L
    BY <1>1
  <2>2. Sorted(tracks, events, L)
    BY <1>2, <2>1, AllSorted
  <2>3. PICK m \in 1 .. L : AsManyAt(tracks, events, m)
    BY <1>2, <1>4, <2>1, TracksAreNeeded
  <2>4. Len(tracks) \in Nat
    <3>1. tracks \in Seq(SUBSET All(events))
      BY <1>2, <2>1 DEF TracksAfter
    <3> QED
      BY <3>1, LenProperties
  <2>5. Cardinality(Together(events, events[m].start)) \in Nat
    BY TogetherIsFinite
  <2>6. tracks = SortIntoTracks(events)
    BY <1>2
  <2> HIDE DEF tracks
  <2>7. ASSUME NEW n \in 1 .. L
        PROVE  Levels(events)[events[n].id] < Cardinality(Together(events, events[m].start))
    <3>1. Levels(events)[events[n].id] \in 0 .. Len(tracks) - 1
      BY <2>2, <2>4, <2>6, LevelOfEvent
    <3> QED
      BY <2>3, <2>4, <2>5, <3>1 DEF AsManyAt
  <2> QED
    BY <1>1, <2>3, <2>7 DEF Fewest
<1> QED
  BY <1>3, <1>4
==============================================================================
