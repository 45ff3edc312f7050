------------------------------ MODULE PathMaker ------------------------------
(***************************************************************************)
(* The path editor, tools/pathMaker/script.js: a web page whose handlers   *)
(* (mouse, keys, p5's draw loop) share global lists, and whose saving and  *)
(* opening wait for a file picker and for the disk.                        *)
(*                                                                         *)
(* A trigger point lies on one end of its segment, the closest and the     *)
(* furthest place it can have.  Colors, painting and the title are left    *)
(* out.                                                                    *)
(***************************************************************************)
EXTENDS PathFile

CONSTANTS
  Field,          \* vectors (pairs of inches) that are clicked
  Origin,         \* the first of them: elsewhere a path is the same, moved
  Names,          \* names typed into the inputs of trigger points
  Files,          \* files of the pickers
  None,           \* no file
  MaxVectors,     \* bound: length of a path
  MaxPoints,      \* bound: points drawn
  MaxTriggers,    \* bound: trigger points
  MaxInputs,      \* bound: inputs on the page
  MaxPending      \* bound: files on their way from or to the disk

ASSUME EditorAssumption ==
  /\ Field \subseteq Int \X Int /\ Origin \in Field
  /\ "" \notin Names
  /\ None \notin Files
  /\ {MaxVectors, MaxPoints, MaxTriggers, MaxInputs, MaxPending} \subseteq Nat

VARIABLES
  lineVectors, points, triggerPoints,
  lineVectorHasChanged,
  inputs,                     \* the page's inputs, in order: [id, value]
  previousTriggerPointCount,
  pointFile,
  picker,                     \* the file picker that is open
  loading,                    \* what was read of a file to open, until it is shown
  writes,                     \* on their way to the disk: [file, content]
  disk,                       \* file -> what it holds
  hasty                       \* history: see Undrawn

lists == <<lineVectors, points, triggerPoints>>
page == <<lineVectorHasChanged, inputs, previousTriggerPointCount>>
io == <<picker, loading, writes, disk>>
vars == <<lists, page, pointFile, io, hasty>>

Content == [lineVectors |-> lineVectors, points |-> points, triggerPoints |-> triggerPoints]

Init ==
  /\ lineVectors = <<>> /\ points = <<>> /\ triggerPoints = <<>>
  /\ lineVectorHasChanged = FALSE
  /\ inputs = <<>>
  /\ previousTriggerPointCount = 0
  /\ pointFile = None
  /\ picker = "none"
  /\ loading = None
  /\ writes = {}
  /\ disk = [f \in Files |-> None]
  /\ hasty = FALSE

------------------------------------------------------------------------------
(* Lengths: whole numbers below and above the real one *)

Square(v, w) == (v[1] - w[1]) * (v[1] - w[1]) + (v[2] - w[2]) * (v[2] - w[2])
Floor(v, w) == CHOOSE n \in 0 .. Square(v, w) :
                 n * n <= Square(v, w) /\ Square(v, w) < (n + 1) * (n + 1)
Ceiling(v, w) == IF Floor(v, w) * Floor(v, w) = Square(v, w) THEN Floor(v, w)
                 ELSE Floor(v, w) + 1

\* Lengths in hundredths of an inch, rounded down.
Hundredths == [vw \in Field \X Field |->
  CHOOSE n \in 0 .. Hundred * Ceiling(vw[1], vw[2]) :
    /\ n * n <= Hundred * Hundred * Square(vw[1], vw[2])
    /\ Hundred * Hundred * Square(vw[1], vw[2]) < (n + 1) * (n + 1)]

\* totalDist: all segments before this one, and the way on it.
TotalDist(segment, v) ==
  LET total[n \in 0 .. segment] ==
        IF n = 0 THEN 0
        ELSE total[n - 1] + Hundredths[<<lineVectors[n], lineVectors[n + 1]>>]
  IN total[segment] + Hundredths[<<lineVectors[segment + 1], v>>]

\* The points draw() puts on a segment: at 0, 1, 2, ... while below its length.
Dots(v, w) == [n \in 1 .. Ceiling(v, w) |-> [from |-> v, to |-> w, at |-> n - 1]]

LastDots(lines) == Dots(lines[Len(lines) - 1], lines[Len(lines)])
PointsOf(lines) ==
  LET dots[n \in 0 .. Len(lines)] ==
        IF n <= 1 THEN <<>> ELSE dots[n - 1] \o Dots(lines[n - 1], lines[n])
  IN dots[Len(lines)]

\* A wrong undo: the points stay.
SpliceNothing(seq, n) == seq

\* splice(-n): the start counts from the end, not beyond the front, but -0
\* counts from the front.
Splice(seq, n) == IF n = 0 THEN <<>> ELSE SubSeq(seq, 1, Len(seq) - n)

------------------------------------------------------------------------------
(* Mouse and keys.  While a picker is open the page gets none of them, but   *)
(* what it was waiting for goes on.                                          *)

Attended == picker = "none"

\* What PointsCoverLines must exclude: handlers that come before draw() has
\* put points on the last segment, and an undo of a segment whose length is
\* no whole number, or 0.
Undrawn == lineVectorHasChanged /\ Len(lineVectors) > 1
BadUndo ==
  Len(lineVectors) > 1 /\
    LET v == lineVectors[Len(lineVectors) - 1]
        w == lineVectors[Len(lineVectors)]
    IN Ceiling(v, w) # Floor(v, w) \/ Floor(v, w) = 0

MouseClicked(v) ==
  /\ Attended
  /\ Len(lineVectors) < MaxVectors
  /\ lineVectors = <<>> => v = Origin
  /\ lineVectors' = Append(lineVectors, v)
  /\ lineVectorHasChanged' = TRUE
  /\ hasty' = (hasty \/ Undrawn)
  /\ UNCHANGED <<points, triggerPoints, inputs, previousTriggerPointCount, pointFile, io>>

\* With less than two vectors, or the mouse far from every segment, the key
\* does nothing.
CreateTriggerPoint(segment, v) ==
  /\ Attended
  /\ Len(triggerPoints) < MaxTriggers
  /\ triggerPoints' = Append(triggerPoints,
       [segment |-> segment, name |-> "unnamed", distance |-> TotalDist(segment, v)])
  /\ UNCHANGED <<lineVectors, points, page, pointFile, io, hasty>>

\* A wrong undo: the trigger points of the segment before are removed.
OffTheLastButOne(t) == t.segment # Len(lineVectors) - 3

\* Segments are counted from 0.
OffTheLast(t) == t.segment # Len(lineVectors) - 2

\* A wrong undo: previousTriggerPointCount is not set back.
StillCounted == previousTriggerPointCount

RecountedFrom == 0

\* triggerPoints without those on the last segment (as a function and not with
\* SelectSeq, of which a proof could say nothing).
TriggersKept ==
  LET kept[n \in 0 .. Len(triggerPoints)] ==
        IF n = 0 THEN <<>>
        ELSE IF OffTheLast(triggerPoints[n])
             THEN Append(kept[n - 1], triggerPoints[n]) ELSE kept[n - 1]
  IN kept[Len(triggerPoints)]

RemoveLastLineVector ==
  /\ Attended
  /\ Len(lineVectors) > 1
  /\ points' = Splice(points, Floor(lineVectors[Len(lineVectors) - 1],
                                    lineVectors[Len(lineVectors)]))
  /\ inputs' = <<>>
  /\ previousTriggerPointCount' = RecountedFrom
  /\ triggerPoints' = TriggersKept
  /\ lineVectors' = Front(lineVectors)
  /\ hasty' = (hasty \/ Undrawn \/ BadUndo)
  /\ UNCHANGED <<lineVectorHasChanged, pointFile, io>>

\* Somebody types into an input.
Type(n, name) ==
  /\ Attended
  /\ inputs[n].value # name
  /\ inputs' = [inputs EXCEPT ![n].value = name]
  /\ UNCHANGED <<lists, lineVectorHasChanged, previousTriggerPointCount, pointFile, io, hasty>>

\* The page is loaded again.  A write replaces its file when it ends; one that
\* has not ended is dropped.
Reload ==
  /\ lineVectors' = <<>> /\ points' = <<>> /\ triggerPoints' = <<>>
  /\ lineVectorHasChanged' = FALSE
  /\ inputs' = <<>>
  /\ previousTriggerPointCount' = 0
  /\ pointFile' = None
  /\ picker' = "none"
  /\ loading' = None
  /\ writes' = {}
  /\ UNCHANGED <<disk, hasty>>

------------------------------------------------------------------------------
(* draw() *)

\* updateHTML: an input for every trigger point it has not counted yet.
NewInputs ==
  [n \in 1 .. Len(triggerPoints) - previousTriggerPointCount |->
     [id |-> previousTriggerPointCount + n, value |-> ""]]

Draw ==
  /\ inputs' = IF previousTriggerPointCount < Len(triggerPoints)
               THEN inputs \o NewInputs ELSE inputs
  /\ Len(inputs') <= MaxInputs
  /\ previousTriggerPointCount' = Len(triggerPoints)
  /\ points' = IF lineVectorHasChanged /\ Len(lineVectors) > 1
               THEN points \o LastDots(lineVectors) ELSE points
  /\ Len(points') <= MaxPoints
  /\ lineVectorHasChanged' = (lineVectorHasChanged /\ Len(lineVectors) <= 1)
  /\ UNCHANGED <<lineVectors, triggerPoints, pointFile, io, hasty>>

------------------------------------------------------------------------------
(* savePoints() *)

HasInput(i) == \E n \in DOMAIN inputs : inputs[n].id = i

\* A wrong property of the input is read.
Undefined(i) == "undefined"

\* getElementById(i).value: the first input with this id.
ValueOf(i) ==
  LET first == CHOOSE n \in DOMAIN inputs :
                 inputs[n].id = i /\ \A k \in 1 .. n - 1 : inputs[k].id # i
  IN inputs[first].value

\* The loop that fills in the names, which ends in an error at the first
\* trigger point without an input.
NamesRead ==
  [i \in DOMAIN triggerPoints |->
     IF \A k \in 1 .. i : HasInput(k)
     THEN [triggerPoints[i] EXCEPT !.name = ValueOf(i)] ELSE triggerPoints[i]]
AllHaveInputs == \A i \in DOMAIN triggerPoints : HasInput(i)

StartWrite(f, content) ==
  /\ writes' = writes \cup {[file |-> f, content |-> content]}
  /\ Cardinality(writes') <= IF loading = None THEN MaxPending ELSE MaxPending - 1
  /\ hasty' = (hasty \/ Undrawn)

SaveFails ==
  /\ Attended /\ ~AllHaveInputs
  /\ triggerPoints' = NamesRead
  /\ UNCHANGED <<lineVectors, points, page, pointFile, io, hasty>>

SaveToFile ==
  /\ Attended /\ AllHaveInputs
  /\ pointFile # None
  /\ triggerPoints' = NamesRead
  /\ StartWrite(pointFile, [Content EXCEPT !.triggerPoints = NamesRead])
  /\ UNCHANGED <<lineVectors, points, page, pointFile, picker, loading, disk>>

SaveAsks ==
  /\ Attended /\ AllHaveInputs
  /\ pointFile = None
  /\ triggerPoints' = NamesRead
  /\ picker' = "save"
  /\ UNCHANGED <<lineVectors, points, page, pointFile, loading, writes, disk, hasty>>

\* What is written is what the lists hold now.
SavePicked(f) ==
  /\ picker = "save"
  /\ picker' = "none"
  /\ pointFile' = f
  /\ StartWrite(f, Content)
  /\ UNCHANGED <<lists, page, loading, disk>>

\* Nobody waits for a write, so two of them may end in any order.
WriteEnds(w) ==
  /\ writes' = writes \ {w}
  /\ disk' = [disk EXCEPT ![w.file] = w.content]
  /\ UNCHANGED <<lists, page, pointFile, picker, loading, hasty>>

------------------------------------------------------------------------------
(* openPoints() *)

\* One file is read at a time: a bound of the model.  The page lets another
\* opening begin while a file is being read; each replaces the whole path.
OpenAsks ==
  /\ Attended /\ loading = None
  /\ picker' = "open"
  /\ UNCHANGED <<lists, page, pointFile, loading, writes, disk, hasty>>

PickerCancelled ==
  /\ picker # "none"
  /\ picker' = "none"
  /\ UNCHANGED <<lists, page, pointFile, loading, writes, disk, hasty>>

\* A file that was never written is no JSON: the handler ends in an error.
OpenPicked(f) ==
  /\ picker = "open"
  /\ picker' = "none"
  /\ loading' = disk[f]
  /\ loading' # None => Cardinality(writes) < MaxPending
  /\ UNCHANGED <<lists, page, pointFile, writes, disk, hasty>>

\* A wrong opening: the points of the path before are not removed.
OpenAdds ==
  /\ loading # None
  /\ loading' = None
  /\ lineVectors' = loading.lineVectors
  /\ points' = points \o loading.points
  /\ triggerPoints' = loading.triggerPoints
  /\ hasty' = (hasty \/ lineVectorHasChanged)
  /\ UNCHANGED <<page, pointFile, picker, writes, disk>>

\* The last lines, about the next color, end in an error if there is no
\* trigger point; nothing depends on them.
OpenEnds ==
  /\ loading # None
  /\ loading' = None
  /\ lineVectors' = loading.lineVectors
  /\ points' = loading.points
  /\ triggerPoints' = loading.triggerPoints
  /\ hasty' = (hasty \/ lineVectorHasChanged)
  /\ UNCHANGED <<page, pointFile, picker, writes, disk>>

------------------------------------------------------------------------------
Next ==
  \/ \E v \in Field : MouseClicked(v)
  \/ \E segment \in 0 .. Len(lineVectors) - 2 :
       \E n \in {segment + 1, segment + 2} : CreateTriggerPoint(segment, lineVectors[n])
  \/ RemoveLastLineVector
  \/ \E n \in DOMAIN inputs, name \in Names : Type(n, name)
  \/ Draw \/ Reload
  \/ SaveFails \/ SaveToFile \/ SaveAsks
  \/ OpenAsks \/ OpenEnds \/ PickerCancelled
  \/ \E f \in Files : SavePicked(f) \/ OpenPicked(f)
  \/ \E w \in writes : WriteEnds(w)

Spec == Init /\ [][Next]_vars

------------------------------------------------------------------------------
Contents == {Content} \cup {w.content : w \in writes}
              \cup ({disk[f] : f \in Files} \ {None}) \cup ({loading} \ {None})

TypeOK ==
  /\ \A c \in Contents :
       /\ c.lineVectors \in Seq(Field)
       /\ \A i \in DOMAIN c.triggerPoints :
            c.triggerPoints[i].name \in Names \cup {"", "unnamed"}
  /\ \A n \in DOMAIN inputs : inputs[n].value \in Names \cup {""}
  /\ previousTriggerPointCount \in 0 .. MaxTriggers
  /\ pointFile \in Files \cup {None}
  /\ picker \in {"none", "save", "open"}

\* Trigger points always lie on segments of their own path, on the screen, in
\* every write on its way and in every file, in whatever order paths are
\* undone, saved, and replaced by others while a picker is open.
TriggersOnSegments ==
  \A c \in Contents : \A i \in DOMAIN c.triggerPoints :
    c.triggerPoints[i].segment \in 0 .. Len(c.lineVectors) - 2

\* Once draw() has run, a save finds an input for every trigger point: undoing
\* a segment throws the inputs away, and opening a file changes the number of
\* trigger points under them.
CountedHaveInputs ==
  \A i \in DOMAIN triggerPoints : i <= previousTriggerPointCount => HasInput(i)

\* "small points spaced about an inch apart that show up on each line vector"
\* (script.js:2): as long as draw() runs between two handlers and only
\* segments of whole lengths are undone, the points are those of the segments.
PointsCoverLines ==
  ~hasty /\ ~Undrawn => points = PointsOf(lineVectors)

\* The robot can reach every trigger point of every file whose path it loads:
\* the editor measures along the segments, the robot counts the points between
\* them (purepursuit.lua:156), and neither rounding may bring a trigger point
\* before the first or beyond the last.
TriggersReached ==
  ~hasty => \A f \in Files :
    Orients(disk[f], None) => DOMAIN TriggerPointsOf(disk[f]) \subseteq KeysMet(disk[f])

Store == INSTANCE PathStore WITH
  Empty <- [lineVectors |-> <<>>, points |-> <<>>, triggerPoints |-> <<>>],
  shown <- Content,
  target <- pointFile,
  writing <- writes,
  files <- disk,
  opened <- loading

\* Whatever the page's handlers share and wait for, a file holds nothing but
\* whole paths, each as the page showed it when it was saved, with names
\* filled in; saves go to the one file that was picked; and a file that is
\* opened is shown as it is, replacing all there was (script.js:292 to 330).
ImplementsStore == Store!StoreSpec

\* "removes the most recently made line vector" (script.js:184): an undo takes
\* the points of that vector and leaves the others'.
UndoTakesItsPoints ==
  [][RemoveLastLineVector /\ ~Undrawn /\ points = PointsOf(lineVectors)
       => points' = PointsOf(lineVectors')]_vars

\* "saves all points & trigger points" (script.js:290): a save does not erase
\* a name that a trigger point has been given.
SaveKeepsNames ==
  [][SaveToFile \/ SaveAsks =>
       \A i \in DOMAIN triggerPoints :
         triggerPoints[i].name \in Names => triggerPoints'[i].name \in Names]_vars
==============================================================================
