------------------------------ MODULE PathStore ------------------------------
(***************************************************************************)
(* What the path editor promises about files, without its lists, inputs    *)
(* and pickers: the page shows a path, a save sends the whole of it to the *)
(* one file that was chosen, and opening a file shows the whole of what    *)
(* was once saved to it.  PathMaker implements this specification: its     *)
(* ImplementsStore.                                                        *)
(***************************************************************************)
CONSTANTS
  Files,
  None,       \* no file, and what a file holds to which nothing was written
  Empty       \* the path of a new page

VARIABLES
  shown,      \* the path on the page
  target,     \* the file that is saved to
  writing,    \* saves on their way: [file, content]
  files,      \* file -> the path it holds
  opened      \* the path that was read and is not yet shown

storeVars == <<shown, target, writing, files, opened>>

NewPage == shown = Empty /\ target = None /\ writing = {} /\ opened = None

StoreInit == NewPage /\ files = [f \in Files |-> None]

Edit == UNCHANGED <<target, writing, files, opened>>

\* Two paths that differ in the names of trigger points alone.
SameButNames(p, q) ==
  /\ p.lineVectors = q.lineVectors /\ p.points = q.points
  /\ DOMAIN p.triggerPoints = DOMAIN q.triggerPoints
  /\ \A i \in DOMAIN p.triggerPoints :
       /\ p.triggerPoints[i].segment = q.triggerPoints[i].segment
       /\ p.triggerPoints[i].distance = q.triggerPoints[i].distance

\* The file is chosen once.  What is sent to it is what the page shows then,
\* with the names that a save fills in.
Save(f) ==
  /\ target \in {None, f}
  /\ target' = f
  /\ SameButNames(shown, shown')
  /\ writing' = writing \cup {[file |-> f, content |-> shown']}
  /\ UNCHANGED <<files, opened>>

\* Saves arrive whole, in any order.
Arrive(w) ==
  /\ writing' = writing \ {w}
  /\ files' = [files EXCEPT ![w.file] = w.content]
  /\ UNCHANGED <<shown, target, opened>>

Open(f) ==
  /\ opened = None /\ files[f] # None
  /\ opened' = files[f]
  /\ UNCHANGED <<shown, target, writing, files>>

Show ==
  /\ opened # None
  /\ shown' = opened
  /\ opened' = None
  /\ UNCHANGED <<target, writing, files>>

\* What is not in a file is lost, saves on their way included.
StartAgain == NewPage' /\ UNCHANGED files

StoreNext ==
  \/ Edit \/ Show \/ StartAgain
  \/ \E f \in Files : Save(f) \/ Open(f)
  \/ \E w \in writing : Arrive(w)

StoreSpec == StoreInit /\ [][StoreNext]_storeVars
==============================================================================
