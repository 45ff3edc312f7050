--------------------------- MODULE PathMakerProofs ---------------------------
(***************************************************************************)
(* What the path editor never does to a path, proved for every field,      *)
(* every number of files and names, and every bound.                       *)
(***************************************************************************)
EXTENDS PathMaker, NumberLemmas, SequenceTheorems

------------------------------------------------------------------------------
(* The trigger points that an undo keeps *)

\* The function in TriggersKept, up to n of the trigger points.
Keeps(F, n) ==
  F = [i \in 0 .. n |->
         IF i = 0 THEN <<>>
         ELSE IF OffTheLast(triggerPoints[i])
              THEN Append(F[i - 1], triggerPoints[i]) ELSE F[i - 1]]

LEMMA KeepsExists == \A n \in Nat : \E F : Keeps(F, n)
<1> DEFINE T == {n \in Nat : ~ \E F : Keeps(F, n)}
<1> SUFFICES ASSUME T # {} PROVE FALSE
  OBVIOUS
<1>1. PICK m \in T : \A k \in T : m <= k
  <2> HIDE DEF T
  <2>1. T \in SUBSET Nat
    BY DEF T
  <2> QED
    BY <2>1, LeastNatural
<1>2. CASE m = 0
  <2>1. Keeps([i \in 0 .. 0 |-> <<>>], 0)
    BY DEF Keeps
  <2> QED
    BY <1>2, <2>1
<1>3. CASE m # 0
  <2>1. PICK F : Keeps(F, m - 1)
    BY <1>1, <1>3
  <2> DEFINE G == [i \in 0 .. m |->
                     IF i = m THEN IF OffTheLast(triggerPoints[m])
                                   THEN Append(F[m - 1], triggerPoints[m]) ELSE F[m - 1]
                     ELSE F[i]]
  <2>2. ASSUME NEW i \in 0 .. m
        PROVE  G[i] = IF i = 0 THEN <<>>
                      ELSE IF OffTheLast(triggerPoints[i])
                           THEN Append(G[i - 1], triggerPoints[i]) ELSE G[i - 1]
    <3>1. CASE i = m
      BY <1>3, <3>1
    <3>2. CASE i # m
      <4>1. i \in 0 .. m - 1
        BY <3>2
      <4>2. F[i] = IF i = 0 THEN <<>>
                   ELSE IF OffTheLast(triggerPoints[i])
                        THEN Append(F[i - 1], triggerPoints[i]) ELSE F[i - 1]
        BY <2>1, <4>1 DEF Keeps
      <4>3. G[i] = F[i] /\ (i # 0 => G[i - 1] = F[i - 1])
        BY <3>2, <4>1
      <4> QED
        BY <4>2, <4>3
    <3> QED
      BY <3>1, <3>2
  <2>3. Keeps(G, m)
    <3> HIDE DEF G
    <3>1. G = [i \in 0 .. m |-> G[i]]
      BY DEF G
    <3> QED
      BY <2>2, <3>1 DEF Keeps
  <2> QED
    BY <2>3
<1> QED
  BY <1>2, <1>3

LEMMA KeptBy ==
  ASSUME NEW S, triggerPoints \in Seq(S)
  PROVE  \E F : Keeps(F, Len(triggerPoints)) /\ TriggersKept = F[Len(triggerPoints)]
<1>1. Len(triggerPoints) \in Nat
  BY LenProperties
<1> DEFINE F == CHOOSE F : Keeps(F, Len(triggerPoints))
<1>2. Keeps(F, Len(triggerPoints))
  BY <1>1, KeepsExists
<1>3. TriggersKept = F[Len(triggerPoints)]
  BY DEF TriggersKept, Keeps
<1> QED
  BY <1>2, <1>3

\* Nothing but trigger points of other segments, and no more of them.
LEMMA KeptAreOffTheLast ==
  ASSUME NEW S, triggerPoints \in Seq(S)
  PROVE  /\ TriggersKept \in Seq({t \in S : OffTheLast(t)})
         /\ Len(TriggersKept) <= Len(triggerPoints)
<1> DEFINE K == {t \in S : OffTheLast(t)}
           L == Len(triggerPoints)
<1>1. L \in Nat /\ \A i \in 1 .. L : triggerPoints[i] \in S
  BY LenProperties, ElementOfSeq
<1>2. PICK F : Keeps(F, L) /\ TriggersKept = F[L]
  BY KeptBy
<1>3. \A i \in 0 .. L : F[i] = IF i = 0 THEN <<>>
                               ELSE IF OffTheLast(triggerPoints[i])
                                    THEN Append(F[i - 1], triggerPoints[i]) ELSE F[i - 1]
  BY <1>2 DEF Keeps
<1> DEFINE Good(n) == F[n] \in Seq(K) /\ Len(F[n]) <= n
           T == {n \in 0 .. L : ~ Good(n)}
<1>4. T = {}
  <2> SUFFICES ASSUME T # {} PROVE FALSE
    OBVIOUS
  <2>1. PICK m \in T : \A k \in T : m <= k
    <3>1. T \in SUBSET Nat
      BY <1>1
    <3> HIDE DEF T
    <3> QED
      BY <3>1, LeastNatural
  <2>2. m # 0
    <3> SUFFICES ASSUME m = 0 PROVE FALSE
      OBVIOUS
    <3>1. F[0] = <<>>
      BY <1>1, <1>3
    <3>2. Good(0)
      BY <3>1
    <3> QED
      BY <2>1, <3>2
  <2>3. m \in 1 .. L /\ m - 1 \in 0 .. L
    BY <1>1, <2>2
  <2>4. Good(m - 1)
    BY <2>1, <2>3, SMTT(30)
  <2>5. Good(m)
    <3>0. F[m] = IF OffTheLast(triggerPoints[m])
                 THEN Append(F[m - 1], triggerPoints[m]) ELSE F[m - 1]
      BY <1>1, <1>3, <2>2, <2>3
    <3>1. CASE OffTheLast(triggerPoints[m])
      <4>1. triggerPoints[m] \in K
        BY <1>1, <2>3, <3>1
      <4>2. F[m] = Append(F[m - 1], triggerPoints[m])
        BY <3>0, <3>1
      <4> HIDE DEF K
      <4> QED
        BY <2>3, <2>4, <4>1, <4>2, AppendProperties, LenProperties
    <3>2. CASE ~OffTheLast(triggerPoints[m])
      <4>1. F[m] = F[m - 1]
        BY <3>0, <3>2
      <4> HIDE DEF K
      <4> QED
        BY <2>3, <2>4, <4>1, LenProperties
    <3> QED
      BY <3>1, <3>2
  <2> QED
    BY <2>1, <2>5
<1>5. Good(L)
  BY <1>1, <1>4
<1> QED
  BY <1>2, <1>5

------------------------------------------------------------------------------
(* The invariant *)

TriggerNames == Names \cup {"", "unnamed"}
InputValues == Names \cup {""}

IsTrigger(t) ==
  /\ t = [segment |-> t.segment, name |-> t.name, distance |-> t.distance]
  /\ t.name \in TriggerNames

PathOK(lines, triggers) ==
  /\ lines \in Seq(Field)
  /\ \E S : triggers \in Seq(S)
  /\ Len(triggers) <= MaxTriggers
  /\ \A i \in 1 .. Len(triggers) :
       IsTrigger(triggers[i]) /\ triggers[i].segment \in 0 .. Len(lines) - 2

ContentOK(c) == PathOK(c.lineVectors, c.triggerPoints)

FilesOK ==
  /\ \A w \in writes : w.file \in Files /\ ContentOK(w.content)
  /\ disk = [f \in Files |-> disk[f]]
  /\ \A f \in Files : disk[f] # None => ContentOK(disk[f])
  /\ loading # None => ContentOK(loading)
  /\ pointFile \in Files \cup {None}
  /\ picker \in {"none", "save", "open"}

\* Inputs are there for as many trigger points as draw() has counted, which may
\* be more than the path has: a file was opened.
InputsOK ==
  /\ \E S : inputs \in Seq(S)
  /\ \A n \in 1 .. Len(inputs) :
       /\ inputs[n] = [id |-> inputs[n].id, value |-> inputs[n].value]
       /\ inputs[n].value \in InputValues
  /\ previousTriggerPointCount \in 0 .. MaxTriggers
  /\ \A i \in 1 .. previousTriggerPointCount : HasInput(i)

IInv == PathOK(lineVectors, triggerPoints) /\ FilesOK /\ InputsOK

LEMMA Appended ==
  ASSUME NEW s, \E S : s \in Seq(S), NEW x
  PROVE  /\ \E S : Append(s, x) \in Seq(S)
         /\ Len(s) \in Nat /\ Len(Append(s, x)) = Len(s) + 1
         /\ \A i \in 1 .. Len(s) : Append(s, x)[i] = s[i]
         /\ Append(s, x)[Len(s) + 1] = x
<1>1. PICK S : s \in Seq(S)
  OBVIOUS
<1>2. s \in Seq(S \cup {x}) /\ x \in S \cup {x}
  BY <1>1, SeqMonotonic
<1> HIDE <1>1
<1> QED
  BY <1>2, AppendProperties, LenProperties

LEMMA LineAdded ==
  ASSUME NEW l, NEW t, PathOK(l, t), NEW v \in Field
  PROVE  PathOK(Append(l, v), t)
<1>1. Append(l, v) \in Seq(Field) /\ Len(Append(l, v)) = Len(l) + 1 /\ Len(l) \in Nat
  BY AppendProperties, LenProperties DEF PathOK
<1> QED
  BY <1>1 DEF PathOK

LEMMA TriggerAdded ==
  ASSUME NEW l, NEW t, PathOK(l, t), Len(t) < MaxTriggers, NEW x, IsTrigger(x),
         x.segment \in 0 .. Len(l) - 2
  PROVE  PathOK(l, Append(t, x))
<1>1. /\ \E S : Append(t, x) \in Seq(S)
      /\ Len(t) \in Nat /\ Len(Append(t, x)) = Len(t) + 1
      /\ \A i \in 1 .. Len(t) : Append(t, x)[i] = t[i]
      /\ Append(t, x)[Len(t) + 1] = x
  BY Appended DEF PathOK
<1>2. MaxTriggers \in Nat
  BY EditorAssumption
<1>3. ASSUME NEW i \in 1 .. Len(Append(t, x))
      PROVE  IsTrigger(Append(t, x)[i]) /\ Append(t, x)[i].segment \in 0 .. Len(l) - 2
  BY <1>1 DEF PathOK
<1> QED
  BY <1>1, <1>2, <1>3 DEF PathOK

\* What an undo keeps are trigger points of the segments before.
LEMMA KeptFrom ==
  ASSUME PathOK(lineVectors, triggerPoints)
  PROVE  /\ \E S : TriggersKept \in Seq(S)
         /\ Len(TriggersKept) <= Len(triggerPoints)
         /\ \A i \in 1 .. Len(TriggersKept) : \E k \in 1 .. Len(triggerPoints) :
              /\ TriggersKept[i] = triggerPoints[k]
              /\ triggerPoints[k].segment # Len(lineVectors) - 2
<1> DEFINE S == {triggerPoints[i] : i \in 1 .. Len(triggerPoints)}
           K == {t \in S : OffTheLast(t)}
<1>1. triggerPoints \in Seq(S)
  BY LenProperties, SeqDef DEF PathOK
<1>2. TriggersKept \in Seq(K) /\ Len(TriggersKept) <= Len(triggerPoints)
  <2> HIDE DEF S
  <2> QED
    BY <1>1, KeptAreOffTheLast
<1>3. ASSUME NEW i \in 1 .. Len(TriggersKept)
      PROVE  \E k \in 1 .. Len(triggerPoints) :
               /\ TriggersKept[i] = triggerPoints[k]
               /\ triggerPoints[k].segment # Len(lineVectors) - 2
  <2>1. TriggersKept[i] \in K
    <3> HIDE DEF K
    <3> QED
      BY <1>2, ElementOfSeq
  <2> QED
    BY <2>1 DEF OffTheLast
<1> HIDE DEF K
<1> QED
  BY <1>2, <1>3

LEMMA LastLineRemoved ==
  ASSUME PathOK(lineVectors, triggerPoints), Len(lineVectors) > 1
  PROVE  PathOK(Front(lineVectors), TriggersKept)
<1>1. Len(lineVectors) \in Nat /\ \A i \in 1 .. Len(lineVectors) : lineVectors[i] \in Field
  BY LenProperties, ElementOfSeq DEF PathOK
<1>2. Front(lineVectors) \in Seq(Field) /\ Len(Front(lineVectors)) = Len(lineVectors) - 1
  BY <1>1, SubSeqProperties DEF Front
<1>3. Len(TriggersKept) \in Nat /\ Len(triggerPoints) \in Nat /\ MaxTriggers \in Nat
  BY KeptFrom, LenProperties, EditorAssumption DEF PathOK
<1>4. Len(TriggersKept) <= MaxTriggers
  BY <1>3, KeptFrom DEF PathOK
<1>5. ASSUME NEW i \in 1 .. Len(TriggersKept)
      PROVE  /\ IsTrigger(TriggersKept[i])
             /\ TriggersKept[i].segment \in 0 .. Len(Front(lineVectors)) - 2
  <2>1. PICK k \in 1 .. Len(triggerPoints) :
          /\ TriggersKept[i] = triggerPoints[k]
          /\ triggerPoints[k].segment # Len(lineVectors) - 2
    BY KeptFrom
  <2> QED
    BY <1>1, <1>2, <2>1 DEF PathOK
<1> QED
  BY <1>2, <1>4, <1>5, KeptFrom DEF PathOK

LEMMA ValueTyped ==
  ASSUME InputsOK, NEW i, HasInput(i)
  PROVE  ValueOf(i) \in InputValues
<1> DEFINE T == {n \in 1 .. Len(inputs) : inputs[n].id = i}
<1>1. DOMAIN inputs = 1 .. Len(inputs) /\ Len(inputs) \in Nat
  BY LenProperties DEF InputsOK
<1>2. T \in SUBSET Nat /\ T # {}
  BY <1>1 DEF HasInput
<1>3. PICK m \in T : \A k \in T : m <= k
  <2> HIDE DEF T
  <2> QED
    BY <1>2, LeastNatural
<1>4. \A k \in 1 .. m - 1 : inputs[k].id # i
  BY <1>1, <1>3
<1> DEFINE first == CHOOSE n \in DOMAIN inputs :
                      inputs[n].id = i /\ \A k \in 1 .. n - 1 : inputs[k].id # i
<1>5. first \in 1 .. Len(inputs)
  BY <1>1, <1>3, <1>4
<1> QED
  BY <1>5 DEF ValueOf, InputsOK

\* Reading the names changes nothing but names.
LEMMA NamesOnly ==
  ASSUME PathOK(lineVectors, triggerPoints), InputsOK
  PROVE  /\ \E S : NamesRead \in Seq(S)
         /\ Len(NamesRead) = Len(triggerPoints)
         /\ \A i \in 1 .. Len(triggerPoints) :
              /\ IsTrigger(NamesRead[i])
              /\ NamesRead[i].segment = triggerPoints[i].segment
              /\ NamesRead[i].distance = triggerPoints[i].distance
<1>1. DOMAIN triggerPoints = 1 .. Len(triggerPoints) /\ Len(triggerPoints) \in Nat
  BY LenProperties DEF PathOK
<1> DEFINE S == {NamesRead[i] : i \in 1 .. Len(triggerPoints)}
<1>2. NamesRead \in [1 .. Len(triggerPoints) -> S]
  BY <1>1 DEF NamesRead
<1>3. NamesRead \in Seq(S) /\ Len(NamesRead) = Len(triggerPoints)
  <2> HIDE DEF S
  <2> QED
    BY <1>1, <1>2, SeqDef, LenProperties
<1>4. ASSUME NEW i \in 1 .. Len(triggerPoints)
      PROVE  /\ IsTrigger(NamesRead[i])
             /\ NamesRead[i].segment = triggerPoints[i].segment
             /\ NamesRead[i].distance = triggerPoints[i].distance
  <2>1. NamesRead[i] = IF \A k \in 1 .. i : HasInput(k)
                       THEN [triggerPoints[i] EXCEPT !.name = ValueOf(i)] ELSE triggerPoints[i]
    BY <1>1 DEF NamesRead
  <2>2. IsTrigger(triggerPoints[i])
    BY DEF PathOK
  <2>3. CASE \A k \in 1 .. i : HasInput(k)
    <3>1. ValueOf(i) \in InputValues
      BY <1>1, <2>3, ValueTyped
    <3>2. NamesRead[i] = [triggerPoints[i] EXCEPT !.name = ValueOf(i)]
      BY <2>1, <2>3
    <3>3. NamesRead[i] = [segment |-> triggerPoints[i].segment, name |-> ValueOf(i),
                          distance |-> triggerPoints[i].distance]
      <4> DEFINE t == triggerPoints[i]
      <4>1. t = [segment |-> t.segment, name |-> t.name, distance |-> t.distance]
        BY <2>2 DEF IsTrigger
      <4> HIDE DEF t
      <4>2. [t EXCEPT !.name = ValueOf(i)] =
              [segment |-> t.segment, name |-> ValueOf(i), distance |-> t.distance]
        BY <4>1
      <4> QED
        BY <3>2, <4>2 DEF t
    <3>4. NamesRead[i].segment = triggerPoints[i].segment
      BY <3>3
    <3>5. NamesRead[i].name = ValueOf(i) /\ NamesRead[i].distance = triggerPoints[i].distance
      BY <3>3
    <3>6. IsTrigger(NamesRead[i])
      BY <3>1, <3>3, <3>4, <3>5 DEF IsTrigger, TriggerNames, InputValues
    <3> QED
      BY <3>4, <3>5, <3>6
  <2>4. CASE ~ \A k \in 1 .. i : HasInput(k)
    BY <2>1, <2>2, <2>4
  <2> QED
    BY <2>3, <2>4
<1> HIDE DEF S
<1> QED
  BY <1>3, <1>4

\* So it keeps the path, whether the loop gets to its end or not.
LEMMA NamesAreRead ==
  ASSUME PathOK(lineVectors, triggerPoints), InputsOK
  PROVE  PathOK(lineVectors, NamesRead)
  BY NamesOnly DEF PathOK

LEMMA EmptyPath == PathOK(<<>>, <<>>)
<1>1. MaxTriggers \in Nat /\ Len(<<>>) = 0
  BY EditorAssumption
<1>2. <<>> \in Seq(Field)
  OBVIOUS
<1> QED
  BY <1>1, <1>2 DEF PathOK

------------------------------------------------------------------------------
(* The steps *)

LEMMA Starts == Init => IInv
<1> SUFFICES ASSUME Init PROVE IInv
  OBVIOUS
<1>1. FilesOK
  BY DEF Init, FilesOK
<1>2. InputsOK
  <2>1. MaxTriggers \in Nat /\ inputs \in Seq({}) /\ Len(inputs) = 0
    BY EditorAssumption, EmptySeq DEF Init
  <2>2. previousTriggerPointCount = 0
    BY DEF Init
  <2> HIDE DEF Init
  <2> QED
    BY <2>1, <2>2 DEF InputsOK
<1> QED
  BY <1>1, <1>2, EmptyPath DEF Init, IInv

\* Handlers that leave the files and the inputs alone.
LEMMA FilesKept ==
  ASSUME FilesOK, UNCHANGED <<pointFile, io>>
  PROVE  FilesOK'
  BY DEF FilesOK, ContentOK, PathOK, IsTrigger, io

LEMMA InputsKept ==
  ASSUME InputsOK, UNCHANGED <<inputs, previousTriggerPointCount>>
  PROVE  InputsOK'
  BY DEF InputsOK, HasInput

LEMMA PathKept ==
  ASSUME PathOK(lineVectors, triggerPoints), UNCHANGED <<lineVectors, triggerPoints>>
  PROVE  PathOK(lineVectors, triggerPoints)'
  BY DEF PathOK, IsTrigger

\* A file is written next to whatever is on its way.
LEMMA WriteStarted ==
  ASSUME FilesOK, NEW f \in Files, NEW c, ContentOK(c), StartWrite(f, c),
         UNCHANGED <<disk, loading>>, pointFile' \in Files \cup {None},
         picker' \in {"none", "save", "open"}
  PROVE  FilesOK'
<1>1. ASSUME NEW w \in writes' PROVE w.file \in Files /\ ContentOK(w.content)
  BY <1>1 DEF StartWrite, FilesOK
<1> QED
  BY <1>1 DEF FilesOK, ContentOK, PathOK, IsTrigger

LEMMA ClickSteps ==
  ASSUME IInv, \/ \E v \in Field : MouseClicked(v)
               \/ \E segment \in 0 .. Len(lineVectors) - 2 :
                    \E n \in {segment + 1, segment + 2} :
                      CreateTriggerPoint(segment, lineVectors[n])
  PROVE  IInv'
<1>1. ASSUME NEW v \in Field, MouseClicked(v) PROVE IInv'
  <2>1. PathOK(lineVectors, triggerPoints)'
    BY <1>1, LineAdded DEF MouseClicked, IInv
  <2> QED
    BY <1>1, <2>1, FilesKept, InputsKept DEF MouseClicked, IInv
<1>2. ASSUME NEW segment \in 0 .. Len(lineVectors) - 2, NEW v, CreateTriggerPoint(segment, v)
      PROVE  IInv'
  <2> DEFINE x == [segment |-> segment, name |-> "unnamed", distance |-> TotalDist(segment, v)]
  <2>1. IsTrigger(x) /\ x.segment = segment
    BY DEF IsTrigger, TriggerNames
  <2>2. triggerPoints' = Append(triggerPoints, x) /\ lineVectors' = lineVectors
    BY <1>2 DEF CreateTriggerPoint
  <2>3. PathOK(lineVectors, Append(triggerPoints, x))
    <3> HIDE DEF x
    <3> QED
      BY <1>2, <2>1, TriggerAdded DEF CreateTriggerPoint, IInv
  <2>4. PathOK(lineVectors, triggerPoints)'
    BY <2>2, <2>3
  <2> QED
    BY <1>2, <2>4, FilesKept, InputsKept DEF CreateTriggerPoint, IInv, page
<1> QED
  BY <1>1, <1>2

LEMMA UndoStep ==
  ASSUME IInv, RemoveLastLineVector PROVE IInv'
<1>1. PathOK(lineVectors, triggerPoints)'
  BY LastLineRemoved DEF RemoveLastLineVector, IInv
<1>2. InputsOK'
  <2>1. MaxTriggers \in Nat /\ inputs' \in Seq({}) /\ Len(inputs') = 0
    BY EditorAssumption, EmptySeq DEF RemoveLastLineVector
  <2>2. previousTriggerPointCount' = 0
    BY DEF RemoveLastLineVector, RecountedFrom
  <2> QED
    BY <2>1, <2>2 DEF InputsOK
<1> QED
  BY <1>1, <1>2, FilesKept DEF RemoveLastLineVector, IInv
LEMMA TypeStep ==
  ASSUME IInv, NEW n \in DOMAIN inputs, NEW name \in Names, Type(n, name)
  PROVE  IInv'
<1>1. PICK S : inputs \in Seq(S)
  BY DEF IInv, InputsOK
<1>2. Len(inputs) \in Nat /\ DOMAIN inputs = 1 .. Len(inputs)
  BY <1>1, LenProperties
<1> DEFINE x == [inputs[n] EXCEPT !.value = name]
<1>3. inputs[n] = [id |-> inputs[n].id, value |-> inputs[n].value]
  BY <1>2 DEF IInv, InputsOK
<1>4. x = [id |-> inputs[n].id, value |-> name]
  BY <1>3
<1>5. inputs' = [inputs EXCEPT ![n] = x]
  BY DEF Type
<1>6. inputs' \in Seq(S \cup {x}) /\ Len(inputs') = Len(inputs)
  <2>1. inputs \in Seq(S \cup {x})
    BY <1>1, SeqMonotonic
  <2> HIDE DEF x
  <2> QED
    BY <1>2, <1>5, <2>1, ExceptSeq
<1>7. \A k \in 1 .. Len(inputs) : inputs'[k] = IF k = n THEN x ELSE inputs[k]
  <2> HIDE DEF x
  <2> QED
    BY <1>2, <1>5
<1>8. \A k \in 1 .. Len(inputs) :
        /\ inputs'[k] = [id |-> inputs'[k].id, value |-> inputs'[k].value]
        /\ inputs'[k].value \in InputValues
        /\ inputs'[k].id = inputs[k].id
  BY <1>4, <1>7, ZenonT(30) DEF IInv, InputsOK, InputValues
<1>9. InputsOK'
  <2>1. UNCHANGED previousTriggerPointCount
    BY DEF Type
  <2>2. DOMAIN inputs' = 1 .. Len(inputs)
    BY <1>6, LenProperties
  <2>3. \A i : HasInput(i) => HasInput(i)'
    BY <1>2, <1>8, <2>2 DEF HasInput
  <2> QED
    BY <1>6, <1>8, <2>1, <2>3 DEF IInv, InputsOK
<1> QED
  BY <1>9, FilesKept, PathKept DEF IInv, Type, lists

\* A function whose domain starts at 1 is a sequence.
LEMMA IsSeq ==
  ASSUME NEW d \in Nat, NEW f, f = [k \in 1 .. d |-> f[k]]
  PROVE  /\ \E S : f \in Seq(S)
         /\ Len(f) = d
<1> DEFINE R == {f[k] : k \in 1 .. d}
<1>1. f \in [1 .. d -> R]
  OBVIOUS
<1> HIDE DEF R
<1>2. f \in Seq(R) /\ Len(f) = d
  BY <1>1, SeqDef, LenProperties
<1> QED
  BY <1>2

\* What a list is after another has been put at its end.
LEMMA Joined ==
  ASSUME NEW S, NEW s \in Seq(S), NEW T, NEW t \in Seq(T)
  PROVE  /\ \E U : s \o t \in Seq(U)
         /\ Len(s) \in Nat /\ DOMAIN s = 1 .. Len(s)
         /\ Len(s \o t) = Len(s) + Len(t)
         /\ DOMAIN (s \o t) = 1 .. Len(s) + Len(t)
         /\ \A k \in 1 .. Len(s) : (s \o t)[k] = s[k]
         /\ \A k \in 1 .. Len(t) : (s \o t)[Len(s) + k] = t[k]
<1>1. s \in Seq(S \cup T) /\ t \in Seq(S \cup T)
  BY SeqMonotonic
<1>2. Len(s) \in Nat /\ Len(t) \in Nat /\ DOMAIN s = 1 .. Len(s)
  BY LenProperties
<1>3. /\ s \o t \in Seq(S \cup T)
      /\ Len(s \o t) = Len(s) + Len(t)
      /\ \A k \in 1 .. Len(s) + Len(t) :
           (s \o t)[k] = IF k <= Len(s) THEN s[k] ELSE t[k - Len(s)]
  BY <1>1, ConcatProperties
<1>4. DOMAIN (s \o t) = 1 .. Len(s) + Len(t)
  BY <1>3, LenProperties
<1>5. \A k \in 1 .. Len(s) : (s \o t)[k] = s[k]
  BY <1>2, <1>3
<1>6. \A k \in 1 .. Len(t) : (s \o t)[Len(s) + k] = t[k]
  BY <1>2, <1>3
<1> QED
  BY <1>2, <1>3, <1>4, <1>5, <1>6

\* The inputs Draw puts on the page for the trigger points c + 1 .. c + d.
LEMMA InputsMade ==
  ASSUME NEW c \in Nat, NEW d \in Nat, NEW new,
         new = [k \in 1 .. d |-> [id |-> c + k, value |-> ""]]
  PROVE  /\ \E S : new \in Seq(S)
         /\ Len(new) = d
         /\ \A k \in 1 .. d : new[k] = [id |-> c + k, value |-> ""]
<1>1. \A k \in 1 .. d : new[k] = [id |-> c + k, value |-> ""]
  BY Zenon
<1>2. new = [k \in 1 .. d |-> new[k]]
  BY Zenon
<1> QED
  BY <1>1, <1>2, IsSeq, Zenon

LEMMA InputRecord ==
  ASSUME NEW x, NEW y, NEW r, r = [id |-> x, value |-> y]
  PROVE  r = [id |-> r.id, value |-> r.value] /\ r.id = x /\ r.value = y
  OBVIOUS

LEMMA DrawStep ==
  ASSUME IInv, Draw PROVE IInv'
<1> DEFINE c == previousTriggerPointCount
           L == Len(triggerPoints)
           n == Len(inputs)
<1>1. MaxTriggers \in Nat
  BY EditorAssumption
<1>2. /\ c \in 0 .. MaxTriggers
      /\ \A i \in 1 .. c : HasInput(i)
      /\ \A k \in 1 .. n : /\ inputs[k] = [id |-> inputs[k].id, value |-> inputs[k].value]
                           /\ inputs[k].value \in InputValues
      /\ \E S : inputs \in Seq(S)
  BY Zenon DEF IInv, InputsOK
<1>3. L \in Nat /\ L <= MaxTriggers
  <2>1. PICK S : triggerPoints \in Seq(S)
    BY Zenon DEF IInv, PathOK
  <2>2. L <= MaxTriggers
    BY Zenon DEF IInv, PathOK
  <2> QED
    BY <2>1, <2>2, LenProperties
<1>4. /\ inputs' = IF c < L THEN inputs \o NewInputs ELSE inputs
      /\ previousTriggerPointCount' = L
      /\ UNCHANGED <<lineVectors, triggerPoints, pointFile, io>>
  BY Zenon DEF Draw
<1>5. SUFFICES InputsOK'
  BY <1>4, <1>5, FilesKept, PathKept DEF IInv
<1>6. CASE ~ c < L
  <2>1. inputs' = inputs
    BY <1>4, <1>6
  <2>2. \A i \in 1 .. L : i \in 1 .. c
    BY <1>1, <1>2, <1>3, <1>6
  <2>3. \A i \in 1 .. L : HasInput(i)'
    BY <1>2, <2>1, <2>2, Zenon DEF HasInput
  <2>4. L \in 0 .. MaxTriggers
    BY <1>1, <1>3
  <2> QED
    BY <1>2, <1>4, <2>1, <2>3, <2>4, Zenon DEF InputsOK
<1>7. CASE c < L
  <2> DEFINE d == L - c
  <2>1. d \in Nat /\ c \in Nat /\ L = c + d
    BY <1>1, <1>2, <1>3, <1>7
  <2>2. /\ \E T : NewInputs \in Seq(T)
        /\ Len(NewInputs) = d
        /\ \A k \in 1 .. d : NewInputs[k] = [id |-> c + k, value |-> ""]
    <3>1. NewInputs = [k \in 1 .. d |-> [id |-> c + k, value |-> ""]]
      BY Zenon DEF NewInputs
    <3> HIDE DEF d, c
    <3> QED
      BY <2>1, <3>1, InputsMade, Zenon
  <2>3. PICK T : NewInputs \in Seq(T)
    BY <2>2, Zenon
  <2>4. PICK S : inputs \in Seq(S)
    BY <1>2, Zenon
  <2>5. inputs' = inputs \o NewInputs
    BY <1>4, <1>7
  <2> HIDE DEF d
  <2>6. /\ \E U : inputs' \in Seq(U)
        /\ n \in Nat /\ DOMAIN inputs = 1 .. n
        /\ Len(inputs') = n + d /\ DOMAIN inputs' = 1 .. n + d
        /\ \A k \in 1 .. n : inputs'[k] = inputs[k]
        /\ \A k \in 1 .. d : inputs'[n + k] = NewInputs[k]
    <3> HIDE DEF NewInputs
    <3>1. /\ \E U : inputs \o NewInputs \in Seq(U)
          /\ n \in Nat /\ DOMAIN inputs = 1 .. n
          /\ Len(inputs \o NewInputs) = n + Len(NewInputs)
          /\ DOMAIN (inputs \o NewInputs) = 1 .. n + Len(NewInputs)
          /\ \A k \in 1 .. n : (inputs \o NewInputs)[k] = inputs[k]
          /\ \A k \in 1 .. Len(NewInputs) : (inputs \o NewInputs)[n + k] = NewInputs[k]
      BY <2>3, <2>4, Joined
    <3>2. Len(NewInputs) = d
      BY <2>2, Zenon
    <3> QED
      BY <2>5, <3>1, <3>2, Zenon
  <2>7. \A k \in 1 .. n + d : k \in 1 .. n \/ (k - n \in 1 .. d /\ k = n + (k - n))
    <3>1. d \in Nat /\ n \in Nat
      BY <2>1, <2>6, Zenon
    <3> HIDE DEF n
    <3> QED
      BY <3>1
  <2>8. ASSUME NEW k \in 1 .. Len(inputs')
        PROVE  /\ inputs'[k] = [id |-> inputs'[k].id, value |-> inputs'[k].value]
               /\ inputs'[k].value \in InputValues
    <3>1. CASE k \in 1 .. n
      BY <1>2, <2>6, <3>1, Zenon
    <3>2. CASE k - n \in 1 .. d /\ k = n + (k - n)
      <4>1. inputs'[k] = [id |-> c + (k - n), value |-> ""]
        BY <2>2, <2>6, <3>2, Zenon
      <4>2. inputs'[k] = [id |-> inputs'[k].id, value |-> inputs'[k].value]
              /\ inputs'[k].value = ""
        <5>1. PICK r : r = inputs'[k]
          OBVIOUS
        <5>2. PICK x : r = [id |-> x, value |-> ""]
          BY <4>1, <5>1, Zenon
        <5>3. r = [id |-> r.id, value |-> r.value] /\ r.value = ""
          BY <5>2, InputRecord
        <5> QED
          BY <5>1, <5>3, Zenon
      <4> QED
        BY <4>2 DEF InputValues
    <3> QED
      BY <2>6, <2>7, <3>1, <3>2
  <2>9. ASSUME NEW i \in 1 .. L PROVE HasInput(i)'
    <3>1. CASE i <= c
      <4>1. i \in 1 .. c
        BY <2>1, <3>1
      <4>2. \E k \in DOMAIN inputs : inputs[k].id = i
        BY <1>2, <4>1, Zenon DEF HasInput
      <4>3. \E k \in DOMAIN inputs' : inputs'[k].id = i
        <5>1. PICK k \in 1 .. n : inputs[k].id = i
          BY <2>6, <4>2, Zenon
        <5>2. k \in 1 .. n + d
          BY <2>1, <2>6, <5>1
        <5>3. inputs'[k].id = i
          BY <2>6, <5>1, Zenon
        <5> QED
          BY <2>6, <5>2, <5>3, Zenon
      <4> QED
        BY <4>3 DEF HasInput
    <3>2. CASE i > c
      <4>1. i - c \in 1 .. d /\ n + (i - c) \in 1 .. n + d /\ c + (i - c) = i
        BY <2>1, <2>6, <3>2
      <4>2. inputs'[n + (i - c)] = [id |-> c + (i - c), value |-> ""]
        BY <2>2, <2>6, <4>1, Zenon
      <4>3. inputs'[n + (i - c)].id = i
        <5>1. PICK r : r = inputs'[n + (i - c)]
          OBVIOUS
        <5>2. r = [id |-> i, value |-> ""]
          BY <4>1, <4>2, <5>1, Zenon
        <5>3. r.id = i
          BY <5>2, InputRecord
        <5> QED
          BY <5>1, <5>3, Zenon
      <4> QED
        BY <2>6, <4>1, <4>3, Zenon DEF HasInput
    <3> QED
      BY <2>1, <3>1, <3>2
  <2>10. L \in 0 .. MaxTriggers
    BY <1>1, <1>3
  <2> HIDE DEF c, L, n
  <2> QED
    BY <1>4, <2>6, <2>8, <2>9, <2>10, Zenon DEF InputsOK
<1> QED
  BY <1>6, <1>7

LEMMA SaveSteps ==
  ASSUME IInv, SaveFails \/ SaveToFile \/ SaveAsks \/ \E f \in Files : SavePicked(f)
  PROVE  IInv'
<1>1. PathOK(lineVectors, NamesRead)
  BY NamesAreRead DEF IInv
<1>2. ASSUME triggerPoints' = NamesRead, UNCHANGED lineVectors
      PROVE  PathOK(lineVectors, triggerPoints)'
  BY <1>1, <1>2
<1>3. CASE SaveFails
  BY <1>2, <1>3, FilesKept, InputsKept DEF SaveFails, IInv, page
<1>4. CASE SaveToFile
  <2> DEFINE c == [Content EXCEPT !.triggerPoints = NamesRead]
  <2>1. ContentOK(c)
    BY <1>1 DEF Content, ContentOK
  <2>2. FilesOK'
    <3>1. pointFile \in Files /\ StartWrite(pointFile, c)
      BY <1>4 DEF SaveToFile, IInv, FilesOK
    <3> HIDE DEF c
    <3> QED
      BY <1>4, <2>1, <3>1, WriteStarted DEF SaveToFile, IInv, FilesOK
  <2> QED
    BY <1>2, <1>4, <2>2, InputsKept DEF SaveToFile, IInv, page
<1>5. CASE SaveAsks
  <2>1. FilesOK'
    BY <1>5 DEF SaveAsks, IInv, FilesOK, ContentOK, PathOK, IsTrigger
  <2> QED
    BY <1>2, <1>5, <2>1, InputsKept DEF SaveAsks, IInv, page
<1>6. ASSUME NEW f \in Files, SavePicked(f) PROVE IInv'
  <2>1. ContentOK(Content)
    BY DEF Content, ContentOK, IInv
  <2>2. FilesOK'
    BY <1>6, <2>1, WriteStarted DEF SavePicked, IInv
  <2> QED
    BY <1>6, <2>2, InputsKept, PathKept DEF SavePicked, IInv, page, lists
<1> QED
  BY <1>3, <1>4, <1>5, <1>6

LEMMA WriteEndsStep ==
  ASSUME IInv, NEW w \in writes, WriteEnds(w) PROVE IInv'
<1>1. w.file \in Files /\ ContentOK(w.content)
  BY DEF IInv, FilesOK
<1>2. disk' = [f \in Files |-> IF f = w.file THEN w.content ELSE disk[f]]
  BY DEF WriteEnds, IInv, FilesOK
<1>3. ASSUME NEW f \in Files, disk'[f] # None PROVE ContentOK(disk'[f])
  <2>1. CASE f = w.file
    BY <1>1, <1>2, <2>1
  <2>2. CASE f # w.file
    BY <1>2, <1>3, <2>2 DEF IInv, FilesOK
  <2> QED
    BY <2>1, <2>2
<1>4. UNCHANGED <<pointFile, picker, loading>> /\ writes' \subseteq writes
  BY DEF WriteEnds
<1>5. disk' = [f \in Files |-> disk'[f]]
  BY <1>2
<1>6. FilesOK'
  BY <1>3, <1>4, <1>5 DEF IInv, FilesOK, ContentOK, PathOK, IsTrigger
<1> QED
  BY <1>6, PathKept, InputsKept DEF IInv, WriteEnds, lists, page

LEMMA OpenSteps ==
  ASSUME IInv,
         OpenAsks \/ OpenEnds \/ PickerCancelled \/ \E f \in Files : OpenPicked(f)
  PROVE  IInv'
<1>1. CASE OpenAsks
  <2>1. FilesOK'
    BY <1>1 DEF OpenAsks, IInv, FilesOK, ContentOK, PathOK, IsTrigger
  <2> QED
    BY <1>1, <2>1, PathKept, InputsKept DEF OpenAsks, IInv, lists, page
<1>2. CASE PickerCancelled
  <2>1. FilesOK'
    BY <1>2 DEF PickerCancelled, IInv, FilesOK, ContentOK, PathOK, IsTrigger
  <2> QED
    BY <1>2, <2>1, PathKept, InputsKept DEF PickerCancelled, IInv, lists, page
<1>3. ASSUME NEW f \in Files, OpenPicked(f) PROVE IInv'
  <2>1. loading' # None => ContentOK(loading')
    BY <1>3 DEF OpenPicked, IInv, FilesOK
  <2>2. UNCHANGED <<pointFile, writes, disk>> /\ picker' = "none"
    BY <1>3 DEF OpenPicked
  <2>3. FilesOK'
    BY <2>1, <2>2 DEF IInv, FilesOK, ContentOK, PathOK, IsTrigger
  <2> QED
    BY <1>3, <2>3, PathKept, InputsKept DEF OpenPicked, IInv, lists, page
<1>4. CASE OpenEnds
  <2>1. ContentOK(loading)
    BY <1>4 DEF OpenEnds, IInv, FilesOK
  <2>2. lineVectors' = loading.lineVectors /\ triggerPoints' = loading.triggerPoints
    BY <1>4 DEF OpenEnds
  <2>3. PathOK(lineVectors, triggerPoints)'
    BY <2>1, <2>2 DEF ContentOK
  <2>4. UNCHANGED <<pointFile, picker, writes, disk>> /\ loading' = None
    BY <1>4 DEF OpenEnds
  <2>5. FilesOK'
    BY <2>4 DEF IInv, FilesOK, ContentOK, PathOK, IsTrigger
  <2> QED
    BY <1>4, <2>3, <2>5, InputsKept DEF OpenEnds, IInv, page
<1> QED
  BY <1>1, <1>2, <1>3, <1>4

LEMMA ReloadStep ==
  ASSUME IInv, Reload PROVE IInv'
<1>1. PathOK(lineVectors, triggerPoints)'
  BY EmptyPath DEF Reload
<1>2. UNCHANGED disk /\ writes' = {} /\ loading' = None /\ pointFile' = None /\ picker' = "none"
  BY DEF Reload
<1>3. FilesOK'
  BY <1>2 DEF IInv, FilesOK, ContentOK, PathOK, IsTrigger
<1>4. InputsOK'
  <2>1. MaxTriggers \in Nat /\ inputs' \in Seq({}) /\ Len(inputs') = 0
    BY EditorAssumption, EmptySeq DEF Reload
  <2>2. previousTriggerPointCount' = 0
    BY DEF Reload
  <2> HIDE DEF Reload
  <2> QED
    BY <2>1, <2>2 DEF InputsOK
<1> QED
  BY <1>1, <1>3, <1>4 DEF IInv

LEMMA Steps == IInv /\ [Next]_vars => IInv'
<1> SUFFICES ASSUME IInv, [Next]_vars PROVE IInv'
  OBVIOUS
<1>1. CASE \E v \in Field : MouseClicked(v)
  BY <1>1, ClickSteps
<1>2. CASE \E segment \in 0 .. Len(lineVectors) - 2 :
             \E n \in {segment + 1, segment + 2} :
               CreateTriggerPoint(segment, lineVectors[n])
  BY <1>2, ClickSteps
<1>3. CASE RemoveLastLineVector
  BY <1>3, UndoStep
<1>4. CASE \E n \in DOMAIN inputs, name \in Names : Type(n, name)
  BY <1>4, TypeStep
<1>5. CASE Draw
  BY <1>5, DrawStep
<1>6. CASE Reload
  BY <1>6, ReloadStep
<1>7. CASE SaveFails \/ SaveToFile \/ SaveAsks \/ \E f \in Files : SavePicked(f)
  BY <1>7, SaveSteps
<1>8. CASE OpenAsks \/ OpenEnds \/ PickerCancelled \/ \E f \in Files : OpenPicked(f)
  BY <1>8, OpenSteps
<1>9. CASE \E w \in writes : WriteEnds(w)
  BY <1>9, WriteEndsStep
<1>10. CASE UNCHANGED vars
  BY <1>10, FilesKept, InputsKept, PathKept DEF vars, lists, page, IInv
<1> QED
  BY <1>1, <1>2, <1>3, <1>4, <1>5, <1>6, <1>7, <1>8, <1>9, <1>10 DEF Next

------------------------------------------------------------------------------
(* What follows from it *)

LEMMA EveryContent ==
  ASSUME IInv, NEW c \in Contents PROVE ContentOK(c)
<1>1. ContentOK(Content)
  BY DEF Content, ContentOK, IInv
<1> QED
  BY <1>1 DEF Contents, IInv, FilesOK

\* PathOK speaks of the numbers up to the length, the properties of the domain.
LEMMA TriggersOf ==
  ASSUME NEW c, ContentOK(c), NEW i \in DOMAIN c.triggerPoints
  PROVE  /\ IsTrigger(c.triggerPoints[i])
         /\ c.triggerPoints[i].segment \in 0 .. Len(c.lineVectors) - 2
<1>1. PICK S : c.triggerPoints \in Seq(S)
  BY DEF ContentOK, PathOK
<1>2. i \in 1 .. Len(c.triggerPoints)
  BY <1>1, LenProperties
<1> QED
  BY <1>2 DEF ContentOK, PathOK

LEMMA IsTyped == IInv => TypeOK
<1> SUFFICES ASSUME IInv PROVE TypeOK
  OBVIOUS
<1>1. ASSUME NEW c \in Contents
      PROVE  /\ c.lineVectors \in Seq(Field)
             /\ \A i \in DOMAIN c.triggerPoints :
                  c.triggerPoints[i].name \in Names \cup {"", "unnamed"}
  BY EveryContent, TriggersOf DEF ContentOK, PathOK, IsTrigger, TriggerNames
<1>2. ASSUME NEW n \in DOMAIN inputs PROVE inputs[n].value \in Names \cup {""}
  <2>1. PICK S : inputs \in Seq(S)
    BY DEF IInv, InputsOK
  <2>2. n \in 1 .. Len(inputs)
    BY <2>1, LenProperties
  <2> QED
    BY <2>2 DEF IInv, InputsOK, InputValues
<1>3. /\ previousTriggerPointCount \in 0 .. MaxTriggers
      /\ pointFile \in Files \cup {None}
      /\ picker \in {"none", "save", "open"}
  BY Zenon DEF IInv, InputsOK, FilesOK
<1> QED
  BY <1>1, <1>2, <1>3 DEF TypeOK

LEMMA LieOnSegments == IInv => TriggersOnSegments
  BY EveryContent, TriggersOf DEF TriggersOnSegments

LEMMA CountedAreThere == IInv => CountedHaveInputs
<1> SUFFICES ASSUME IInv, NEW i \in DOMAIN triggerPoints, i <= previousTriggerPointCount
             PROVE  HasInput(i)
  BY DEF CountedHaveInputs
<1>1. PICK S : triggerPoints \in Seq(S)
  BY DEF IInv, PathOK
<1>2. i \in 1 .. Len(triggerPoints)
  BY <1>1, LenProperties
<1>3. previousTriggerPointCount \in 0 .. MaxTriggers /\ MaxTriggers \in Nat
  BY EditorAssumption, Zenon DEF IInv, InputsOK
<1>4. i \in 1 .. previousTriggerPointCount
  BY <1>1, <1>2, <1>3, LenProperties
<1> QED
  BY <1>4 DEF IInv, InputsOK

------------------------------------------------------------------------------
\* The editor's lists, files and inputs keep their types, whatever is clicked,
\* typed, undone, saved, opened and reloaded, in whatever order writes end.
THEOREM EditorTyped == Spec => []TypeOK
<1>1. IInv /\ [Next]_vars => IInv'
  BY Steps
<1> QED
  BY <1>1, Starts, IsTyped, PTL DEF Spec

\* No trigger point is ever on a segment that its path does not have, on the
\* screen, on its way to the disk or in a file: an undo takes the last
\* segment's trigger points with it (script.js:184), and what is saved or
\* opened is always a whole path.
THEOREM EditorKeepsSegments == Spec => []TriggersOnSegments
<1>1. IInv /\ [Next]_vars => IInv'
  BY Steps
<1> QED
  BY <1>1, Starts, LieOnSegments, PTL DEF Spec

\* Every trigger point that draw() has counted has its input, so that a save
\* finds a name for it, also when a file with more or fewer trigger points was
\* opened under the inputs.
THEOREM EditorFindsInputs == Spec => []CountedHaveInputs
<1>1. IInv /\ [Next]_vars => IInv'
  BY Steps
<1> QED
  BY <1>1, Starts, CountedAreThere, PTL DEF Spec

------------------------------------------------------------------------------
(* Lengths *)

LEMMA SquareIsNat == \A v, w \in Field : Square(v, w) \in Nat
<1> SUFFICES ASSUME NEW v \in Field, NEW w \in Field PROVE Square(v, w) \in Nat
  OBVIOUS
<1>1. \A x \in Int : x * x \in Nat
  OBVIOUS
<1>2. v[1] - w[1] \in Int /\ v[2] - w[2] \in Int
  <2>1. v \in Int \X Int /\ w \in Int \X Int
    BY EditorAssumption
  <2>2. v[1] \in Int /\ v[2] \in Int /\ w[1] \in Int /\ w[2] \in Int
    BY <2>1
  <2> QED
    BY <2>2
<1>3. (v[1] - w[1]) * (v[1] - w[1]) \in Nat /\ (v[2] - w[2]) * (v[2] - w[2]) \in Nat
  BY <1>1, <1>2
<1> QED
  BY <1>3 DEF Square

LEMMA FloorFacts ==
  ASSUME NEW v \in Field, NEW w \in Field
  PROVE  /\ Floor(v, w) \in Nat
         /\ Floor(v, w) * Floor(v, w) <= Square(v, w)
         /\ Square(v, w) < (Floor(v, w) + 1) * (Floor(v, w) + 1)
<1> DEFINE k == Square(v, w)
           IsFloor(n) == n * n <= k /\ k < (n + 1) * (n + 1)
<1>1. k \in Nat
  BY SquareIsNat
<1> HIDE DEF k
<1>2. PICK n \in Nat : IsFloor(n)
  BY <1>1, SquareRoot
<1>3. n \in 0 .. k
  <2>1. n <= n * n
    <3>1. CASE n = 0
      BY <3>1
    <3>2. CASE n # 0
      <4>1. 1 * n <= n * n
        BY <3>2, ProductsGrow
      <4> QED
        BY <4>1
    <3> QED
      BY <3>1, <3>2
  <2>2. n * n \in Int
    OBVIOUS
  <2> QED
    BY <1>1, <1>2, <2>1, <2>2
<1>4. Floor(v, w) = CHOOSE m \in 0 .. k : IsFloor(m)
  BY DEF Floor, k
<1>5. Floor(v, w) \in 0 .. k /\ IsFloor(Floor(v, w))
  <2> HIDE DEF IsFloor
  <2> QED
    BY <1>2, <1>3, <1>4
<1> QED
  BY <1>1, <1>5 DEF k

LEMMA CeilingFacts ==
  ASSUME NEW v \in Field, NEW w \in Field
  PROVE  /\ Ceiling(v, w) \in Nat
         /\ Square(v, w) <= Ceiling(v, w) * Ceiling(v, w)
<1>1. Square(v, w) \in Nat
  BY SquareIsNat
<1>2. Floor(v, w) \in Nat /\ Square(v, w) < (Floor(v, w) + 1) * (Floor(v, w) + 1)
  BY FloorFacts
<1>3. CASE Floor(v, w) * Floor(v, w) = Square(v, w)
  <2>1. Ceiling(v, w) = Floor(v, w)
    BY <1>3 DEF Ceiling
  <2> QED
    BY <1>1, <1>2, <1>3, <2>1
<1>4. CASE Floor(v, w) * Floor(v, w) # Square(v, w)
  <2>1. Ceiling(v, w) = Floor(v, w) + 1
    BY <1>4 DEF Ceiling
  <2>2. (Floor(v, w) + 1) * (Floor(v, w) + 1) \in Int
    BY <1>2
  <2> QED
    BY <1>1, <1>2, <2>1, <2>2
<1> QED
  BY <1>3, <1>4

\* A length in hundredths of an inch is no more than that of the points drawn.
LEMMA HundredthsFacts ==
  ASSUME NEW v \in Field, NEW w \in Field
  PROVE  Hundredths[<<v, w>>] \in 0 .. Hundred * Ceiling(v, w)
<1> DEFINE k == Hundred * Hundred * Square(v, w)
           c == Ceiling(v, w)
           IsRoot(n) == n * n <= k /\ k < (n + 1) * (n + 1)
<1>1. c \in Nat /\ Square(v, w) \in Nat /\ Square(v, w) <= c * c /\ c * c \in Nat
  BY SquareIsNat, CeilingFacts
<1>2. Hundredths[<<v, w>>] = CHOOSE n \in 0 .. Hundred * c : IsRoot(n)
  BY DEF Hundredths
<1>3. k \in Nat /\ k <= (Hundred * c) * (Hundred * c) /\ Hundred * c \in Nat
  <2>1. k = 10000 * Square(v, w) /\ (Hundred * c) * (Hundred * c) = 10000 * (c * c)
    BY <1>1 DEF Hundred
  <2> QED
    BY <1>1, <2>1 DEF Hundred
<1> HIDE DEF k, c
<1>4. PICK n \in Nat : IsRoot(n)
  BY <1>3, SquareRoot
<1>5. n <= Hundred * c
  <2>1. n * n <= (Hundred * c) * (Hundred * c)
    <3>1. n * n \in Nat /\ (Hundred * c) * (Hundred * c) \in Nat
      BY <1>3
    <3> QED
      BY <1>3, <1>4, <3>1
  <2> QED
    BY <1>3, <2>1, SquaresGrow
<1>6. n \in 0 .. Hundred * c
  BY <1>3, <1>5
<1>7. (CHOOSE m \in 0 .. Hundred * c : IsRoot(m)) \in 0 .. Hundred * c
  <2> HIDE DEF IsRoot
  <2> QED
    BY <1>4, <1>6
<1> QED
  BY <1>2, <1>7 DEF c

------------------------------------------------------------------------------
(* The points of a path *)

Dot == [from : Field, to : Field, at : Int]

LEMMA DotsTyped ==
  ASSUME NEW v \in Field, NEW w \in Field
  PROVE  Dots(v, w) \in Seq(Dot) /\ Len(Dots(v, w)) = Ceiling(v, w)
<1>1. Ceiling(v, w) \in Nat
  BY CeilingFacts
<1>2. Dots(v, w) \in [1 .. Ceiling(v, w) -> Dot]
  BY DEF Dots, Dot
<1> QED
  BY <1>1, <1>2, SeqDef, LenProperties

\* The function in PointsOf.
Drawn(F, L, lines) ==
  F = [n \in 0 .. L |->
         IF n <= 1 THEN <<>> ELSE F[n - 1] \o Dots(lines[n - 1], lines[n])]

LEMMA DrawnExists ==
  ASSUME NEW L \in Nat, NEW lines \in [1 .. L -> Field]
  PROVE  \E F \in [0 .. L -> Seq(Dot)] : Drawn(F, L, lines)
<1> DEFINE S == Seq(Dot)
           none == <<>>
           next == [p \in (1 .. L) \X S |->
                      IF p[1] = 1 THEN none ELSE p[2] \o Dots(lines[p[1] - 1], lines[p[1]])]
<1>1. none \in S
  BY EmptySeq
<1>2. next \in [(1 .. L) \X S -> S]
  <2>1. ASSUME NEW n \in 1 .. L, NEW s \in S, n # 1 PROVE s \o Dots(lines[n - 1], lines[n]) \in S
    <3>1. n - 1 \in 1 .. L
      BY <2>1
    <3>2. Dots(lines[n - 1], lines[n]) \in S
      BY <3>1, DotsTyped
    <3> QED
      BY <3>2, ConcatProperties
  <2> HIDE DEF S
  <2> QED
    BY <1>1, <2>1
<1>3. PICK F \in [0 .. L -> S] : F[0] = none /\ \A n \in 1 .. L : F[n] = next[<<n, F[n - 1]>>]
  <2> HIDE DEF next, S, none
  <2>1. \E F \in [0 .. L -> S] : Unrolls(F, none, L, next)
    BY <1>1, <1>2, StepByStep
  <2> QED
    BY <2>1 DEF Unrolls
<1>4. ASSUME NEW n \in 0 .. L
      PROVE  F[n] = IF n <= 1 THEN <<>> ELSE F[n - 1] \o Dots(lines[n - 1], lines[n])
  <2>1. CASE n = 0
    BY <1>3, <2>1
  <2>2. CASE n # 0
    <3>1. n \in 1 .. L /\ n - 1 \in 0 .. L
      BY <2>2
    <3>2. <<n, F[n - 1]>> \in (1 .. L) \X S
      BY <3>1
    <3>3. F[n] = IF n = 1 THEN none ELSE F[n - 1] \o Dots(lines[n - 1], lines[n])
      BY <1>3, <3>1, <3>2
    <3> QED
      BY <3>1, <3>3
  <2> QED
    BY <2>1, <2>2
<1>5. F = [n \in 0 .. L |-> F[n]]
  OBVIOUS
<1> HIDE DEF S
<1>6. Drawn(F, L, lines)
  BY <1>4, <1>5 DEF Drawn
<1> QED
  BY <1>3, <1>6 DEF S

\* The points drawn after each vector of a path.
DrawnAlong(F, lines) ==
  /\ F \in [0 .. Len(lines) -> Seq(Dot)]
  /\ \A n \in 0 .. Len(lines) : n <= 1 => F[n] = <<>>
  /\ \A n \in 2 .. Len(lines) : F[n] = F[n - 1] \o Dots(lines[n - 1], lines[n])

LEMMA DrawnBy ==
  ASSUME NEW lines \in Seq(Field)
  PROVE  \E F : DrawnAlong(F, lines) /\ PointsOf(lines) = F[Len(lines)]
<1> DEFINE L == Len(lines)
           G == CHOOSE F : Drawn(F, L, lines)
<1>1. L \in Nat /\ lines \in [1 .. L -> Field]
  BY LenProperties
<1>2. PICK F \in [0 .. L -> Seq(Dot)] : Drawn(F, L, lines)
  BY <1>1, DrawnExists
<1>3. Drawn(G, L, lines)
  BY <1>2
<1>4. PointsOf(lines) = G[L]
  BY DEF PointsOf, Drawn
<1> HIDE DEF G
<1>5. \A n \in 0 .. L : F[n] = IF n <= 1 THEN <<>> ELSE F[n - 1] \o Dots(lines[n - 1], lines[n])
  BY <1>2 DEF Drawn
<1>6. \A n \in 0 .. L : G[n] = IF n <= 1 THEN <<>> ELSE G[n - 1] \o Dots(lines[n - 1], lines[n])
  BY <1>3 DEF Drawn
<1>7. 0 .. L \subseteq {n \in 0 .. L : G[n] = F[n]}
  <2> DEFINE T == {n \in 0 .. L : G[n] = F[n]}
  <2>1. 0 \in T
    <3>1. 0 \in 0 .. L
      BY <1>1
    <3>2. F[0] = <<>>
      BY <1>5, <3>1, SMTT(60)
    <3>3. G[0] = <<>>
      BY <1>6, <3>1
    <3> QED
      BY <3>1, <3>2, <3>3
  <2>2. ASSUME NEW n \in 0 .. L - 1, n \in T PROVE n + 1 \in T
    <3>1. n + 1 \in 0 .. L /\ (n + 1) - 1 = n
      BY <1>1
    <3>2. /\ F[n + 1] = IF n + 1 <= 1 THEN <<>> ELSE F[n] \o Dots(lines[n], lines[n + 1])
          /\ G[n + 1] = IF n + 1 <= 1 THEN <<>> ELSE G[n] \o Dots(lines[n], lines[n + 1])
      BY <1>5, <1>6, <3>1
    <3> QED
      BY <2>2, <3>1, <3>2
  <2> HIDE DEF T
  <2>3. 0 .. L \subseteq T
    BY <1>1, <2>1, <2>2, UpTo
  <2> QED
    BY <2>3 DEF T
<1>8. PointsOf(lines) = F[L]
  BY <1>1, <1>4, <1>7
<1>9. \A n \in 0 .. L : n <= 1 => F[n] = <<>>
  BY <1>5
<1>10. ASSUME NEW n \in 2 .. L PROVE F[n] = F[n - 1] \o Dots(lines[n - 1], lines[n])
  <2>1. n \in 0 .. L /\ ~ n <= 1
    BY <1>1
  <2> QED
    BY <1>5, <2>1
<1> QED
  BY <1>8, <1>9, <1>10 DEF DrawnAlong

LEMMA PointsTyped ==
  ASSUME NEW lines \in Seq(Field)
  PROVE  PointsOf(lines) \in Seq(Dot) /\ Len(PointsOf(lines)) \in Nat
<1>1. PICK F : DrawnAlong(F, lines) /\ PointsOf(lines) = F[Len(lines)]
  BY DrawnBy
<1>2. Len(lines) \in 0 .. Len(lines)
  BY LenProperties
<1>3. PointsOf(lines) \in Seq(Dot)
  BY <1>1, <1>2 DEF DrawnAlong
<1> QED
  BY <1>3, LenProperties

LEMMA NoPoints ==
  ASSUME NEW lines \in Seq(Field), Len(lines) <= 1
  PROVE  PointsOf(lines) = <<>>
<1>1. PICK F : DrawnAlong(F, lines) /\ PointsOf(lines) = F[Len(lines)]
  BY DrawnBy
<1>2. Len(lines) \in 0 .. Len(lines)
  BY LenProperties
<1> QED
  BY <1>1, <1>2 DEF DrawnAlong

\* Two paths that begin alike have the same points up to there.
LEMMA SameBeginning ==
  ASSUME NEW lines, NEW more, NEW F, NEW G, DrawnAlong(F, lines), DrawnAlong(G, more),
         Len(lines) \in Nat, Len(more) \in Nat, Len(lines) <= Len(more),
         \A n \in 1 .. Len(lines) : more[n] = lines[n]
  PROVE  \A n \in 0 .. Len(lines) : F[n] = G[n]
<1> DEFINE T == {n \in 0 .. Len(lines) : F[n] = G[n]}
<1>1. 0 \in T
  <2>1. 0 \in 0 .. Len(lines) /\ 0 \in 0 .. Len(more)
    OBVIOUS
  <2>2. F[0] = <<>> /\ G[0] = <<>>
    BY <2>1 DEF DrawnAlong
  <2> QED
    BY <2>1, <2>2
<1>2. ASSUME NEW n \in 0 .. Len(lines) - 1, n \in T PROVE n + 1 \in T
  <2>1. n + 1 \in 0 .. Len(lines) /\ n + 1 \in 0 .. Len(more) /\ (n + 1) - 1 = n
    OBVIOUS
  <2>2. CASE n = 0
    <3>1. F[n + 1] = <<>> /\ G[n + 1] = <<>>
      BY <2>1, <2>2 DEF DrawnAlong
    <3> QED
      BY <2>1, <3>1
  <2>3. CASE n # 0
    <3>1. n + 1 \in 2 .. Len(lines) /\ n + 1 \in 2 .. Len(more)
      BY <2>3
    <3>2. F[n + 1] = F[n] \o Dots(lines[n], lines[n + 1])
      BY <2>1, <3>1 DEF DrawnAlong
    <3>3. G[n + 1] = G[n] \o Dots(more[n], more[n + 1])
      BY <2>1, <3>1 DEF DrawnAlong
    <3>4. more[n] = lines[n] /\ more[n + 1] = lines[n + 1] /\ F[n] = G[n]
      BY <1>2, <3>1
    <3> QED
      BY <2>1, <3>2, <3>3, <3>4
  <2> QED
    BY <2>2, <2>3
<1>3. 0 .. Len(lines) \subseteq T
  <2>1. PICK L \in Nat : L = Len(lines)
    OBVIOUS
  <2>2. 0 \in T /\ \A n \in 0 .. L - 1 : n \in T => n + 1 \in T
    BY <1>1, <1>2, <2>1
  <2> HIDE DEF T
  <2>3. 0 .. L \subseteq T
    BY <2>2, UpTo
  <2> QED
    BY <2>1, <2>3
<1> QED
  BY <1>3

LEMMA Beginning ==
  ASSUME NEW S, NEW lines \in Seq(S), NEW k \in 0 .. Len(lines)
  PROVE  /\ SubSeq(lines, 1, k) \in Seq(S)
         /\ Len(SubSeq(lines, 1, k)) = k
         /\ \A n \in 1 .. k : SubSeq(lines, 1, k)[n] = lines[n]
<1>1. Len(lines) \in Nat /\ \A n \in 1 .. k : lines[n] \in S
  BY LenProperties, ElementOfSeq
<1> QED
  BY <1>1, SubSeqProperties

LEMMA PointsOfBeginning ==
  ASSUME NEW lines \in Seq(Field), NEW F, DrawnAlong(F, lines), NEW k \in 0 .. Len(lines)
  PROVE  PointsOf(SubSeq(lines, 1, k)) = F[k]
<1>1. Len(lines) \in Nat
  BY LenProperties
<1>2. PICK begin \in Seq(Field) :
        begin = SubSeq(lines, 1, k) /\ Len(begin) = k /\ \A n \in 1 .. k : lines[n] = begin[n]
  BY Beginning, ZenonT(60)
<1>3. PICK G : DrawnAlong(G, begin) /\ PointsOf(begin) = G[Len(begin)]
  BY DrawnBy
<1>4. Len(begin) \in Nat /\ Len(begin) <= Len(lines)
      /\ \A n \in 1 .. Len(begin) : lines[n] = begin[n]
  BY <1>1, <1>2
<1>5. \A n \in 0 .. Len(begin) : G[n] = F[n]
  BY <1>1, <1>3, <1>4, SameBeginning
<1> QED
  BY <1>2, <1>3, <1>5

LEMMA LastSegment ==
  ASSUME NEW lines \in Seq(Field), Len(lines) > 1
  PROVE  PointsOf(lines) = PointsOf(Front(lines)) \o LastDots(lines)
<1>1. PICK F : DrawnAlong(F, lines) /\ PointsOf(lines) = F[Len(lines)]
  BY DrawnBy
<1>2. Len(lines) \in 2 .. Len(lines) /\ Len(lines) - 1 \in 0 .. Len(lines)
  BY LenProperties
<1>3. PointsOf(Front(lines)) = F[Len(lines) - 1]
  BY <1>1, <1>2, PointsOfBeginning DEF Front
<1> QED
  BY <1>1, <1>2, <1>3 DEF DrawnAlong, LastDots

\* The number of points up to the k-th vector.
Reach(lines, k) == Len(PointsOf(SubSeq(lines, 1, k)))

LEMMA ReachFacts ==
  ASSUME NEW lines \in Seq(Field)
  PROVE  /\ \A k \in 0 .. Len(lines) : Reach(lines, k) \in Nat
         /\ \A k \in 0 .. Len(lines) : k <= 1 => Reach(lines, k) = 0
         /\ \A k \in 2 .. Len(lines) :
              Reach(lines, k) = Reach(lines, k - 1) + Ceiling(lines[k - 1], lines[k])
         /\ Reach(lines, Len(lines)) = Len(PointsOf(lines))
<1>1. PICK F : DrawnAlong(F, lines) /\ PointsOf(lines) = F[Len(lines)]
  BY DrawnBy
<1>2. \A k \in 0 .. Len(lines) : Reach(lines, k) = Len(F[k])
  BY <1>1, PointsOfBeginning DEF Reach
<1>3. Len(lines) \in Nat /\ \A k \in 1 .. Len(lines) : lines[k] \in Field
  BY LenProperties, ElementOfSeq
<1>4. \A k \in 0 .. Len(lines) : F[k] \in Seq(Dot)
  BY <1>1 DEF DrawnAlong
<1>5. ASSUME NEW k \in 0 .. Len(lines) PROVE Reach(lines, k) \in Nat
  BY <1>2, <1>4, LenProperties
<1>6. ASSUME NEW k \in 0 .. Len(lines), k <= 1 PROVE Reach(lines, k) = 0
  <2>1. F[k] = <<>>
    BY <1>1, <1>6 DEF DrawnAlong
  <2> QED
    BY <1>2, <2>1, EmptySeq
<1>7. ASSUME NEW k \in 2 .. Len(lines)
      PROVE  Reach(lines, k) = Reach(lines, k - 1) + Ceiling(lines[k - 1], lines[k])
  <2>1. k \in 0 .. Len(lines) /\ k - 1 \in 0 .. Len(lines)
        /\ k \in 1 .. Len(lines) /\ k - 1 \in 1 .. Len(lines)
    BY <1>3
  <2>2. F[k] = F[k - 1] \o Dots(lines[k - 1], lines[k])
    BY <1>1 DEF DrawnAlong
  <2>3. F[k - 1] \in Seq(Dot) /\ Dots(lines[k - 1], lines[k]) \in Seq(Dot)
        /\ Len(Dots(lines[k - 1], lines[k])) = Ceiling(lines[k - 1], lines[k])
    BY <1>3, <1>4, <2>1, DotsTyped
  <2>4. Len(F[k]) = Len(F[k - 1]) + Len(Dots(lines[k - 1], lines[k]))
    BY <2>2, <2>3, ConcatProperties
  <2> QED
    BY <1>2, <2>1, <2>3, <2>4
<1>8. Reach(lines, Len(lines)) = Len(PointsOf(lines))
  BY SubSeqFull DEF Reach
<1> QED
  BY <1>5, <1>6, <1>7, <1>8

LEMMA ReachGrows ==
  ASSUME NEW lines \in Seq(Field), NEW k \in 0 .. Len(lines)
  PROVE  Reach(lines, k) <= Len(PointsOf(lines))
<1>1. PICK L \in Nat : L = Len(lines)
  BY LenProperties
<1> DEFINE T == {j \in 0 .. L : Reach(lines, L - j) <= Reach(lines, L)}
<1>2. 0 \in T
  <2>1. L - 0 = L /\ L \in 0 .. L /\ 0 \in 0 .. L
    OBVIOUS
  <2>2. Reach(lines, L) \in Nat
    BY <1>1, <2>1, ReachFacts
  <2> QED
    BY <2>1, <2>2
<1>3. ASSUME NEW j \in 0 .. L - 1, j \in T PROVE j + 1 \in T
  <2> DEFINE i == L - j
  <2>1. i \in 1 .. L /\ i \in 0 .. L /\ i - 1 \in 0 .. L /\ L \in 0 .. L /\ L - (j + 1) = i - 1
    OBVIOUS
  <2>2. Reach(lines, i) \in Nat /\ Reach(lines, i - 1) \in Nat /\ Reach(lines, L) \in Nat
    BY <1>1, <2>1, ReachFacts
  <2>3. Reach(lines, i) <= Reach(lines, L)
    BY <1>3
  <2> HIDE DEF i
  <2>4. Reach(lines, i - 1) <= Reach(lines, i)
    <3>1. CASE i = 1
      <4>1. Reach(lines, i - 1) = 0
        BY <1>1, <2>1, <3>1, ReachFacts
      <4> QED
        BY <2>2, <4>1
    <3>2. CASE i # 1
      <4>1. i \in 2 .. L
        BY <2>1, <3>2
      <4>2. Reach(lines, i) = Reach(lines, i - 1) + Ceiling(lines[i - 1], lines[i])
        BY <1>1, <4>1, ReachFacts
      <4>3. lines[i - 1] \in Field /\ lines[i] \in Field
        BY <1>1, <4>1, ElementOfSeq
      <4>4. Ceiling(lines[i - 1], lines[i]) \in Nat
        BY <4>3, CeilingFacts
      <4> QED
        BY <2>2, <4>2, <4>4
    <3> QED
      BY <3>1, <3>2
  <2>5. Reach(lines, i - 1) <= Reach(lines, L)
    BY <2>2, <2>3, <2>4
  <2> QED
    BY <2>1, <2>5
<1>4. 0 .. L \subseteq T
  <2> HIDE DEF T
  <2> QED
    BY <1>2, <1>3, UpTo
<1>5. L - k \in 0 .. L /\ L - (L - k) = k
  BY <1>1
<1>6. Reach(lines, k) <= Reach(lines, L)
  BY <1>4, <1>5
<1> QED
  BY <1>1, <1>6, ReachFacts

------------------------------------------------------------------------------
(* What trigger points measure *)

\* The function in TotalDist.
Measured(F, L) ==
  F = [n \in 0 .. L |->
         IF n = 0 THEN 0
         ELSE F[n - 1] + Hundredths[<<lineVectors[n], lineVectors[n + 1]>>]]

LEMMA SegmentLengths ==
  ASSUME lineVectors \in Seq(Field), NEW n \in 1 .. Len(lineVectors) - 1
  PROVE  Hundredths[<<lineVectors[n], lineVectors[n + 1]>>]
           \in 0 .. Hundred * Ceiling(lineVectors[n], lineVectors[n + 1])
<1>1. n \in 1 .. Len(lineVectors) /\ n + 1 \in 1 .. Len(lineVectors)
  BY LenProperties
<1>2. lineVectors[n] \in Field /\ lineVectors[n + 1] \in Field
  BY <1>1, ElementOfSeq
<1> QED
  BY <1>2, HundredthsFacts

LEMMA MeasuredExists ==
  ASSUME lineVectors \in Seq(Field), NEW L \in Nat, L < Len(lineVectors)
  PROVE  \E F : Measured(F, L)
<1> DEFINE length(n) == Hundredths[<<lineVectors[n], lineVectors[n + 1]>>]
           S == Int
           next == [p \in (1 .. L) \X S |-> p[2] + length(p[1])]
<1>1. ASSUME NEW n \in 1 .. L PROVE length(n) \in Int
  <2>1. n \in 1 .. Len(lineVectors) - 1
    BY LenProperties
  <2>2. Hundred * Ceiling(lineVectors[n], lineVectors[n + 1]) \in Int
    <3>1. lineVectors[n] \in Field /\ lineVectors[n + 1] \in Field
      BY <2>1, LenProperties, ElementOfSeq
    <3>2. Ceiling(lineVectors[n], lineVectors[n + 1]) \in Nat
      BY <3>1, CeilingFacts
    <3> QED
      BY <3>2 DEF Hundred
  <2> QED
    BY <2>1, <2>2, SegmentLengths
<1> HIDE DEF length
<1>2. next \in [(1 .. L) \X S -> S] /\ 0 \in S
  BY <1>1
<1>3. PICK F \in [0 .. L -> S] : F[0] = 0 /\ \A n \in 1 .. L : F[n] = next[<<n, F[n - 1]>>]
  <2> HIDE DEF next, S
  <2>1. \E F \in [0 .. L -> S] : Unrolls(F, 0, L, next)
    BY <1>2, StepByStep
  <2> QED
    BY <2>1 DEF Unrolls
<1>4. ASSUME NEW n \in 0 .. L PROVE F[n] = IF n = 0 THEN 0 ELSE F[n - 1] + length(n)
  <2>1. CASE n # 0
    <3>1. n \in 1 .. L /\ <<n, F[n - 1]>> \in (1 .. L) \X Int
      BY <2>1
    <3> QED
      BY <1>3, <2>1, <3>1
  <2> QED
    BY <1>3, <2>1
<1>5. F = [n \in 0 .. L |-> F[n]]
  OBVIOUS
<1>6. Measured(F, L)
  BY <1>4, <1>5 DEF Measured, length
<1> QED
  BY <1>6

\* A trigger point is never measured further along the path than the points of
\* its segment go, nor before the first of them.
LEMMA DistanceWithinPoints ==
  ASSUME lineVectors \in Seq(Field), NEW segment \in 0 .. Len(lineVectors) - 2,
         NEW m \in {segment + 1, segment + 2}
  PROVE  TotalDist(segment, lineVectors[m]) \in 0 .. Hundred * Reach(lineVectors, segment + 2)
<1> DEFINE R(k) == Reach(lineVectors, k)
           C(k) == Ceiling(lineVectors[k], lineVectors[k + 1])
           length(n) == Hundredths[<<lineVectors[n], lineVectors[n + 1]>>]
           F == CHOOSE F : Measured(F, segment)
           last == Hundredths[<<lineVectors[segment + 1], lineVectors[m]>>]
<1>1. Len(lineVectors) \in Nat /\ segment \in Nat /\ segment + 2 <= Len(lineVectors)
  BY LenProperties
<1>2. Measured(F, segment)
  BY <1>1, MeasuredExists
<1>3. TotalDist(segment, lineVectors[m]) = F[segment] + last
  BY DEF TotalDist, Measured
<1>4. \A n \in 0 .. segment : F[n] = IF n = 0 THEN 0 ELSE F[n - 1] + length(n)
  BY <1>2 DEF Measured
<1>5. ASSUME NEW n \in 0 .. segment
      PROVE  R(n + 1) \in Nat /\ R(n + 2) \in Nat /\ C(n + 1) \in Nat /\ R(n + 2) = R(n + 1) + C(n + 1)
  <2>1. n + 1 \in 0 .. Len(lineVectors) /\ n + 2 \in 2 .. Len(lineVectors)
        /\ n + 2 \in 0 .. Len(lineVectors)
        /\ n + 1 \in 1 .. Len(lineVectors) /\ n + 2 \in 1 .. Len(lineVectors)
        /\ (n + 2) - 1 = n + 1 /\ (n + 1) + 1 = n + 2
    BY <1>1
  <2>2. R(n + 1) \in Nat /\ R(n + 2) \in Nat
    BY <2>1, ReachFacts
  <2>3. R(n + 2) = R((n + 2) - 1) + Ceiling(lineVectors[(n + 2) - 1], lineVectors[n + 2])
    BY <2>1, ReachFacts
  <2>4. lineVectors[n + 1] \in Field /\ lineVectors[n + 2] \in Field
    BY <2>1, ElementOfSeq
  <2>5. C(n + 1) \in Nat
    BY <2>1, <2>4, CeilingFacts
  <2> HIDE DEF R
  <2> QED
    BY <2>1, <2>2, <2>3, <2>5
<1> HIDE DEF F
<1>6. F[segment] \in 0 .. Hundred * R(segment + 1)
  <2> DEFINE T == {n \in 0 .. segment : F[n] \in 0 .. Hundred * R(n + 1)}
  <2>1. 0 \in T
    <3>1. 0 \in 0 .. segment
      BY <1>1
    <3>2. R(0 + 1) \in Nat
      BY <1>5, <3>1
    <3>3. F[0] = 0
      BY <1>4, <3>1
    <3> HIDE DEF R
    <3>4. F[0] \in 0 .. Hundred * R(0 + 1)
      BY <3>2, <3>3 DEF Hundred
    <3> QED
      BY <3>1, <3>4
  <2>2. ASSUME NEW n \in 0 .. segment - 1, n \in T PROVE n + 1 \in T
    <3>1. n \in 0 .. segment /\ n + 1 \in 0 .. segment /\ n + 1 # 0 /\ (n + 1) - 1 = n
          /\ n + 1 \in 1 .. Len(lineVectors) - 1 /\ (n + 1) + 1 = n + 2
      BY <1>1
    <3>2. F[n + 1] = F[n] + length(n + 1)
      BY <1>4, <3>1
    <3>3. length(n + 1) \in 0 .. Hundred * C(n + 1)
      BY <3>1, SegmentLengths
    <3>4. R(n + 1) \in Nat /\ C(n + 1) \in Nat /\ R(n + 2) = R(n + 1) + C(n + 1)
      BY <1>5, <3>1
    <3>5. F[n] \in 0 .. Hundred * R(n + 1)
      BY <2>2
    <3> HIDE DEF R, C, length
    <3>6. F[n + 1] \in 0 .. Hundred * R(n + 2)
      BY <3>2, <3>3, <3>4, <3>5, SMTT(30) DEF Hundred
    <3> QED
      BY <3>1, <3>6
  <2>3. 0 .. segment \subseteq T
    <3> HIDE DEF T
    <3> QED
      BY <1>1, <2>1, <2>2, UpTo
  <2> QED
    BY <1>1, <2>3
<1>7. last \in 0 .. Hundred * C(segment + 1)
  <2>1. segment + 1 \in 1 .. Len(lineVectors) - 1 /\ segment + 1 \in 1 .. Len(lineVectors)
        /\ (segment + 1) + 1 = segment + 2
    BY <1>1
  <2>2. CASE m = segment + 2
    BY <2>1, <2>2, SegmentLengths
  <2>3. CASE m = segment + 1
    <3> DEFINE v == lineVectors[segment + 1]
    <3>1. v \in Field
      BY <2>1, ElementOfSeq
    <3>2. Square(v, v) = 0
      <4>1. v \in Int \X Int
        BY <3>1, EditorAssumption
      <4>2. v[1] \in Int /\ v[2] \in Int
        BY <4>1
      <4> HIDE DEF v
      <4>3. v[1] - v[1] = 0 /\ v[2] - v[2] = 0
        BY <4>2
      <4> QED
        BY <4>3 DEF Square
    <3> HIDE DEF v
    <3>3. Floor(v, v) \in Nat /\ Floor(v, v) * Floor(v, v) <= 0
      BY <3>1, <3>2, FloorFacts
    <3>4. Floor(v, v) = 0
      <4> DEFINE f == Floor(v, v)
      <4> SUFFICES ASSUME f # 0 PROVE FALSE
        OBVIOUS
      <4>1. f \in Nat \ {0}
        BY <3>3
      <4>2. f * f <= 0
        BY <3>3
      <4> HIDE DEF f
      <4>3. 1 * f <= f * f
        BY <4>1, ProductsGrow
      <4> QED
        BY <4>1, <4>2, <4>3
    <3>5. Ceiling(v, v) = 0
      BY <3>2, <3>4 DEF Ceiling
    <3>6. last \in 0 .. 0
      <4>1. last = Hundredths[<<v, v>>]
        BY <2>3 DEF v
      <4> HIDE DEF last
      <4> QED
        BY <3>1, <3>5, <4>1, HundredthsFacts DEF Hundred
    <3>7. C(segment + 1) \in Nat
      BY <1>1, <1>5
    <3> HIDE DEF C, last
    <3> QED
      BY <3>6, <3>7 DEF Hundred
  <2> QED
    BY <2>2, <2>3
<1>8. R(segment + 1) \in Nat /\ C(segment + 1) \in Nat /\ R(segment + 2) = R(segment + 1) + C(segment + 1)
  BY <1>1, <1>5
<1> HIDE DEF R, C, last
<1>9. F[segment] + last \in 0 .. Hundred * R(segment + 2)
  BY <1>6, <1>7, <1>8, SMTT(60) DEF Hundred
<1> QED
  BY <1>3, <1>9 DEF R

------------------------------------------------------------------------------
(* Paths off the page: on their way to or from the disk, or on it *)

Elsewhere == {w.content : w \in writes}
               \cup ({disk[f] : f \in Files} \ {None}) \cup ({loading} \ {None})

LEMMA IsElsewhere ==
  \A c : c \in Elsewhere <=> \/ \E w \in writes : c = w.content
                             \/ c # None /\ \E f \in Files : c = disk[f]
                             \/ c # None /\ c = loading
  BY DEF Elsewhere

LEMMA IsElsewhereNext ==
  \A c : c \in Elsewhere' <=> \/ \E w \in writes' : c = w.content
                              \/ c # None /\ \E f \in Files : c = disk'[f]
                              \/ c # None /\ c = loading'
  BY DEF Elsewhere

\* A path gets there from there, or from the page by a write, which writes what
\* the page then shows.
JustWritten(c) ==
  /\ c = Content'
  /\ UNCHANGED <<lineVectors, points>>
  /\ hasty' = (hasty \/ Undrawn)

LEMMA NothingNew ==
  ASSUME IInv, [Next]_vars, NEW c \in Elsewhere'
  PROVE  c \in Elsewhere \/ JustWritten(c)
<1>1. ASSUME UNCHANGED <<writes, disk, loading>> PROVE c \in Elsewhere
  BY <1>1, IsElsewhere, IsElsewhereNext
<1>2. CASE Reload
  BY <1>2, IsElsewhere, IsElsewhereNext DEF Reload
<1>3. ASSUME NEW f, NEW x, StartWrite(f, x), UNCHANGED <<disk, loading>>
      PROVE  c \in Elsewhere \/ c = x
  BY <1>3, IsElsewhere, IsElsewhereNext DEF StartWrite
<1>4. CASE SaveToFile
  <2>1. [Content EXCEPT !.triggerPoints = NamesRead] = Content'
    BY <1>4 DEF SaveToFile, Content
  <2>2. c \in Elsewhere \/ c = Content'
    BY <1>3, <1>4, <2>1 DEF SaveToFile
  <2> QED
    BY <1>4, <2>2 DEF SaveToFile, StartWrite, JustWritten
<1>5. ASSUME NEW f \in Files, SavePicked(f) PROVE c \in Elsewhere \/ JustWritten(c)
  <2>1. Content = Content'
    BY <1>5 DEF SavePicked, Content, lists
  <2>2. c \in Elsewhere \/ c = Content'
    BY <1>3, <1>5, <2>1 DEF SavePicked
  <2> QED
    BY <1>5, <2>2 DEF SavePicked, StartWrite, JustWritten, lists
<1>6. ASSUME NEW w \in writes, WriteEnds(w) PROVE c \in Elsewhere
  <2>1. \A f \in Files : disk'[f] = w.content \/ disk'[f] = disk[f]
    BY <1>6 DEF WriteEnds, IInv, FilesOK
  <2>2. writes' \subseteq writes /\ loading' = loading
    BY <1>6 DEF WriteEnds
  <2> QED
    BY <2>1, <2>2, IsElsewhere, IsElsewhereNext
<1>7. ASSUME NEW f \in Files, OpenPicked(f) PROVE c \in Elsewhere
  BY <1>7, IsElsewhere, IsElsewhereNext DEF OpenPicked
<1>8. CASE OpenEnds
  BY <1>8, IsElsewhere, IsElsewhereNext DEF OpenEnds
<1>9. ASSUME \/ \E v \in Field : MouseClicked(v)
             \/ \E segment \in 0 .. Len(lineVectors) - 2 :
                  \E n \in {segment + 1, segment + 2} :
                    CreateTriggerPoint(segment, lineVectors[n])
             \/ RemoveLastLineVector
             \/ \E n \in DOMAIN inputs, name \in Names : Type(n, name)
             \/ Draw \/ SaveFails \/ SaveAsks \/ OpenAsks \/ PickerCancelled \/ UNCHANGED vars
      PROVE  UNCHANGED <<writes, disk, loading>>
  BY <1>9 DEF MouseClicked, CreateTriggerPoint, RemoveLastLineVector, Type, Draw, SaveFails,
              SaveAsks, OpenAsks, PickerCancelled, vars, io
<1> QED
  BY <1>1, <1>2, <1>4, <1>5, <1>6, <1>7, <1>8, <1>9 DEF Next

------------------------------------------------------------------------------
(* Points cover lines *)

Covered(c) == c.points = PointsOf(c.lineVectors)

\* Before draw() runs the points are those of the path without its last vector.
CoverInv ==
  ~hasty => /\ points = PointsOf(IF Undrawn THEN Front(lineVectors) ELSE lineVectors)
            /\ \A c \in Elsewhere : Covered(c)

LEMMA EmptyHasNoPoints == PointsOf(<<>>) = <<>>
<1>1. \A lines : lines = <<>> => PointsOf(lines) = <<>>
  <2> SUFFICES ASSUME NEW lines, lines = <<>> PROVE PointsOf(lines) = <<>>
    OBVIOUS
  <2>1. lines \in Seq(Field) /\ Len(lines) = 0
    BY EmptySeq
  <2>2. Len(lines) <= 1
    BY <2>1
  <2> QED
    BY <2>1, <2>2, NoPoints
<1> QED
  BY <1>1

LEMMA ClickedCovers ==
  ASSUME IInv, NEW v \in Field, MouseClicked(v), ~Undrawn, points = PointsOf(lineVectors)
  PROVE  points' = PointsOf(IF Undrawn' THEN Front(lineVectors') ELSE lineVectors')
<1>1. lineVectors \in Seq(Field) /\ Len(lineVectors) \in Nat
  BY LenProperties DEF IInv, PathOK
<1>2. lineVectors' = Append(lineVectors, v) /\ lineVectorHasChanged' = TRUE /\ points' = points
  BY DEF MouseClicked
<1>3. lineVectors' \in Seq(Field) /\ Len(lineVectors') = Len(lineVectors) + 1
  BY <1>1, <1>2, AppendProperties
<1>4. CASE Len(lineVectors) = 0
  <2>1. Len(lineVectors) <= 1 /\ Len(lineVectors') <= 1
    BY <1>3, <1>4
  <2>2. points = <<>>
    BY <1>1, <2>1, NoPoints
  <2>3. PointsOf(lineVectors') = <<>>
    BY <1>3, <2>1, NoPoints
  <2>4. ~Undrawn'
    BY <1>3, <1>4 DEF Undrawn
  <2> QED
    BY <1>2, <2>2, <2>3, <2>4
<1>5. CASE Len(lineVectors) # 0
  <2>1. Undrawn'
    BY <1>1, <1>2, <1>3, <1>5 DEF Undrawn
  <2>2. Front(lineVectors') = lineVectors
    <3>1. Len(lineVectors) \in 0 .. Len(lineVectors')
      BY <1>1, <1>3
    <3>2. Front(lineVectors') = SubSeq(lineVectors', 1, Len(lineVectors))
      BY <1>1, <1>3 DEF Front
    <3>3. /\ Front(lineVectors') \in Seq(Field)
          /\ Len(Front(lineVectors')) = Len(lineVectors)
          /\ \A n \in 1 .. Len(lineVectors) : Front(lineVectors')[n] = lineVectors'[n]
      BY <1>3, <3>1, <3>2, Beginning
    <3>4. \A n \in 1 .. Len(lineVectors) : lineVectors'[n] = lineVectors[n]
      BY <1>1, <1>2, AppendProperties
    <3> QED
      BY <1>1, <3>3, <3>4, SeqEqual
  <2> QED
    BY <1>2, <2>1, <2>2
<1> QED
  BY <1>4, <1>5

\* The undo removes as many points as draw() put on the last segment.
LEMMA UndoneCovers ==
  ASSUME IInv, RemoveLastLineVector, ~BadUndo, points = PointsOf(lineVectors)
  PROVE  points' = PointsOf(lineVectors')
<1> DEFINE L == Len(lineVectors)
           v == lineVectors[L - 1]
           w == lineVectors[L]
           front == PointsOf(Front(lineVectors))
<1>1. lineVectors \in Seq(Field) /\ L \in Nat /\ L > 1
  BY LenProperties DEF IInv, PathOK, RemoveLastLineVector
<1>2. v \in Field /\ w \in Field
  <2>1. L - 1 \in 1 .. L /\ L \in 1 .. L
    BY <1>1
  <2> QED
    BY <1>1, <2>1, ElementOfSeq
<1>3. Ceiling(v, w) = Floor(v, w) /\ Floor(v, w) # 0
  BY <1>1 DEF BadUndo
<1>4. points = front \o Dots(v, w)
  BY <1>1, LastSegment DEF LastDots
<1>5. Front(lineVectors) \in Seq(Field)
  <2>1. L - 1 \in 0 .. L
    BY <1>1
  <2> QED
    BY <1>1, <2>1, Beginning DEF Front
<1>6. front \in Seq(Dot) /\ Len(front) \in Nat
  BY <1>5, PointsTyped
<1>7. Dots(v, w) \in Seq(Dot) /\ Len(Dots(v, w)) = Floor(v, w) /\ Floor(v, w) \in Nat
  BY <1>2, <1>3, DotsTyped, FloorFacts
<1>8. points' = SubSeq(points, 1, Len(points) - Floor(v, w))
  BY <1>3 DEF RemoveLastLineVector, Splice
<1>9. lineVectors' = Front(lineVectors)
  BY DEF RemoveLastLineVector
<1> HIDE DEF front, v, w
<1>10. points \in Seq(Dot) /\ Len(points) = Len(front) + Floor(v, w)
       /\ \A n \in 1 .. Len(front) : points[n] = front[n]
  <2> DEFINE dots == Dots(v, w)
  <2>1. /\ front \o dots \in Seq(Dot)
        /\ Len(front \o dots) = Len(front) + Len(dots)
        /\ \A i \in 1 .. Len(front) + Len(dots) :
             (front \o dots)[i] = IF i <= Len(front) THEN front[i] ELSE dots[i - Len(front)]
    BY <1>6, <1>7, ConcatProperties
  <2> HIDE DEF dots
  <2>2. points = front \o dots /\ Len(dots) = Floor(v, w)
    BY <1>4, <1>7 DEF dots
  <2> QED
    BY <1>6, <1>7, <2>1, <2>2
<1>11. points' = SubSeq(points, 1, Len(front)) /\ Len(front) \in 0 .. Len(points)
  BY <1>6, <1>7, <1>8, <1>10
<1>12. points' \in Seq(Dot) /\ Len(points') = Len(front)
       /\ \A n \in 1 .. Len(front) : points'[n] = points[n]
  BY <1>10, <1>11, Beginning
<1>13. points' = front
  BY <1>6, <1>10, <1>12, SeqEqual
<1> QED
  BY <1>9, <1>13 DEF front

LEMMA DrawnCovers ==
  ASSUME IInv, Draw, points = PointsOf(IF Undrawn THEN Front(lineVectors) ELSE lineVectors)
  PROVE  ~Undrawn' /\ points' = PointsOf(lineVectors')
<1>1. lineVectors' = lineVectors /\ lineVectors \in Seq(Field)
  BY DEF Draw, IInv, PathOK
<1>2. Len(lineVectors) \in Nat
  BY <1>1, LenProperties
<1>3. ~Undrawn'
  <2>1. lineVectorHasChanged' = (lineVectorHasChanged /\ Len(lineVectors) <= 1)
    BY DEF Draw
  <2>2. ~(Len(lineVectors) <= 1 /\ Len(lineVectors) > 1)
    BY <1>2
  <2>3. Undrawn' <=> lineVectorHasChanged' /\ Len(lineVectors) > 1
    BY <1>1 DEF Undrawn
  <2> QED
    BY <2>1, <2>2, <2>3, Zenon
<1>4. CASE Undrawn
  <2>1. points' = PointsOf(Front(lineVectors)) \o LastDots(lineVectors)
    BY <1>4 DEF Draw, Undrawn
  <2> QED
    BY <1>1, <1>3, <1>4, <2>1, LastSegment DEF Undrawn
<1>5. CASE ~Undrawn
  <2>1. points' = points
    BY <1>5 DEF Draw, Undrawn
  <2> QED
    BY <1>1, <1>3, <1>5, <2>1
<1> QED
  BY <1>4, <1>5

LEMMA CoverStarts == Init => CoverInv
<1> SUFFICES ASSUME Init PROVE CoverInv
  OBVIOUS
<1>1. lineVectors = <<>> /\ points = <<>> /\ ~Undrawn
  BY DEF Init, Undrawn
<1>2. points = PointsOf(lineVectors)
  BY <1>1, EmptyHasNoPoints
<1>3. \A c : c \notin Elsewhere
  BY IsElsewhere DEF Init
<1> QED
  BY <1>1, <1>2, <1>3 DEF CoverInv

LEMMA CoverSteps ==
  ASSUME IInv, CoverInv, [Next]_vars PROVE CoverInv'
<1> DEFINE Page == points = PointsOf(IF Undrawn THEN Front(lineVectors) ELSE lineVectors)
<1> SUFFICES ASSUME ~hasty' PROVE Page' /\ \A c \in Elsewhere' : Covered(c)
  BY DEF CoverInv
<1>1. ~hasty
  BY DEF Next, MouseClicked, CreateTriggerPoint, RemoveLastLineVector, Type, Draw, Reload,
         SaveFails, SaveToFile, SaveAsks, OpenAsks, OpenEnds, PickerCancelled, SavePicked,
         OpenPicked, WriteEnds, StartWrite, vars
<1>2. Page /\ \A c \in Elsewhere : Covered(c)
  BY <1>1 DEF CoverInv
<1>3. ASSUME NEW c \in Elsewhere' PROVE Covered(c)
  <2>1. CASE JustWritten(c)
    <3>1. ~Undrawn /\ points' = PointsOf(lineVectors')
      BY <1>2, <2>1 DEF JustWritten
    <3>2. c.points = points' /\ c.lineVectors = lineVectors'
      BY <2>1 DEF JustWritten, Content
    <3> QED
      BY <3>1, <3>2 DEF Covered
  <2> QED
    BY <1>2, <1>3, <2>1, NothingNew
<1>4. ASSUME UNCHANGED <<lineVectors, points, lineVectorHasChanged>> PROVE Page'
  BY <1>2, <1>4 DEF Undrawn
<1>5. ASSUME NEW v \in Field, MouseClicked(v) PROVE Page'
  <2>1. ~Undrawn
    BY <1>5 DEF MouseClicked
  <2> QED
    BY <1>2, <1>5, <2>1, ClickedCovers
<1>6. ASSUME RemoveLastLineVector PROVE Page'
  <2>1. ~Undrawn /\ ~BadUndo
    BY <1>6 DEF RemoveLastLineVector
  <2>2. points' = PointsOf(lineVectors')
    BY <1>2, <1>6, <2>1, UndoneCovers
  <2>3. ~Undrawn'
    BY <1>6, <2>1 DEF RemoveLastLineVector, Undrawn
  <2> QED
    BY <2>2, <2>3
<1>7. ASSUME Draw PROVE Page'
  BY <1>2, <1>7, DrawnCovers
<1>8. ASSUME Reload PROVE Page'
  <2>1. lineVectors' = <<>> /\ points' = <<>> /\ ~Undrawn'
    BY <1>8 DEF Reload, Undrawn
  <2> QED
    BY <2>1, EmptyHasNoPoints
<1>9. ASSUME OpenEnds PROVE Page'
  <2>1. lineVectors' = loading.lineVectors /\ points' = loading.points /\ ~Undrawn'
    BY <1>9 DEF OpenEnds, Undrawn, page
  <2>2. Covered(loading)
    BY <1>2, <1>9, IsElsewhere DEF OpenEnds
  <2> QED
    BY <2>1, <2>2 DEF Covered
<1>10. ASSUME \/ \E segment \in 0 .. Len(lineVectors) - 2 :
                   \E n \in {segment + 1, segment + 2} :
                     CreateTriggerPoint(segment, lineVectors[n])
              \/ \E n \in DOMAIN inputs, name \in Names : Type(n, name)
              \/ SaveFails \/ SaveToFile \/ SaveAsks \/ OpenAsks \/ PickerCancelled
              \/ \E f \in Files : SavePicked(f) \/ OpenPicked(f)
              \/ \E w \in writes : WriteEnds(w)
              \/ UNCHANGED vars
       PROVE  UNCHANGED <<lineVectors, points, lineVectorHasChanged>>
  BY <1>10 DEF CreateTriggerPoint, Type, SaveFails, SaveToFile, SaveAsks, OpenAsks,
               PickerCancelled, SavePicked, OpenPicked, WriteEnds, vars, lists, page
<1>11. Page'
  BY <1>4, <1>5, <1>6, <1>7, <1>8, <1>9, <1>10 DEF Next
<1> QED
  BY <1>3, <1>11

\* Whatever is clicked, saved, opened, reloaded or written in whatever order:
\* as long as draw() runs between two handlers and only segments of whole
\* lengths are undone, the points on the page are those of the segments, one
\* for every inch (script.js:2), for paths of every length.
THEOREM PointsAlwaysCover == Spec => []PointsCoverLines
<1>1. IInv /\ CoverInv /\ [Next]_vars => IInv' /\ CoverInv'
  BY Steps, CoverSteps
<1>2. CoverInv => PointsCoverLines
  BY DEF CoverInv, PointsCoverLines
<1> QED
  BY <1>1, <1>2, Starts, CoverStarts, PTL DEF Spec

\* The undo does what it says (script.js:184) for every path whose last segment
\* is a whole number of inches long, and not 0: these are the only exceptions,
\* and `path_undo` shows that they are some.
THEOREM UndoTakesWholeSegments ==
  Spec => [][RemoveLastLineVector /\ ~Undrawn /\ ~BadUndo /\ points = PointsOf(lineVectors)
               => points' = PointsOf(lineVectors')]_vars
<1>1. IInv /\ [Next]_vars =>
        \/ RemoveLastLineVector /\ ~Undrawn /\ ~BadUndo /\ points = PointsOf(lineVectors)
             => points' = PointsOf(lineVectors')
        \/ UNCHANGED vars
  BY UndoneCovers
<1>2. IInv /\ [Next]_vars => IInv'
  BY Steps
<1> QED
  BY <1>1, <1>2, Starts, PTL DEF Spec

------------------------------------------------------------------------------
(* Trigger points are reached *)

\* No trigger point was measured beyond the points of its segment.
MeasureOK(lines, triggers) ==
  \A i \in 1 .. Len(triggers) :
    triggers[i].distance \in 0 .. Hundred * Reach(lines, triggers[i].segment + 2)

MeasureInv ==
  /\ MeasureOK(lineVectors, triggerPoints)
  /\ \A c \in Elsewhere : MeasureOK(c.lineVectors, c.triggerPoints)

LEMMA SameReach ==
  ASSUME NEW lines \in Seq(Field), NEW more \in Seq(Field),
         NEW k \in 0 .. Len(lines), k \in 0 .. Len(more),
         \A n \in 1 .. k : more[n] = lines[n]
  PROVE  Reach(more, k) = Reach(lines, k)
<1>1. /\ SubSeq(lines, 1, k) \in Seq(Field)
      /\ Len(SubSeq(lines, 1, k)) = k
      /\ \A n \in 1 .. k : SubSeq(lines, 1, k)[n] = lines[n]
  BY Beginning
<1>2. /\ SubSeq(more, 1, k) \in Seq(Field)
      /\ Len(SubSeq(more, 1, k)) = k
      /\ \A n \in 1 .. k : SubSeq(more, 1, k)[n] = more[n]
  BY Beginning
<1>3. SubSeq(more, 1, k) = SubSeq(lines, 1, k)
  BY <1>1, <1>2, SeqEqual
<1> QED
  BY <1>3 DEF Reach

LEMMA ClickMeasured ==
  ASSUME IInv, MeasureInv, NEW v \in Field
  PROVE  MeasureOK(Append(lineVectors, v), triggerPoints)
<1>1. lineVectors \in Seq(Field) /\ Len(lineVectors) \in Nat
  BY LenProperties DEF IInv, PathOK
<1>2. PICK more \in Seq(Field) :
        /\ more = Append(lineVectors, v)
        /\ Len(more) = Len(lineVectors) + 1
        /\ \A n \in 1 .. Len(lineVectors) : more[n] = lineVectors[n]
  <2>1. PICK more : more = Append(lineVectors, v)
    BY Zenon
  <2>2. /\ more \in Seq(Field)
        /\ Len(more) = Len(lineVectors) + 1
        /\ \A n \in 1 .. Len(lineVectors) : more[n] = lineVectors[n]
    BY <1>1, <2>1, AppendProperties, ZenonT(60)
  <2> QED
    BY <2>1, <2>2, Zenon
<1>3. ASSUME NEW i \in 1 .. Len(triggerPoints)
      PROVE  triggerPoints[i].distance \in 0 .. Hundred * Reach(more, triggerPoints[i].segment + 2)
  <2> DEFINE k == triggerPoints[i].segment + 2
  <2>1. triggerPoints[i].segment \in 0 .. Len(lineVectors) - 2
    BY DEF IInv, PathOK
  <2>2. k \in 0 .. Len(lineVectors) /\ k \in 0 .. Len(more)
        /\ \A n \in 1 .. k : n \in 1 .. Len(lineVectors)
    BY <1>1, <1>2, <2>1
  <2>3. triggerPoints[i].distance \in 0 .. Hundred * Reach(lineVectors, k)
    BY DEF MeasureInv, MeasureOK
  <2> HIDE DEF k
  <2>4. Reach(more, k) = Reach(lineVectors, k)
    BY <1>1, <1>2, <2>2, SameReach
  <2>5. triggerPoints[i].distance \in 0 .. Hundred * Reach(more, k)
    BY <2>3, <2>4
  <2> QED
    BY <2>5 DEF k
<1> QED
  BY <1>2, <1>3 DEF MeasureOK

LEMMA UndoMeasured ==
  ASSUME IInv, MeasureInv, Len(lineVectors) > 1
  PROVE  MeasureOK(Front(lineVectors), TriggersKept)
<1>1. lineVectors \in Seq(Field) /\ Len(lineVectors) \in Nat
  BY LenProperties DEF IInv, PathOK
<1>2. PICK front \in Seq(Field) :
        /\ front = Front(lineVectors)
        /\ Len(front) = Len(lineVectors) - 1
        /\ \A n \in 1 .. Len(lineVectors) - 1 : lineVectors[n] = front[n]
  <2>1. Len(lineVectors) - 1 \in 0 .. Len(lineVectors)
    BY <1>1
  <2> QED
    BY <1>1, <2>1, Beginning DEF Front
<1>3. ASSUME NEW i \in 1 .. Len(TriggersKept)
      PROVE  TriggersKept[i].distance \in 0 .. Hundred * Reach(front, TriggersKept[i].segment + 2)
  <2>1. PICK j \in 1 .. Len(triggerPoints) :
          /\ TriggersKept[i] = triggerPoints[j]
          /\ triggerPoints[j].segment # Len(lineVectors) - 2
    BY KeptFrom DEF IInv
  <2> DEFINE k == triggerPoints[j].segment + 2
  <2>2. triggerPoints[j].segment \in 0 .. Len(lineVectors) - 2
    BY DEF IInv, PathOK
  <2>3. k \in 0 .. Len(lineVectors) /\ k \in 0 .. Len(front)
        /\ \A n \in 1 .. k : n \in 1 .. Len(lineVectors) - 1
    BY <1>1, <1>2, <2>1, <2>2, SMTT(60)
  <2>4. triggerPoints[j].distance \in 0 .. Hundred * Reach(lineVectors, k)
    BY DEF MeasureInv, MeasureOK
  <2> HIDE DEF k
  <2>5. Reach(lineVectors, k) = Reach(front, k)
    BY <1>1, <1>2, <2>3, SameReach
  <2>6. triggerPoints[j].distance \in 0 .. Hundred * Reach(front, k)
    BY <2>4, <2>5
  <2> QED
    BY <2>1, <2>6 DEF k
<1> QED
  BY <1>2, <1>3 DEF MeasureOK

LEMMA CreateMeasured ==
  ASSUME IInv, MeasureInv, NEW segment \in 0 .. Len(lineVectors) - 2,
         NEW m \in {segment + 1, segment + 2}, CreateTriggerPoint(segment, lineVectors[m])
  PROVE  MeasureOK(lineVectors, triggerPoints')
<1> DEFINE x == [segment |-> segment, name |-> "unnamed",
                 distance |-> TotalDist(segment, lineVectors[m])]
<1>1. lineVectors \in Seq(Field) /\ \E S : triggerPoints \in Seq(S)
  BY DEF IInv, PathOK
<1>2. x.segment = segment /\ x.distance \in 0 .. Hundred * Reach(lineVectors, segment + 2)
  BY <1>1, DistanceWithinPoints
<1>3. triggerPoints' = Append(triggerPoints, x)
  BY DEF CreateTriggerPoint
<1> HIDE DEF x
<1>4. /\ Len(triggerPoints) \in Nat /\ Len(triggerPoints') = Len(triggerPoints) + 1
      /\ \A i \in 1 .. Len(triggerPoints) : triggerPoints'[i] = triggerPoints[i]
      /\ triggerPoints'[Len(triggerPoints) + 1] = x
  BY <1>1, <1>3, Appended
<1>5. ASSUME NEW i \in 1 .. Len(triggerPoints')
      PROVE  triggerPoints'[i].distance \in
               0 .. Hundred * Reach(lineVectors, triggerPoints'[i].segment + 2)
  <2>1. CASE i = Len(triggerPoints) + 1
    BY <1>2, <1>4, <2>1
  <2>2. CASE i # Len(triggerPoints) + 1
    <3>1. i \in 1 .. Len(triggerPoints)
      BY <1>4, <2>2
    <3> QED
      BY <1>4, <3>1 DEF MeasureInv, MeasureOK
  <2> QED
    BY <2>1, <2>2
<1> QED
  BY <1>5 DEF MeasureOK

LEMMA NamesMeasured ==
  ASSUME IInv, MeasureInv PROVE MeasureOK(lineVectors, NamesRead)
<1>1. ASSUME NEW i \in 1 .. Len(NamesRead)
      PROVE  NamesRead[i].distance \in 0 .. Hundred * Reach(lineVectors, NamesRead[i].segment + 2)
  <2>1. i \in 1 .. Len(triggerPoints)
        /\ NamesRead[i].segment = triggerPoints[i].segment
        /\ NamesRead[i].distance = triggerPoints[i].distance
    BY NamesOnly DEF IInv
  <2> QED
    BY <2>1 DEF MeasureInv, MeasureOK
<1> QED
  BY <1>1 DEF MeasureOK

LEMMA NothingMeasured == \A lines : MeasureOK(lines, <<>>)
<1>1. Len(<<>>) = 0
  BY EmptySeq
<1> QED
  BY <1>1 DEF MeasureOK

LEMMA MeasureStarts == Init => MeasureInv
<1> SUFFICES ASSUME Init PROVE MeasureInv
  OBVIOUS
<1>1. \A c : c \notin Elsewhere
  BY IsElsewhere DEF Init
<1> QED
  BY <1>1, NothingMeasured DEF Init, MeasureInv

LEMMA MeasureSteps ==
  ASSUME IInv, MeasureInv, [Next]_vars PROVE MeasureInv'
<1> DEFINE Page == MeasureOK(lineVectors, triggerPoints)
<1>1. Page /\ \A c \in Elsewhere : MeasureOK(c.lineVectors, c.triggerPoints)
  BY DEF MeasureInv
<1>2. ASSUME UNCHANGED <<lineVectors, triggerPoints>> PROVE Page'
  BY <1>1, <1>2
<1>3. ASSUME NEW v \in Field, MouseClicked(v) PROVE Page'
  BY <1>3, ClickMeasured DEF MouseClicked
<1>4. ASSUME NEW segment \in 0 .. Len(lineVectors) - 2, NEW m \in {segment + 1, segment + 2},
             CreateTriggerPoint(segment, lineVectors[m])
      PROVE  Page'
  BY <1>4, CreateMeasured DEF CreateTriggerPoint
<1>5. ASSUME RemoveLastLineVector PROVE Page'
  BY <1>5, UndoMeasured DEF RemoveLastLineVector
<1>6. ASSUME SaveFails \/ SaveToFile \/ SaveAsks PROVE Page'
  <2>1. lineVectors' = lineVectors /\ triggerPoints' = NamesRead
    BY <1>6 DEF SaveFails, SaveToFile, SaveAsks
  <2> QED
    BY <2>1, NamesMeasured
<1>7. ASSUME Reload PROVE Page'
  BY <1>7, NothingMeasured DEF Reload
<1>8. ASSUME OpenEnds PROVE Page'
  <2>1. loading \in Elsewhere
    BY <1>8, IsElsewhere DEF OpenEnds
  <2> QED
    BY <1>1, <1>8, <2>1 DEF OpenEnds
<1>9. ASSUME \/ \E n \in DOMAIN inputs, name \in Names : Type(n, name)
             \/ Draw \/ OpenAsks \/ PickerCancelled
             \/ \E f \in Files : SavePicked(f) \/ OpenPicked(f)
             \/ \E w \in writes : WriteEnds(w)
             \/ UNCHANGED vars
      PROVE  UNCHANGED <<lineVectors, triggerPoints>>
  BY <1>9 DEF Type, Draw, OpenAsks, PickerCancelled, SavePicked, OpenPicked, WriteEnds, vars, lists
<1>10. Page'
  BY <1>2, <1>3, <1>4, <1>5, <1>6, <1>7, <1>8, <1>9 DEF Next
<1>11. ASSUME NEW c \in Elsewhere' PROVE MeasureOK(c.lineVectors, c.triggerPoints)
  <2>1. CASE JustWritten(c)
    <3>1. c.triggerPoints = triggerPoints' /\ c.lineVectors = lineVectors'
      BY <2>1 DEF JustWritten, Content
    <3> QED
      BY <1>10, <3>1
  <2> QED
    BY <1>1, <1>11, <2>1, NothingNew
<1> QED
  BY <1>10, <1>11 DEF MeasureInv

\* What the editor's and the robot's roundings have in common: no distance is
\* longer than the points are many.
LEMMA ReachedByRobot ==
  ASSUME IInv, CoverInv, MeasureInv
  PROVE  TriggersReached
<1> SUFFICES ASSUME ~hasty, NEW f \in Files, Orients(disk[f], None),
                    NEW key \in DOMAIN TriggerPointsOf(disk[f])
             PROVE  key \in KeysMet(disk[f])
  BY DEF TriggersReached
<1>1. disk[f] # None
  BY DEF Orients
<1>2. PICK c : c = disk[f]
  OBVIOUS
<1>3. ContentOK(c) /\ c \in Elsewhere
  BY <1>1, <1>2, IsElsewhere DEF IInv, FilesOK
<1>4. Covered(c) /\ MeasureOK(c.lineVectors, c.triggerPoints)
  BY <1>3 DEF CoverInv, MeasureInv
<1>5. PICK i \in DOMAIN c.triggerPoints : key = Key(c.triggerPoints[i].distance)
  BY <1>2 DEF TriggerPointsOf
<1>6. i \in 1 .. Len(c.triggerPoints)
  <2>1. PICK S : c.triggerPoints \in Seq(S)
    BY <1>3 DEF ContentOK, PathOK
  <2> QED
    BY <1>5, <2>1, LenProperties
<1> DEFINE k == c.triggerPoints[i].segment + 2
           d == c.triggerPoints[i].distance
           N == Len(c.points)
<1>7. c.lineVectors \in Seq(Field) /\ k \in 0 .. Len(c.lineVectors)
  <2>1. c.triggerPoints[i].segment \in 0 .. Len(c.lineVectors) - 2
        /\ c.lineVectors \in Seq(Field)
    BY <1>3, <1>6 DEF ContentOK, PathOK
  <2> QED
    BY <2>1, LenProperties
<1>8. d \in 0 .. Hundred * Reach(c.lineVectors, k)
  BY <1>4, <1>6 DEF MeasureOK
<1> HIDE DEF k
<1>9. Reach(c.lineVectors, k) \in Nat /\ Reach(c.lineVectors, k) <= N /\ N \in Nat
  <2>1. N = Len(PointsOf(c.lineVectors))
    BY <1>4 DEF Covered
  <2> QED
    BY <1>7, <2>1, ReachFacts, ReachGrows, PointsTyped
<1>10. key = Key(d)
  BY <1>5
<1> HIDE DEF d, N
<1>11. PICK r \in Nat : r = Reach(c.lineVectors, k)
  BY <1>9
<1>12. d \in 0 .. 100 * r /\ r <= N /\ key = d \div 100
  BY <1>8, <1>9, <1>10, <1>11 DEF Hundred, Key
<1>13. key \in 0 .. N
  BY <1>9, <1>12
<1> QED
  BY <1>2, <1>13 DEF KeysMet, NumberOfActualPointsOf, N

\* Every trigger point of every file the robot can load lies at a number of
\* inches that the robot counts on its way along the points, for paths of every
\* length and shape: the editor's distance along the segments
\* (script.js:411), rounded down, never exceeds the number of points.
THEOREM TriggersAlwaysReached == Spec => []TriggersReached
<1>1. IInv /\ CoverInv /\ MeasureInv /\ [Next]_vars => IInv' /\ CoverInv' /\ MeasureInv'
  BY Steps, CoverSteps, MeasureSteps
<1> QED
  BY <1>1, Starts, CoverStarts, MeasureStarts, ReachedByRobot, PTL DEF Spec


------------------------------------------------------------------------------
(* The files as their users see them *)

IsContent(c) ==
  c = [lineVectors |-> c.lineVectors, points |-> c.points, triggerPoints |-> c.triggerPoints]

\* What a picker's answer still finds when it comes: the page that asks where
\* to save has no file yet, and the one that asks what to open is opening
\* nothing.
PickerOK ==
  /\ picker = "save" => pointFile = None
  /\ picker = "open" => loading = None

\* And what is shown again was shown by a page.
StoreInv == PickerOK /\ \A c \in Elsewhere : IsContent(c)

LEMMA StoreStarts == Init => StoreInv
  BY IsElsewhere DEF Init, StoreInv, PickerOK

LEMMA StoreStays == IInv /\ StoreInv /\ [Next]_vars => StoreInv'
<1> SUFFICES ASSUME IInv, StoreInv, [Next]_vars PROVE StoreInv'
  OBVIOUS
<1>1. ASSUME NEW c \in Elsewhere' PROVE IsContent(c)
  <2>1. CASE c \in Elsewhere
    BY <2>1 DEF StoreInv
  <2>2. CASE c = Content'
    BY <2>2 DEF IsContent, Content
  <2> QED
    BY <2>1, <2>2, NothingNew DEF JustWritten
<1>2. PickerOK'
  <2>1. ASSUME UNCHANGED <<picker, pointFile, loading>> PROVE PickerOK'
    BY <2>1, Zenon DEF StoreInv, PickerOK
  <2>2. ASSUME picker' = "none" PROVE PickerOK'
    BY <2>2 DEF PickerOK
  <2>3. CASE SaveAsks \/ OpenAsks \/ OpenEnds
    BY <2>3 DEF SaveAsks, OpenAsks, OpenEnds, StoreInv, PickerOK
  <2>4. ASSUME \/ \E v \in Field : MouseClicked(v)
               \/ \E segment \in 0 .. Len(lineVectors) - 2 :
                    \E n \in {segment + 1, segment + 2} :
                      CreateTriggerPoint(segment, lineVectors[n])
               \/ RemoveLastLineVector
               \/ \E n \in DOMAIN inputs, name \in Names : Type(n, name)
               \/ Draw \/ SaveFails \/ SaveToFile \/ UNCHANGED vars
               \/ \E w \in writes : WriteEnds(w)
        PROVE  UNCHANGED <<picker, pointFile, loading>>
    BY <2>4 DEF MouseClicked, CreateTriggerPoint, RemoveLastLineVector, Type, Draw, SaveFails,
                SaveToFile, WriteEnds, vars, io
  <2>5. ASSUME \/ Reload \/ PickerCancelled
               \/ \E f \in Files : SavePicked(f) \/ OpenPicked(f)
        PROVE  picker' = "none"
    BY <2>5 DEF Reload, PickerCancelled, SavePicked, OpenPicked
  <2> QED
    BY <2>1, <2>2, <2>3, <2>4, <2>5 DEF Next
<1> QED
  BY <1>1, <1>2 DEF StoreInv, IsContent

\* A save sends what the page shows with the names filled in.
LEMMA SaveSends ==
  ASSUME IInv, SaveToFile
  PROVE  Store!Save(pointFile) /\ pointFile \in Files
<1>1. pointFile \in Files
  BY DEF SaveToFile, IInv, FilesOK
<1>2. /\ triggerPoints' = NamesRead
      /\ UNCHANGED <<lineVectors, points, pointFile, loading, disk>>
  BY DEF SaveToFile
<1>3. Content' = [Content EXCEPT !.triggerPoints = NamesRead]
  BY <1>2 DEF Content
<1>4. writes' = writes \cup {[file |-> pointFile, content |-> Content']}
  BY <1>3 DEF SaveToFile, StartWrite
<1>5. Store!SameButNames(Content, Content')
  <2>1. /\ DOMAIN triggerPoints = 1 .. Len(triggerPoints)
        /\ DOMAIN NamesRead = DOMAIN triggerPoints
    BY LenProperties DEF IInv, PathOK, NamesRead
  <2>2. \A i \in 1 .. Len(triggerPoints) :
          /\ NamesRead[i].segment = triggerPoints[i].segment
          /\ NamesRead[i].distance = triggerPoints[i].distance
    BY NamesOnly DEF IInv
  <2>3. /\ Content.lineVectors = lineVectors /\ Content'.lineVectors = lineVectors
        /\ Content.points = points /\ Content'.points = points
        /\ Content.triggerPoints = triggerPoints /\ Content'.triggerPoints = NamesRead
    BY <1>2 DEF Content
  <2> QED
    BY <2>1, <2>2, <2>3 DEF Store!SameButNames
<1> QED
  BY <1>1, <1>2, <1>4, <1>5 DEF Store!Save

LEMMA PickedSends ==
  ASSUME StoreInv, NEW f \in Files, SavePicked(f)
  PROVE  Store!Save(f)
<1>1. pointFile = None /\ pointFile' = f /\ UNCHANGED <<disk, loading>>
  BY DEF SavePicked, StoreInv, PickerOK
<1>2. Content' = Content
  BY DEF SavePicked, lists, Content
<1>3. writes' = writes \cup {[file |-> f, content |-> Content']}
  BY <1>2 DEF SavePicked, StartWrite
<1>4. Store!SameButNames(Content, Content')
  BY <1>2 DEF Store!SameButNames
<1> QED
  BY <1>1, <1>3, <1>4 DEF Store!Save

LEMMA StoreSteps ==
  IInv /\ StoreInv /\ [Next]_vars => [Store!StoreNext]_(Store!storeVars)
<1> SUFFICES ASSUME IInv, StoreInv, [Next]_vars
             PROVE  [Store!StoreNext]_(Store!storeVars)
  OBVIOUS
<1>1. ASSUME UNCHANGED <<pointFile, writes, disk, loading>> PROVE Store!StoreNext
  BY <1>1 DEF Store!Edit, Store!StoreNext
<1>2. ASSUME \/ \E v \in Field : MouseClicked(v)
             \/ \E segment \in 0 .. Len(lineVectors) - 2 :
                  \E n \in {segment + 1, segment + 2} :
                    CreateTriggerPoint(segment, lineVectors[n])
             \/ RemoveLastLineVector
             \/ \E n \in DOMAIN inputs, name \in Names : Type(n, name)
             \/ Draw \/ SaveFails \/ SaveAsks \/ OpenAsks \/ PickerCancelled \/ UNCHANGED vars
      PROVE  UNCHANGED <<pointFile, writes, disk, loading>>
  BY <1>2 DEF MouseClicked, CreateTriggerPoint, RemoveLastLineVector, Type, Draw, SaveFails,
              SaveAsks, OpenAsks, PickerCancelled, vars, io
<1>3. CASE SaveToFile
  BY <1>3, SaveSends DEF Store!StoreNext
<1>4. ASSUME NEW f \in Files, SavePicked(f) PROVE Store!StoreNext
  BY <1>4, PickedSends DEF Store!StoreNext
<1>5. ASSUME NEW w \in writes, WriteEnds(w) PROVE Store!StoreNext
  <2>1. Content' = Content
    BY <1>5 DEF WriteEnds, lists, Content
  <2>2. Store!Arrive(w)
    BY <1>5, <2>1 DEF WriteEnds, Store!Arrive
  <2> QED
    BY <2>2 DEF Store!StoreNext
<1>6. ASSUME NEW f \in Files, OpenPicked(f) PROVE Store!StoreNext
  <2>1. /\ loading = None /\ loading' = disk[f]
        /\ UNCHANGED <<lists, pointFile, writes, disk>>
    BY <1>6 DEF OpenPicked, StoreInv, PickerOK
  <2>2. CASE disk[f] = None
    BY <1>1, <2>1, <2>2
  <2>3. CASE disk[f] # None
    <3>1. Content' = Content
      BY <2>1 DEF lists, Content
    <3>2. Store!Open(f)
      BY <2>1, <2>3, <3>1 DEF Store!Open
    <3> QED
      BY <3>2 DEF Store!StoreNext
  <2> QED
    BY <2>2, <2>3
<1>7. CASE OpenEnds
  <2>1. loading # None /\ loading' = None /\ UNCHANGED <<pointFile, writes, disk>>
    BY <1>7 DEF OpenEnds
  <2>2. IsContent(loading)
    BY <2>1, IsElsewhere DEF StoreInv
  <2>3. Content' = loading
    BY <1>7, <2>2 DEF OpenEnds, IsContent, Content
  <2>4. Store!Show
    BY <2>1, <2>3 DEF Store!Show
  <2> QED
    BY <2>4 DEF Store!StoreNext
<1>8. CASE Reload
  <2>1. Store!StartAgain
    BY <1>8 DEF Reload, Content, Store!StartAgain, Store!NewPage
  <2> QED
    BY <2>1 DEF Store!StoreNext
<1> QED
  BY <1>1, <1>2, <1>3, <1>4, <1>5, <1>6, <1>7, <1>8 DEF Next

\* The editor implements the store: whatever is clicked, typed, undone, saved,
\* opened and reloaded, and in whatever order pickers answer and writes end,
\* files hold whole paths as a page showed them, each sent to the one file that
\* the page had chosen, and what is opened is shown as it is (script.js:292 to
\* 330).
THEOREM StoreImplemented == Spec => ImplementsStore
<1>1. Init => Store!StoreInit
  BY DEF Init, Content, Store!StoreInit, Store!NewPage
<1>2. IInv /\ [Next]_vars => IInv'
  BY Steps
<1> QED
  BY <1>1, <1>2, Starts, StoreStarts, StoreStays, StoreSteps, PTL
     DEF Spec, ImplementsStore, Store!StoreSpec
==============================================================================
