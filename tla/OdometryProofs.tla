---------------------------- MODULE OdometryProofs ----------------------------
(***************************************************************************)
(* Proof that the tracked position of a robot that keeps its heading is    *)
(* exact unless a reading changes in the middle of trackLocation.          *)
(***************************************************************************)
EXTENDS Odometry, TLAPS

TypeInv ==
  /\ frame \in [Sides -> Int]
  /\ count \in [Sides -> Int]
  /\ lastEncoder \in [Sides -> Int]
  /\ seen \in [Sides -> Int]
  /\ navx \in Headings
  /\ angleOffset \in Headings
  /\ position \in Int \X Int
  /\ tracking \in BOOLEAN
  /\ torn \in BOOLEAN
  /\ turned \in BOOLEAN

\* What makes ExactUnlessTorn inductive: the reading that trackLocation will
\* subtract next time, or is about to save, is the one it has added up to.
ReadingsAgree ==
  ~torn => IF tracking THEN frame = seen ELSE lastEncoder = seen

IInv == TypeInv /\ ReadingsAgree /\ ExactUnlessTorn

LEMMA ZeroAddsUp ==
  Zero \in [Sides -> Int] /\ Zero["left"] = 0 /\ Zero["right"] = 0
  BY DEF Zero, Sides

LEMMA OriginIsPoint == <<0, 0>> \in Int \X Int
  OBVIOUS

LEMMA InitOK == Init => IInv
<1> SUFFICES ASSUME Init PROVE IInv
  OBVIOUS
<1>1. TypeInv
  BY ZeroAddsUp, OriginIsPoint, BoundAssumption DEF Init, TypeInv
<1>2. ReadingsAgree
  BY DEF Init, ReadingsAgree
<1>3. Sum(seen) = 0
  BY ZeroAddsUp DEF Init, Sum
<1>4. ExactUnlessTorn
  BY <1>3 DEF Init, ExactUnlessTorn
<1> QED
  BY <1>1, <1>2, <1>4 DEF IInv

LEMMA StepOK == IInv /\ [Next]_vars => IInv'
<1> SUFFICES ASSUME IInv, [Next]_vars PROVE IInv'
  OBVIOUS
<1> USE BoundAssumption DEF IInv, TypeInv
<1>1. CASE Turn
  BY <1>1 DEF Turn, ReadingsAgree, ExactUnlessTorn, Sum
<1>2. ASSUME NEW s \in Sides, Roll(s) PROVE IInv'
  <2>1. count' \in [Sides -> Int]
    BY <1>2 DEF Roll
  <2> QED
    BY <1>2, <2>1 DEF Roll, ReadingsAgree, ExactUnlessTorn, Sum
<1>3. ASSUME NEW s \in Sides, SetToZero(s) PROVE IInv'
  BY <1>3 DEF SetToZero, ReadingsAgree, ExactUnlessTorn, Sum
<1>4. ASSUME NEW s \in Sides, StatusFrame(s) PROVE IInv'
  BY <1>4 DEF StatusFrame, ReadingsAgree, ExactUnlessTorn, Sum
<1>5. CASE ResetTracking
  <2>1. TypeInv'
    BY <1>5, ZeroAddsUp, OriginIsPoint DEF ResetTracking
  <2>2. ReadingsAgree'
    BY <1>5 DEF ResetTracking, ReadingsAgree
  <2>3. Sum(seen') = 0
    BY <1>5, ZeroAddsUp DEF ResetTracking, Sum
  <2>4. ExactUnlessTorn'
    BY <1>5, <2>3 DEF ResetTracking, ExactUnlessTorn
  <2> QED
    BY <2>1, <2>2, <2>4
<1>6. CASE TrackRead
  <2> DEFINE distance == Sum(frame) - Sum(lastEncoder)
             d == Direction(Heading(navx))
  <2>1. distance \in Int /\ Sum(lastEncoder) \in Int /\ Sum(frame) \in Int
    BY DEF Sum, Sides
  <2>2. Heading(navx) \in 0 .. 3
    BY DEF Heading
  <2>3. d[1] \in Int /\ d[2] \in Int
    BY <2>2 DEF Direction
  <2>4. position' = <<position[1] + d[1] * distance, position[2] + d[2] * distance>>
    <3>1. position' = After(distance)
      BY <1>6 DEF TrackRead
    <3> QED
      BY <3>1 DEF After
  <2>5. d[1] * distance \in Int /\ d[2] * distance \in Int
    BY <2>1, <2>3
  <2>6. TypeInv'
    BY <1>6, <2>4, <2>5 DEF TrackRead, robotVars
  <2>7. ReadingsAgree'
    BY <1>6 DEF TrackRead, ReadingsAgree, robotVars
  <2>8. ASSUME ~turned', ~torn' PROVE position' = <<0, Sum(frame)>>
    <3>1. ~turned /\ ~torn /\ navx = angleOffset /\ ~tracking
      BY <1>6, <2>8 DEF TrackRead
    <3>2. Heading(navx) = 0
      BY <3>1 DEF Heading
    <3>3. d[1] = 0 /\ d[2] = 1
      BY <3>2 DEF Direction
    <3>4. position = <<0, Sum(lastEncoder)>>
      BY <3>1 DEF ReadingsAgree, ExactUnlessTorn
    <3> HIDE DEF distance, d
    <3>5. position' = <<0 + 0 * distance, Sum(lastEncoder) + 1 * distance>>
      BY <2>4, <3>3, <3>4
    <3> QED
      BY <2>1, <3>5 DEF distance
  <2>9. seen' = frame
    BY <1>6 DEF TrackRead
  <2> QED
    BY <2>6, <2>7, <2>8, <2>9 DEF ExactUnlessTorn
<1>7. CASE TrackSave
  BY <1>7 DEF TrackSave, robotVars, ReadingsAgree, ExactUnlessTorn, Sum
<1>8. CASE UNCHANGED vars
  BY <1>8 DEF vars, robotVars, ReadingsAgree, ExactUnlessTorn, Sum
<1> QED
  BY <1>1, <1>2, <1>3, <1>4, <1>5, <1>6, <1>7, <1>8 DEF Next

\* A robot that keeps the heading of its reset knows exactly how far it went,
\* stale readings after the reset included, unless a status frame arrives in
\* the middle of trackLocation: for any distances and headings.
THEOREM TrackingExact == Spec => []ExactUnlessTorn
<1>1. Init => IInv
  BY InitOK
<1>2. IInv /\ [Next]_vars => IInv'
  BY StepOK
<1>3. IInv => ExactUnlessTorn
  BY DEF IInv
<1> QED
  BY <1>1, <1>2, <1>3, PTL DEF Spec
==============================================================================
