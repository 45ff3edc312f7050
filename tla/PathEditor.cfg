CONSTANTS
  Field <- OneInch
  Origin <- Corner
  Names = {"a"}
  Files = {f1}
  None = None
  MaxVectors = 3
  MaxPoints = 2
  MaxTriggers = 1
  MaxInputs = 1
  MaxPending = 1
  f1 = f1
SPECIFICATION Spec
INVARIANTS
  TypeOK
  TriggersOnSegments
  TriggersReached
  CountedHaveInputs
  PointsCoverLines
PROPERTIES
  ImplementsStore
