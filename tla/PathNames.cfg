CONSTANTS
  Field <- Straight
  Origin <- Corner
  Names = {"shoot"}
  Files = {f1}
  None = None
  MaxVectors = 2
  MaxPoints = 3
  MaxTriggers = 1
  MaxInputs = 2
  MaxPending = 1
  f1 = f1
SPECIFICATION Spec
PROPERTIES
  SaveKeepsNames
