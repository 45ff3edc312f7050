CONSTANTS
  Field <- Slanted
  Origin <- Corner
  Names = {}
  Files = {}
  None = None
  MaxVectors = 4
  MaxPoints = 9
  MaxTriggers = 0
  MaxInputs = 0
  MaxPending = 0
SPECIFICATION Spec
PROPERTIES
  UndoTakesItsPoints
