CONSTANTS
  FilePath <- LoopPath
  Field <- LoopField
  NumberOfActualPoints = 8
  TriggerPoints <- ThreeTriggers
  FuncTables <- SomeFuncs
  IsBackwards = FALSE
  SearchDistance = 3
  LookaheadDistance = 4
  RampDistance = 3
  MaxStep = 2
SPECIFICATION Spec
INVARIANTS
  TypeOK
  NoTriggerMissed
  NoTriggerEarly
  EffectNotBehind
  FailsAtUnknown
  CalledOnEveryWay
  StopsExactlyAtEnd
PROPERTIES
  NoShortcut
\* A routine without a function that a trigger names stops there.
CHECK_DEADLOCK FALSE
