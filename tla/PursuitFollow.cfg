CONSTANTS
  FilePath <- CornerPath
  Field <- ReverseCornerField
  NumberOfActualPoints = 10
  TriggerPoints <- TwoTriggers
  FuncTables <- EveryFunc
  IsBackwards = TRUE
  SearchDistance = 3
  LookaheadDistance = 4
  RampDistance = 3
  MaxStep = 1
SPECIFICATION FollowSpec
PROPERTIES
  Finishes
  AllTriggersCalled
