CONSTANTS
  Buttons = {}
  UpPosition = 0
  MidPosition = 0
  DownPosition = 0
  ArmStep = 1
  WinchLimit = 2
  WinchStep = 1
  ShootTicks = 3
  UsedOptions = {"taxi", "oneBall", "test"}
  MaxLag = 2
  WinchCap = 6
  StickCommands = {"zero", "sticks"}
  TriggerAmounts <- AllTriggerAmounts
SPECIFICATION FairSpec
INVARIANTS
  TypeOK
  ShootsFully
  DrivesOnlyAfterShot
  WaitsForTheLiving
  EndsStopped
  RoutineInv
PROPERTIES
  OneBallCompletes
  ImplementsPlan
