CONSTANTS
  Buttons = {"RightBumper"}
  UpPosition = 1
  MidPosition = 3
  DownPosition = 5
  ArmStep = 2
  WinchLimit = 2
  WinchStep = 1
  ShootTicks = 2
  UsedOptions = {"doNothing"}
  MaxLag = 1
  WinchCap = 6
  StickCommands = {"zero"}
  TriggerAmounts <- NoTriggerAmount
SPECIFICATION Spec
INVARIANTS
  ArmInRange
  ArmInv
  ArmFollowsBumper
