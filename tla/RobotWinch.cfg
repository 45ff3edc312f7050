CONSTANTS
  Buttons = {"Start", "Select", "B", "X"}
  UpPosition = 0
  MidPosition = 0
  DownPosition = 0
  ArmStep = 1
  WinchLimit = 6
  WinchStep = 2
  ShootTicks = 2
  UsedOptions = {"doNothing"}
  MaxLag = 1
  WinchCap = 12
  StickCommands = {"zero"}
  TriggerAmounts <- NoTriggerAmount
SPECIFICATION Spec
INVARIANTS
  WinchInRange
  WinchInv
