CONSTANTS
  Headings = {0, 1}
  MaxCount = 1
  MaxPosition = 2
SPECIFICATION Spec
INVARIANTS
  DistancesAddUp
