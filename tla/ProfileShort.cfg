CONSTANTS
  Speeds = {2, 4, 8}
  Ramps = {4}
  Totals = {6}
SPECIFICATION Spec
INVARIANTS
  ShortProfileAsTested
CHECK_DEADLOCK FALSE
