SPECIFICATION Spec
CONSTANTS
  Byte = 3
  interval = 3
  jitter = 1
  lifetimeAdv = 9
  AllocMayFail = TRUE
PROPERTIES NumbersWithoutGap
