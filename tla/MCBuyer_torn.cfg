CONSTANTS
  p = p
  q = q
  Tab = {a}
  Purchase = {p, q}
  None = None
  Blob <- TwiceForP
  InPlace = TRUE
  MaxTicks = 1
  MaxStarts = 1
  MaxReloads = 1
  MaxFaults = 0
SPECIFICATION Spec
INVARIANTS
  SkippedIsForeign
CHECK_DEADLOCK FALSE
