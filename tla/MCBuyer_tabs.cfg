CONSTANTS
  p = p
  q = q
  Tab = {a, b}
  Purchase = {p, q}
  None = None
  Blob <- TwiceForP
  InPlace = FALSE
  MaxTicks = 1
  MaxStarts = 1
  MaxReloads = 0
  MaxFaults = 0
SPECIFICATION Spec
INVARIANTS
  KeptForReload
CHECK_DEADLOCK FALSE
