CONSTANTS
  p = p
  q = q
  Tab = {a}
  Purchase = {p, q}
  None = None
  Blob <- TwiceForP
  InPlace = TRUE
  MaxTicks = 2
  MaxStarts = 1
  MaxReloads = 1
  MaxFaults = 1
SPECIFICATION FairSpec
INVARIANTS
  TypeOK
  UnlockIsOfPurchase
  NoBlobWrittenOff
  StoredIsActive
PROPERTIES
  PaidIsUnlocked
CHECK_DEADLOCK FALSE
