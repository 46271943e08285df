CONSTANTS
  t1 = t1
  t2 = t2
  t3 = t3
  alice = alice
  bob = bob
  d1 = d1
  d2 = d2
  k1 = k1
  k2 = k2
  k3 = k3
  e1 = e1
  e2 = e2
  None = None
  Ufvk = {alice, bob}
  Drop = {d1, d2}
  Key = {k1, k2, k3}
  EPub = {e1, e2}
  Notes <- MCNotes
  Tx = {t1, t3}
  Offers <- Repriced
  BatchSize = 2
  StartHeight = 1
  Unparsable = {}
  MaxHeight = 3
  MaxFaults = 2
  MaxRestarts = 0
SPECIFICATION FairSpec
INVARIANTS
  DispatchIsPaid
  DispatchedOncePerLife
  SeenMeansDispatched
  NothingOwedIsPassed
  FirstRangeKept
PROPERTIES
  OwedIsDispatched
  ScannedStaysScanned
