CONSTANTS
  t1 = t1
  t2 = t2
  t3 = t3
  alice = alice
  bob = bob
  d1 = d1
  d2 = d2
  k1 = k1
  k2 = k2
  k3 = k3
  e1 = e1
  e2 = e2
  None = None
  Ufvk = {alice, bob}
  Drop = {d1, d2}
  Key = {k1, k2, k3}
  EPub = {e1, e2}
  Notes <- MCNotes
  Tx = {t1, t2}
  Offers <- Contested
  BatchSize = 1
  StartHeight = 1
  Unparsable = {t1}
  MaxHeight = 3
  MaxFaults = 1
  MaxRestarts = 1
SPECIFICATION Spec
INVARIANTS
  TypeOK
  DropKeepsOwner
  UnreadableNeverPassed
PROPERTIES
  ImplementsLedger
