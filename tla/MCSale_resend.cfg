CONSTANTS
  t1 = t1
  alice = alice
  bob = bob
  d1 = d1
  k1 = k1
  k2 = k2
  k3 = k3
  e1 = e1
  None = None
  Tx = {t1}
  Ufvk = {alice, bob}
  Drop = {d1}
  Key = {k1, k2, k3}
  EPub = {e1}
  Notes <- OnePayment
  Offers <- TwoForms
  MaxBuilds = 0
  MaxRestarts = 0
SPECIFICATION Spec
INVARIANTS
  ResendIsSafe
CHECK_DEADLOCK FALSE
