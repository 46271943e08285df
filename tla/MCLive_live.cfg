CHECK_DEADLOCK FALSE
SPECIFICATION LiveAndApiSpec
CONSTANTS
  None = None
  Tx <- MCTx
  Ufvk <- MCUfvk
  Drop = {1, 2}
  Key = {"k1", "k2"}
  EPub = {"e"}
  Notes <- MCNotes
  Offers = {}
  Invocation <- MCInvocation
  NoHeight = 99
  MaxHeight = 3
  MaxFaults = 1
  MaxRuns = 3
  Buyer = {"buyer"}
  Registration <- MCRegistration
  IdSpace = 4
  MaxDrops = 4
  MaxBlobs = 2
INVARIANTS
  LiveTypeOK
  NothingGoodIsPassed
  SavedNotRepeated
  ApiTypeOK
  AnsweredAsShown
  ListedCanBeLookedUp
PROPERTIES
  StateNeverForgets
