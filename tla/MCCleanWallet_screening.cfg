SPECIFICATION CleanWalletSpec
CONSTANTS
  Base = 4
  Width = 4
  Absent = Absent
  TxId <- MCTxId
  Addr <- MCAddr
  Own <- MCOwn
  Body <- MCBody
  Content <- MCContent
  Work <- MCWork
  Tip = 3
  ForkAt = 2
  MaxBreaks = 2
  None = None
  Client = {c1, c2}
  Request <- MCRequest
  Ufvk <- MCUfvk
  Tx <- MCTx
  Payee <- MCPayee
  TxOf <- MCTxOf
  Full <- MCFull
  Network = "main"
  Measure <- MCMeasure
  MaxRange = 2
  HasBackup = TRUE
  Lag = 1
  FirstTip = 2
  MaxTip = 3
  MaxClock = 1
  MaxFaults = 2
  MaxRequests = 2
SYMMETRY Clients
INVARIANTS
  TypeOK
  ScanHoldsLock
  CountsEachPaymentOnce
  AcceptedWasScanned
  ScanTypeOK
  CompleteOnOneChain
  AcceptedHaveWork
  RecordsAreOwed
