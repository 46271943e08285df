SPECIFICATION BlockScanSpec
CONSTANTS
  Base = 4
  Width = 4
  Absent = Absent
  TxId <- MCTxId
  Addr <- MCAddr
  Own <- MCOwn
  Body <- MCBody
  Content <- MCContent
  Work <- MCWork
  Tip = 3
  ForkAt = 2
  MaxBreaks = 2
INVARIANTS
  EveryPaymentRecorded
