SPECIFICATION Spec
CONSTANTS
  self = self
  peer = peer
  d = d
  t1 = t1
  t2 = t2
  Nodes = {self, peer}
  Data = {d}
  Txs <- MCTxs
  BootTx <- MCBootTx
  Threads = {t1, t2}
  MaxSubmits = 3
  MaxCrashes = 1
SYMMETRY ThreadSymmetry
INVARIANTS
  TypeOK
  SerialCallsAreDurable
  SerialCallsReplay
  ForkWidth
  SameTransactions
  QueuedOnce
  OneUnsavedAnnouncement
CHECK_DEADLOCK FALSE
