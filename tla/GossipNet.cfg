SPECIFICATION Spec
CONSTANTS
  a = a
  b = b
  d = d
  Nodes = {a, b}
  Data = {d}
  Txs <- MCTxs
  BootTx <- MCBootTx
  Seed = a
  MaxFailedPings = 3
  MaxPosts = 1
  MaxTimeouts = 1
  MaxCrashes = 1
INVARIANTS
  TypeOK
  SentOnce
  AuthorityEverywhere
  DiskIsPrefix
PROPERTY
  DroppedAfterRow
CHECK_DEADLOCK FALSE
