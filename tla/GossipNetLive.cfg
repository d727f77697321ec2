SPECIFICATION Spec
CONSTANTS
  a = a
  b = b
  d = d
  Nodes = {a, b}
  Data = {d}
  Txs <- MCLiveTxs
  BootTx <- MCBootTx
  Seed = a
  MaxFailedPings = 3
  MaxPosts = 1
  MaxTimeouts = 0
  MaxCrashes = 1
PROPERTIES
  GossipDies
  QueuedIsSent
  DeadPeersAreDropped
CHECK_DEADLOCK FALSE
