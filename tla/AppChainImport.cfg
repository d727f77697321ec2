SPECIFICATION Spec
CONSTANTS
  n1 = n1
  n2 = n2
  d1 = d1
  d2 = d2
  Nodes = {n1, n2}
  Data = {d1, d2}
  Txs <- MCTxs
  KeepBlocks = {1, 2}
  MaxCommits = 3
  MaxEvents = 3
  MaxImport = 2
  MaxRestarts = 1
INVARIANT
  BlocksPersisted
CHECK_DEADLOCK FALSE
