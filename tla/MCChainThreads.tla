--------------------------- MODULE MCChainThreads ---------------------------
(* The server's identity and one other node, which authenticates, commits  *)
(* a payload, and is quarantined for an unapproved binary.                 *)
EXTENDS ChainThreads, TLC

CONSTANTS self, peer, d, t1, t2

Tx(type, n) ==
  [type |-> type, sender |-> n, data |-> d, signed |-> TRUE, pii |-> FALSE]

MCBootTx == Tx("NODE_AUTH", self)

MCTxs ==
  {MCBootTx, Tx("PAYLOAD_COMMIT", self), Tx("NODE_AUTH", peer),
   Tx("PAYLOAD_COMMIT", peer), Tx("APP_SIG_VERIFY", peer)}

ThreadSymmetry == Permutations(Threads)
=============================================================================
