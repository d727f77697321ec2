---------------------------- MODULE MCGossipNet ----------------------------
(* A seed and a second node, each with its NODE_AUTH and one payload;      *)
(* the second may be quarantined.                                          *)
EXTENDS GossipNet

CONSTANTS a, b, d

Tx(type, n) ==
  [type |-> type, sender |-> n, data |-> d, signed |-> TRUE, pii |-> FALSE]

MCBootTx == [n \in Nodes |-> Tx("NODE_AUTH", n)]

MCTxs ==
  {Tx(type, n) : type \in {"NODE_AUTH", "PAYLOAD_COMMIT"}, n \in Nodes}
  \cup {Tx("APP_SIG_VERIFY", b)}

\* Without the quarantine and the second node's payload.
MCLiveTxs == {MCBootTx[n] : n \in Nodes} \cup {Tx("PAYLOAD_COMMIT", Seed)}
=============================================================================
