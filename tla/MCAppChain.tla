----------------------------- MODULE MCAppChain -----------------------------
(* Two nodes: for each, one transaction per branch of submit().            *)
EXTENDS AppChain

CONSTANTS n1, n2, d1, d2

Datum(n) == IF n = n1 THEN d1 ELSE d2

Tx(type, n) ==
  [type |-> type, sender |-> n, data |-> Datum(n), signed |-> TRUE, pii |-> FALSE]

MCTxs ==
  UNION {{Tx("NODE_AUTH", n), Tx("APP_SIG_VERIFY", n), Tx("PAYLOAD_COMMIT", n)} : n \in Nodes}
  \cup {Tx("OTHER", n1),
        [Tx("PAYLOAD_COMMIT", n1) EXCEPT !.pii = TRUE],
        [Tx("NODE_AUTH", n2) EXCEPT !.signed = FALSE]}
=============================================================================
