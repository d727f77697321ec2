---------------------------- MODULE ServerRules ----------------------------
(***************************************************************************)
(* The chain's rules as a node serves them: app.py constructs every chain  *)
(* with ChainConfig(), which names no validators.                          *)
(***************************************************************************)
EXTENDS Integers, Sequences, SequencesExt, FiniteSets

CONSTANTS Nodes, Data, Txs    \* as in ChainRules

INSTANCE ChainRules WITH validators <- {}

ASSUME ServerTxsAssumption == Txs \subseteq TxRecords
=============================================================================
