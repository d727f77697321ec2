---------------------------- MODULE ChainRules ----------------------------
(***************************************************************************)
(* The chain's rules (sp1d3r/src/d31337m3_chain/chain.py): what submit()   *)
(* decides about a transaction and what each decision does to the ledger's *)
(* fields.  Every module that has a chain in it builds its steps from here.*)
(*                                                                         *)
(* Abstractions.                                                           *)
(*  - SHA-256 is a free constructor: a digest is the sequence of           *)
(*    transactions it commits to, so GENESIS is the empty sequence and two *)
(*    digests are equal only if they commit to the same history.           *)
(*  - A transaction keeps what the code branches on: its type, its sender, *)
(*    one datum (the payload hash of APP_SIG_VERIFY, the Merkle root of    *)
(*    PAYLOAD_COMMIT), whether its signature verifies, and whether its     *)
(*    bytes match a PII pattern.                                           *)
(*  - An event keeps its level, which is all that the code branches on.    *)
(***************************************************************************)
EXTENDS Integers, Sequences, SequencesExt, FiniteSets

CONSTANTS
  Nodes,         \* sender public keys
  Data,          \* payload hashes and Merkle roots
  Txs            \* the transactions in circulation

TxTypes == {"NODE_AUTH", "APP_SIG_VERIFY", "PAYLOAD_COMMIT", "OTHER"}

TxRecords ==
  [type : TxTypes, sender : Nodes, data : Data, signed : BOOLEAN, pii : BOOLEAN]

ASSUME TxsAssumption == Txs \subseteq TxRecords

VARIABLE
  validators     \* config.validator_pubkeys, fixed when the chain is constructed

-----------------------------------------------------------------------------
(* The ledger's fields, digests, and one block more. *)

Levels == {"info", "warning", "error", "critical"}

GENESIS == <<>>

Sha256(prev, tx) == Append(prev, tx)

\* __init__ without a state file.
Fresh(v) ==
  [auth |-> v, approved |-> {}, roots |-> <<>>,
   blocks |-> <<>>, raw |-> <<>>, events |-> <<>>]

\* The digest the next block links to; it stands for the whole history.
Tip(c) == IF c.blocks = <<>> THEN GENESIS ELSE c.blocks[Len(c.blocks)]

\* Wrong variant: a block links to genesis whatever is below it.
AppendUnlinked(c, tx) ==
  [c EXCEPT !.blocks = Append(@, Sha256(GENESIS, tx)), !.raw = Append(@, tx)]

AppendBlock(c, tx) ==
  [c EXCEPT !.blocks = Append(@, Sha256(Tip(c), tx)), !.raw = Append(@, tx)]

Logged(c, level) == [c EXCEPT !.events = Append(@, level)]

ChainStates ==
  [auth : SUBSET Nodes, approved : SUBSET Data, roots : Seq(Data),
   blocks : Seq(Seq(Txs)), raw : Seq(Txs), events : Seq(Levels)]

-----------------------------------------------------------------------------
(* submit(): its early returns in the code's order, and what each outcome   *)
(* changes before its event is logged.                                      *)

\* Wrong variant: the whitelist is not consulted.
AnySender(c, tx) == tx.sender \in Nodes

Whitelisted(c, tx) == tx.sender \in c.auth

MayAuthenticate(tx) == validators = {} \/ tx.sender \in validators

\* Wrong variant: any binary hash passes.
AnyBinary(c, tx) == tx.data \in Data

BinaryApproved(c, tx) == tx.data \in c.approved

Outcome(c, tx) ==
  IF tx.pii THEN "pii_leak_rejected"
  ELSE IF ~tx.signed THEN "bad_signature"
  ELSE IF tx.type = "NODE_AUTH" THEN
    IF MayAuthenticate(tx) THEN "node_authenticated" ELSE "validator_rejected"
  ELSE IF ~Whitelisted(c, tx) THEN "sender_not_authenticated"
  ELSE IF tx.type = "APP_SIG_VERIFY" THEN
    IF BinaryApproved(c, tx) THEN "app_signature_verified" ELSE "quarantine"
  ELSE IF tx.type = "PAYLOAD_COMMIT" THEN "payload_committed"
  ELSE "unknown_transaction_type"

Committing == {"node_authenticated", "app_signature_verified", "payload_committed"}
Excluding == {"pii_leak_rejected", "quarantine"}

Level(code) ==
  IF code \in Committing THEN "info"
  ELSE IF code \in Excluding THEN "critical" ELSE "error"

AuthAfter(c, tx, code) ==
  IF code \in Excluding THEN c.auth \ {tx.sender}
  ELSE IF code = "node_authenticated" THEN c.auth \cup {tx.sender} ELSE c.auth

\* Wrong variant: the sender's key is recorded in place of the root.
RootOfSender(c, tx, code) ==
  IF code = "payload_committed" THEN Append(c.roots, tx.sender) ELSE c.roots

RootsAfter(c, tx, code) ==
  IF code = "payload_committed" THEN Append(c.roots, tx.data) ELSE c.roots

Effect(c, tx, code) ==
  LET decided == [c EXCEPT !.auth = AuthAfter(c, tx, code),
                           !.roots = RootsAfter(c, tx, code)]
  IN IF code \in Committing THEN AppendBlock(decided, tx) ELSE decided

\* Wrong variant: an exclusion is kept in memory only.
SavingCommits(code) == code \in Committing

Saving(code) == code \in Committing \cup Excluding

-----------------------------------------------------------------------------
(* What makes one chain state right. *)

\* The retained blocks form one hash chain over the retained transactions.
LinkedChain(c) ==
  /\ Len(c.raw) = Len(c.blocks)
  /\ c.blocks # <<>> => c.blocks[1] # GENESIS /\ Last(c.blocks[1]) = c.raw[1]
  /\ \A i \in DOMAIN c.blocks :
       i > 1 => c.blocks[i] = Sha256(c.blocks[i - 1], c.raw[i])

\* Configuration, or a NODE_AUTH among the first i transactions of history h,
\* authorises n.
Introduced(h, i, n) ==
  \/ n \in validators
  \/ \E j \in 1..i : h[j].type = "NODE_AUTH" /\ h[j].sender = n

AuthoritySound(c) ==
  /\ \A n \in c.auth : Introduced(Tip(c), Len(Tip(c)), n)
  /\ \A i \in 1..Len(Tip(c)) :
       /\ Introduced(Tip(c), i, Tip(c)[i].sender)
       /\ Tip(c)[i].type = "NODE_AUTH" => MayAuthenticate(Tip(c)[i])
=============================================================================
