------------------------------- MODULE Ledger -------------------------------
(***************************************************************************)
(* What one node's AppChain promises to its callers, without blocks, files *)
(* or batch flags: a log of transactions that only authorised senders      *)
(* extend, and a saved copy that is always a prefix of it.  A restart may  *)
(* fall back to the saved copy and to nothing else.                        *)
(***************************************************************************)
EXTENDS Sequences, SequencesExt

CONSTANT Txs        \* transactions: records with (at least) a type and a sender

VARIABLES
  validators,       \* the senders authorised by configuration
  log,              \* every transaction committed since genesis
  durable           \* the log that the file on disk holds

lvars == <<validators, log, durable>>

\* Who the log itself authorises: the configured validators and every sender of
\* a committed NODE_AUTH.
Authorised(l) ==
  validators \cup {l[i].sender : i \in {j \in DOMAIN l : l[j].type = "NODE_AUTH"}}

\* A transaction may be committed to log l.
Admissible(l, tx) ==
  IF tx.type = "NODE_AUTH"
  THEN validators = {} \/ tx.sender \in validators
  ELSE tx.sender \in Authorised(l)

LInit ==
  /\ log = <<>>
  /\ durable = <<>>

\* A commit that is on disk when the caller gets its answer.
CommitSaved(tx) ==
  /\ Admissible(log, tx)
  /\ log' = Append(log, tx)
  /\ durable' = log'
  /\ UNCHANGED validators

\* A commit replayed from another node, which is only in memory.
CommitVolatile(tx) ==
  /\ Admissible(log, tx)
  /\ log' = Append(log, tx)
  /\ UNCHANGED <<validators, durable>>

\* Any later save writes the whole log.
Flush ==
  /\ durable' = log
  /\ UNCHANGED <<validators, log>>

\* A restart keeps what was saved.
Lose ==
  /\ log' = durable
  /\ UNCHANGED <<validators, durable>>

LNext ==
  \/ \E tx \in Txs : CommitSaved(tx) \/ CommitVolatile(tx)
  \/ Flush
  \/ Lose

LSpec == LInit /\ [][LNext]_lvars
=============================================================================
