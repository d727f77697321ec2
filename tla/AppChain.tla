------------------------------ MODULE AppChain ------------------------------
(***************************************************************************)
(* One node's AppChain (sp1d3r/src/d31337m3_chain/chain.py): the in-memory *)
(* ledger, the JSON file it is saved to, the batch-mode import that catches*)
(* a node up with its seed, pruning, and restarts.                         *)
(*                                                                         *)
(* Calls do not overlap here (ChainThreads has the calls that do).  save() *)
(* replaces the file atomically (tmp.replace), so a crash inside a call    *)
(* leaves the file of before the call; "no file" is the file of a freshly  *)
(* constructed chain, which loads as the same state.                       *)
(***************************************************************************)
EXTENDS ChainRules

CONSTANTS
  KeepBlocks,    \* the values prune() is called with
  MaxCommits,    \* bound: blocks committed since genesis
  MaxEvents,     \* bound: events in memory before a call adds one
  MaxImport,     \* bound: blocks in one import
  MaxRestarts    \* bound: restarts

\* prune(0) empties the chain, whose next block then links to genesis again; the
\* callers keep at least one block.
ASSUME KeepAssumption == KeepBlocks \subseteq Nat \ {0}
ASSUME BoundsAssumption == {MaxCommits, MaxEvents, MaxImport, MaxRestarts} \subseteq Nat

VARIABLES
  chain,         \* the AppChain object's fields
  disk,          \* the fields as the state file holds them
  importing,     \* how many transactions import_blocks has still to replay
  batch,         \* _batch_mode
  restarts,      \* history: restarts so far
  pruned,        \* history: prune() removed something since genesis
  barred         \* history: senders whose last decision by submit was exclusion

vars == <<validators, chain, disk, importing, batch, restarts, pruned, barred>>

-----------------------------------------------------------------------------
(* The operations.  import_blocks has one caller, the seed sync at boot,    *)
(* which runs before the server takes requests: no other call interleaves   *)
(* with its loop, and a restart may cut it short.                           *)

\* What the file holds after save() of c: nothing is written in batch mode.
Saved(c) == IF batch THEN disk ELSE c

Init ==
  /\ validators \in SUBSET Nodes
  /\ chain = Fresh(validators)
  /\ disk = Fresh(validators)
  /\ importing = 0
  /\ batch = FALSE
  /\ restarts = 0
  /\ pruned = FALSE
  /\ barred = {}

HasRoom == Len(Tip(chain)) < MaxCommits /\ Len(chain.events) < MaxEvents

Barred(tx, code) ==
  IF code \in Excluding THEN barred \cup {tx.sender}
  ELSE IF code = "node_authenticated" THEN barred \ {tx.sender} ELSE barred

\* The event is appended after the save, so the file never holds the last one.
Submit(tx) ==
  LET code == Outcome(chain, tx)
      after == Effect(chain, tx, code)
  IN /\ ~batch /\ HasRoom
     /\ chain' = Logged(after, Level(code))
     /\ disk' = IF Saving(code) THEN Saved(after) ELSE disk
     /\ barred' = Barred(tx, code)
     /\ UNCHANGED <<validators, importing, batch, restarts, pruned>>

\* Sizes and signatures of all n transactions are checked before anything is
\* replayed; a bad one raises and changes nothing.
ImportBegin(n) ==
  /\ ~batch
  /\ Len(Tip(chain)) + n <= MaxCommits /\ Len(chain.events) + n <= MaxEvents
  /\ importing' = n
  /\ batch' = TRUE
  /\ UNCHANGED <<validators, chain, disk, restarts, pruned, barred>>

\* submit() in batch mode of the next transaction, any that passed the checks.
\* Only a critical event stops the import; what was replayed stays in memory.
ImportNext(tx) ==
  LET code == Outcome(chain, tx)
      after == Effect(chain, tx, code)
      fatal == Level(code) = "critical"
  IN /\ importing > 0
     /\ tx.signed
     /\ chain' = Logged(after, Level(code))
     /\ disk' = IF Saving(code) THEN Saved(after) ELSE disk
     /\ importing' = IF fatal THEN 0 ELSE importing - 1
     /\ batch' = ~fatal
     /\ barred' = IF code = "node_authenticated" THEN barred \ {tx.sender} ELSE barred
     /\ UNCHANGED <<validators, restarts, pruned>>

\* save() at line 93 still runs in batch mode, so the file stays as it was.
ImportEnd ==
  /\ batch /\ importing = 0
  /\ disk' = Saved(chain)
  /\ batch' = FALSE
  /\ UNCHANGED <<validators, chain, importing, restarts, pruned, barred>>

\* Wrong variant: the oldest blocks are kept in place of the newest.
PrunedToOldest(c, keep) ==
  [c EXCEPT !.blocks = SubSeq(@, 1, keep), !.raw = SubSeq(@, 1, keep)]

\* Wrong variant: a root is dropped for every block dropped.
PrunedWithRoots(c, keep) ==
  LET drop == Len(c.blocks) - keep
  IN [c EXCEPT !.blocks = SubSeq(@, drop + 1, Len(@)),
               !.raw = SubSeq(@, drop + 1, Len(@)),
               !.roots = SubSeq(@, drop + 1, Len(@))]

\* Two events are dropped for each block, and the roots only when there are more
\* of them than blocks kept.
PrunedTo(c, keep) ==
  LET drop == Len(c.blocks) - keep
  IN [c EXCEPT !.blocks = SubSeq(@, drop + 1, Len(@)),
               !.raw = SubSeq(@, drop + 1, Len(@)),
               !.events = SubSeq(@, 2 * drop + 1, Len(@)),
               !.roots = IF Len(@) > keep
                         THEN SubSeq(@, Len(@) - keep + 1, Len(@)) ELSE @]

Prune(keep) ==
  /\ ~batch
  /\ Len(chain.blocks) > keep
  /\ chain' = PrunedTo(chain, keep)
  /\ disk' = Saved(PrunedTo(chain, keep))
  /\ pruned' = TRUE
  /\ UNCHANGED <<validators, importing, batch, restarts, barred>>

\* approve_app_hash does not save.
ApproveAppHash(h) ==
  /\ ~batch
  /\ chain' = [chain EXCEPT !.approved = @ \cup {h}]
  /\ UNCHANGED <<validators, disk, importing, batch, restarts, pruned, barred>>

\* alert_pii_detected logs its event first and saves after.
AlertPiiDetected ==
  /\ ~batch /\ Len(chain.events) < MaxEvents
  /\ chain' = Logged(chain, "warning")
  /\ disk' = Saved(Logged(chain, "warning"))
  /\ UNCHANGED <<validators, importing, batch, restarts, pruned, barred>>

\* Wrong variant: the event log is not read back.
LoadedWithoutEvents(file) == [file EXCEPT !.events = <<>>]

\* _load: every field is replaced by the file's.
Loaded(file) == file

\* The process dies, inside an import or between calls, and loads its file.
Restart ==
  /\ restarts < MaxRestarts
  /\ chain' = Loaded(disk)
  /\ importing' = 0
  /\ batch' = FALSE
  /\ restarts' = restarts + 1
  /\ UNCHANGED <<validators, disk, pruned, barred>>

Next ==
  \/ \E tx \in Txs : Submit(tx)
  \/ \E n \in 1..MaxImport : ImportBegin(n)
  \/ \E tx \in Txs : ImportNext(tx)
  \/ ImportEnd
  \/ \E keep \in KeepBlocks : Prune(keep)
  \/ \E h \in Data : ApproveAppHash(h)
  \/ AlertPiiDetected
  \/ Restart

Spec == Init /\ [][Next]_vars

-----------------------------------------------------------------------------
(* Properties. *)

\* Type invariant of the memory, the file and the import in progress.
TypeOK ==
  /\ validators \in SUBSET Nodes
  /\ chain \in ChainStates
  /\ disk \in ChainStates
  /\ importing \in 0..MaxImport
  /\ batch \in BOOLEAN
  /\ restarts \in Nat
  /\ pruned \in BOOLEAN
  /\ barred \in SUBSET Nodes

\* Block i's hash commits to transaction i and to block i-1, in memory and in the
\* file, through appends, imports, pruning and restarts (chain.py:125, 220).
Linked == LinkedChain(chain) /\ LinkedChain(disk)

L == INSTANCE Ledger WITH log <- Tip(chain), durable <- Tip(disk)

\* Every transaction of the history, pruned blocks included, was committed under
\* authority that the configuration or an earlier NODE_AUTH gave its sender, and
\* only configured validators authenticate when there are any (chain.py:185, 194),
\* in memory and after a restart.
AuthorityOnChain == AuthoritySound(chain) /\ AuthoritySound(disk)

CommitsFrom(c, i) == {j \in i..Len(c.raw) : c.raw[j].type = "PAYLOAD_COMMIT"}

\* Counted from the end, the payload commits of c are next to their roots.
RootsCover(c) ==
  \A i \in DOMAIN c.raw : c.raw[i].type = "PAYLOAD_COMMIT" =>
    LET k == Cardinality(CommitsFrom(c, i))
    IN k <= Len(c.roots) /\ c.roots[Len(c.roots) - k + 1] = c.raw[i].data

\* The recorded Merkle roots end with those of the retained payload commits, in
\* commit order: pruning never drops the root of a block it keeps (chain.py:133).
RootsCoverBlocks == RootsCover(chain) /\ RootsCover(disk)

ApprovalsCover(c) ==
  \A i \in DOMAIN c.raw :
    c.raw[i].type = "APP_SIG_VERIFY" => c.raw[i].data \in c.approved

\* An APP_SIG_VERIFY block is only ever next to the approval it was checked
\* against, although approve_app_hash saves nothing (chain.py:155, 203).
ApprovalsOutliveRestart == ApprovalsCover(chain) /\ ApprovalsCover(disk)

\* A sender that submit excluded stays out, in memory and across restarts, until
\* it authenticates again (chain.py:177, 204).
ExclusionsSurviveRestart == barred \cap (chain.auth \cup disk.auth) = {}

InfoEvents(c) == Cardinality({i \in DOMAIN c.events : c.events[i] = "info"})

\* The audit trail: until pruning drops events, at most one commit event is lost
\* for each restart, the one save() ran too early to write (chain.py:199, 200).
OneEventLostPerRestart ==
  ~pruned => InfoEvents(chain) + restarts >= Len(Tip(chain))

\* The chain implements the ledger: only admissible commits, a saved copy, and a
\* restart that falls back to exactly that copy.
ImplementsLedger == L!LSpec

\* "AppChain now persists state to a JSON file on disk after every mutation,
\* survives restarts" (CHANGELOG.md:129): between calls the file has every block.
BlocksPersisted == ~batch => disk.blocks = chain.blocks
=============================================================================
