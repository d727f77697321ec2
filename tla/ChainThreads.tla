---------------------------- MODULE ChainThreads ----------------------------
(***************************************************************************)
(* submit() as the server runs it: ThreadingHTTPServer gives each request a*)
(* thread, AppChain (sp1d3r/src/d31337m3_chain/chain.py) has no lock, and  *)
(* the threads interleave between any two statements that touch the chain's*)
(* fields or its file.  A crash may come between any two as well.          *)
(*                                                                         *)
(* The file system is modelled by what save() can tell apart: the two      *)
(* names of the state file and its .tmp, the inodes behind them, and open  *)
(* descriptors, which keep pointing at an inode that was renamed.          *)
(* A single list append, set update or comprehension over a list is atomic *)
(* under the interpreter lock; iterating a set that changes size raises.   *)
(***************************************************************************)
EXTENDS ServerRules

CONSTANTS
  BootTx,             \* the NODE_AUTH of the server's own identity
  Threads,            \* request threads that may be active together
  MaxSubmits,         \* bound: calls of submit
  MaxCrashes          \* bound: crashes

ASSUME BootAssumption == BootTx \in Txs /\ BootTx.type = "NODE_AUTH"
ASSUME ThreadsAssumption ==
  IsFiniteSet(Threads) /\ Threads # {} /\ MaxSubmits \in Nat /\ MaxCrashes \in Nat

VARIABLES
  up,            \* FALSE once the state file could not be parsed at boot
  mem,           \* the AppChain object's fields
  thread,        \* where each request thread is, and its local variables
  inodes,        \* the contents of every inode the saves have created
  names,         \* the inodes that the state file and its .tmp name (0: none)
  queue,         \* GossipWorker._queue, as filled by the commit callback
  seen,          \* GossipWorker._seen
  answered,      \* history: committing calls that returned, in order
  overlapped,    \* history: two calls were active at once
  submits,       \* history: calls so far
  crashes        \* history: crashes so far

vars == <<up, mem, thread, inodes, names, queue, seen, answered, overlapped, submits, crashes>>

-----------------------------------------------------------------------------
(* Files. *)

Empty == [kind |-> "empty", c |-> Fresh({})]
Torn == [kind |-> "torn", c |-> Fresh({})]
Json(c) == [kind |-> "json", c |-> c]

\* A JSON text is as long as its lists are.
NoLonger(c, d) ==
  \A f \in {"roots", "blocks", "raw", "events"} : Len(c[f]) <= Len(d[f])

\* Writing text c from offset 0 of an inode that already holds something: a longer
\* old text leaves its tail behind.
Overwritten(old, c) ==
  IF old.kind = "empty" \/ (old.kind = "json" /\ NoLonger(old.c, c))
  THEN {Json(c)} ELSE {Json(c), Torn}

StateFile == IF names.state = 0 THEN Json(Fresh({})) ELSE inodes[names.state]

-----------------------------------------------------------------------------
(* Threads. *)

Idle == [at |-> "idle", tx |-> BootTx, code |-> "", prev |-> GENESIS,
         size |-> 0, copy |-> Fresh({}), field |-> 0, fd |-> 0]

Goto(t, label) == thread' = [thread EXCEPT ![t].at = label]

Active == {t \in Threads : thread[t].at # "idle"}

\* The order in which save() copies the lists.
Fields == <<"roots", "blocks", "raw", "events">>

\* What the module level of app.py leaves after a start that loaded c: the
\* node's own NODE_AUTH is committed and saved before any request is served.
Booted(c) ==
  IF BootTx.sender \in c.auth THEN c
  ELSE Effect(c, BootTx, "node_authenticated")

BootSaves(c) == BootTx.sender \notin c.auth

LoggedBoot(c) == IF BootSaves(c) THEN Logged(Booted(c), "info") ELSE c

Init ==
  /\ up = TRUE
  /\ mem = LoggedBoot(Fresh({}))
  /\ thread = [t \in Threads |-> Idle]
  /\ inodes = <<Json(Booted(Fresh({})))>>
  /\ names = [state |-> 1, tmp |-> 0]
  /\ queue = <<>>
  /\ seen = {}
  /\ answered = <<>>
  /\ overlapped = FALSE
  /\ submits = 0
  /\ crashes = 0

\* Where submit goes once it knows its outcome.
FirstStep(code) ==
  IF code \in Excluding THEN "exclude"
  ELSE IF code = "node_authenticated" THEN "authorise"
  ELSE IF code = "payload_committed" THEN "root"
  ELSE IF code = "app_signature_verified" THEN "previous" ELSE "log"

\* A request calls submit, whose only shared read before it acts is of the
\* whitelist (line 185).
Start(t, tx) ==
  LET code == Outcome(mem, tx)
  IN /\ up /\ thread[t].at = "idle" /\ submits < MaxSubmits
     /\ thread' = [thread EXCEPT ![t] =
          [Idle EXCEPT !.at = FirstStep(code), !.tx = tx, !.code = code]]
     /\ overlapped' = (overlapped \/ Active # {})
     /\ submits' = submits + 1
     /\ UNCHANGED <<up, mem, inodes, names, queue, seen, answered, crashes>>

\* What the handlers' statements leave alone.
world == <<up, overlapped, submits, crashes>>

\* authenticated_nodes.discard (177, 204) and .add (196).
UpdateWhitelist(t) ==
  /\ thread[t].at \in {"exclude", "authorise"}
  /\ mem' = [mem EXCEPT !.auth = AuthAfter(mem, thread[t].tx, thread[t].code)]
  /\ Goto(t, IF thread[t].at = "exclude" THEN "save" ELSE "previous")
  /\ UNCHANGED <<inodes, names, queue, seen, answered, world>>

\* payload_roots.append (214).
RecordRoot(t) ==
  /\ thread[t].at = "root"
  /\ mem' = [mem EXCEPT !.roots = RootsAfter(mem, thread[t].tx, thread[t].code)]
  /\ Goto(t, "previous")
  /\ UNCHANGED <<inodes, names, queue, seen, answered, world>>

\* Wrong variant: every block links to genesis.
AlwaysGenesis(c) == GENESIS

PreviousHash(c) == Tip(c)

\* previous = self.blocks[-1] (221); the digest is computed from it and locals.
ReadPrevious(t) ==
  /\ thread[t].at = "previous"
  /\ thread' = [thread EXCEPT ![t].prev = PreviousHash(mem), ![t].at = "block"]
  /\ UNCHANGED <<mem, inodes, names, queue, seen, answered, world>>

\* blocks.append (224).
AddBlock(t) ==
  /\ thread[t].at = "block"
  /\ mem' = [mem EXCEPT !.blocks = Append(@, Sha256(thread[t].prev, thread[t].tx))]
  /\ thread' = [thread EXCEPT ![t].at = "raw", ![t].prev = GENESIS]
  /\ UNCHANGED <<inodes, names, queue, seen, answered, world>>

\* Wrong variant: a repeated transaction is not stored again.
RawOnce(raw, tx) == IF Contains(raw, tx) THEN raw ELSE Append(raw, tx)

RawAfter(raw, tx) == Append(raw, tx)

\* raw_transactions.append (225).
AddRaw(t) ==
  /\ thread[t].at = "raw"
  /\ mem' = [mem EXCEPT !.raw = RawAfter(@, thread[t].tx)]
  /\ Goto(t, "announce")
  /\ UNCHANGED <<inodes, names, queue, seen, answered, world>>

\* Wrong variant: the seen set is never consulted.
NeverKnown(tx) == FALSE

Known(tx) == tx \in seen

\* Wrong variant: the save is left to the next exclusion.
AnnounceUnsaved(t) ==
  LET tx == thread[t].tx
  IN /\ thread[t].at = "announce"
     /\ seen' = seen \cup {tx}
     /\ queue' = IF Known(tx) THEN queue ELSE Append(queue, tx)
     /\ Goto(t, "log")
     /\ UNCHANGED <<mem, inodes, names, answered, world>>

\* The commit callback (228): GossipWorker.gossip, under its lock.
Announce(t) ==
  LET tx == thread[t].tx
  IN /\ thread[t].at = "announce"
     /\ seen' = seen \cup {tx}
     /\ queue' = IF Known(tx) THEN queue ELSE Append(queue, tx)
     /\ Goto(t, "save")
     /\ UNCHANGED <<mem, inodes, names, answered, world>>

\* save() starts iterating the whitelist (106) ...
BeginSave(t) ==
  /\ thread[t].at = "save"
  /\ thread' = [thread EXCEPT ![t].at = "whitelist", ![t].size = Cardinality(mem.auth)]
  /\ UNCHANGED <<mem, inodes, names, queue, seen, answered, world>>

\* ... and raises if its size changed before the iteration ended.
CopyWhitelist(t) ==
  LET call == thread[t]
  IN /\ call.at = "whitelist"
     /\ thread' = [thread EXCEPT ![t] =
          IF Cardinality(mem.auth) # call.size THEN Idle
          ELSE [call EXCEPT !.at = "copy", !.size = 0, !.field = 1,
                            !.copy = [call.copy EXCEPT !.auth = mem.auth]]]
     /\ UNCHANGED <<mem, inodes, names, queue, seen, answered, world>>

\* The lists are copied one by one (108-119).
CopyField(t) ==
  LET call == thread[t]
      f == Fields[call.field]
  IN /\ call.at = "copy"
     /\ thread' = [thread EXCEPT ![t] =
          [call EXCEPT !.copy = [call.copy EXCEPT ![f] = mem[f]], !.field = call.field + 1,
                       !.at = IF call.field = Len(Fields) THEN "open" ELSE "copy"]]
     /\ UNCHANGED <<mem, inodes, names, queue, seen, answered, world>>

\* Wrong variant: the state file itself is opened.
OpenInPlace(t) ==
  /\ thread[t].at = "open"
  /\ inodes' = [inodes EXCEPT ![names.state] = Empty]
  /\ names' = [names EXCEPT !.tmp = names.state]
  /\ thread' = [thread EXCEPT ![t].fd = names.state, ![t].at = "write"]
  /\ UNCHANGED <<mem, queue, seen, answered, world>>

\* write_text opens the .tmp name for writing: it creates or truncates (122).
OpenTmp(t) ==
  LET node == IF names.tmp = 0 THEN Len(inodes) + 1 ELSE names.tmp
  IN /\ thread[t].at = "open"
     /\ inodes' = IF names.tmp = 0 THEN Append(inodes, Empty)
                  ELSE [inodes EXCEPT ![node] = Empty]
     /\ names' = [names EXCEPT !.tmp = node]
     /\ thread' = [thread EXCEPT ![t].fd = node, ![t].at = "write"]
     /\ UNCHANGED <<mem, queue, seen, answered, world>>

\* The text goes to the inode that was opened, whatever names it now.
WriteTmp(t) ==
  /\ thread[t].at = "write"
  /\ \E text \in Overwritten(inodes[thread[t].fd], thread[t].copy) :
       inodes' = [inodes EXCEPT ![thread[t].fd] = text]
  /\ thread' = [thread EXCEPT ![t] =
       [Idle EXCEPT !.at = "replace", !.tx = thread[t].tx, !.code = thread[t].code]]
  /\ UNCHANGED <<mem, names, queue, seen, answered, world>>

\* tmp.replace (123) raises when another save has already renamed the .tmp.
Replace(t) ==
  /\ thread[t].at = "replace"
  /\ IF names.tmp = 0
     THEN thread' = [thread EXCEPT ![t] = Idle] /\ UNCHANGED names
     ELSE Goto(t, "log") /\ names' = [state |-> names.tmp, tmp |-> 0]
  /\ UNCHANGED <<mem, inodes, queue, seen, answered, world>>

\* The event is logged and the caller gets its answer.
Answer(t) ==
  LET code == thread[t].code
  IN /\ thread[t].at = "log"
     /\ mem' = Logged(mem, Level(code))
     /\ answered' = IF code \in Committing THEN Append(answered, thread[t].tx) ELSE answered
     /\ thread' = [thread EXCEPT ![t] = Idle]
     /\ UNCHANGED <<inodes, names, queue, seen, world>>

\* A thread inside submit takes its next step.
Submitting(t) ==
  \/ UpdateWhitelist(t) \/ RecordRoot(t) \/ ReadPrevious(t) \/ AddBlock(t) \/ AddRaw(t)
  \/ Announce(t)
  \/ BeginSave(t) \/ CopyWhitelist(t) \/ CopyField(t)
  \/ OpenTmp(t) \/ WriteTmp(t) \/ Replace(t)
  \/ Answer(t)

\* The process dies and starts again from its file; with a file it cannot parse
\* it dies at every start.
Crash ==
  /\ up /\ crashes < MaxCrashes
  /\ crashes' = crashes + 1
  /\ thread' = [t \in Threads |-> Idle]
  /\ queue' = <<>> /\ seen' = {}
  /\ IF StateFile.kind # "json"
     THEN up' = FALSE /\ UNCHANGED <<mem, inodes, names>>
     ELSE /\ up' = TRUE
          /\ mem' = LoggedBoot(StateFile.c)
          /\ IF BootSaves(StateFile.c)
             THEN /\ inodes' = Append(inodes, Json(Booted(StateFile.c)))
                  /\ names' = [state |-> Len(inodes) + 1, tmp |-> 0]
             ELSE UNCHANGED <<inodes, names>>
  /\ UNCHANGED <<answered, overlapped, submits>>

Next ==
  \/ \E t \in Threads : Submitting(t) \/ \E tx \in Txs : Start(t, tx)
  \/ Crash

Spec == Init /\ [][Next]_vars

-----------------------------------------------------------------------------
(* Properties. *)

Count(s, tx) == Cardinality({i \in DOMAIN s : s[i] = tx})

\* The transaction that a block's hash commits to last, for each block.
Hashed(c) == [i \in DOMAIN c.blocks |-> Last(c.blocks[i])]

Labels ==
  {"idle", "exclude", "authorise", "root", "previous", "block", "raw", "announce",
   "save", "whitelist", "copy", "open", "write", "replace", "log"}

\* Type invariant of the threads, the file names and the gossip queue.
TypeOK ==
  /\ up \in BOOLEAN
  /\ mem.auth \subseteq Nodes /\ Range(mem.roots) \subseteq Data
  /\ \A t \in Threads : /\ thread[t].at \in Labels
                        /\ thread[t].tx \in Txs
                        /\ thread[t].fd \in 0..Len(inodes)
  /\ names.state \in 1..Len(inodes) /\ names.tmp \in 0..Len(inodes)
  /\ Range(queue) = seen

\* When calls do not overlap, a crash at any statement leaves a file that parses, is
\* one hash chain, and has every commit that was answered (chain.py:121-123).
SerialCallsAreDurable ==
  ~overlapped =>
    /\ StateFile.kind = "json"
    /\ LinkedChain(StateFile.c)
    /\ \A tx \in Txs : Count(answered, tx) <= Count(StateFile.c.raw, tx)

\* When calls do not overlap, the chain between two of them is linked and lists every
\* NODE_AUTH before the commits it permits, so that a peer can replay it.
SerialCallsReplay ==
  ~overlapped /\ Active = {} => LinkedChain(mem) /\ AuthoritySound(mem)

\* The hash that block i links to, the blocks that link to hash h, and those that
\* have it: two calls that append the same transaction to the same hash leave two.
Parent(c, i) == Front(c.blocks[i])

Children(c, h) == {i \in DOMAIN c.blocks : Parent(c, i) = h}

Bearers(c, h) == {i \in DOMAIN c.blocks : c.blocks[i] = h} \cup (IF h = GENESIS THEN {0} ELSE {})

\* However calls overlap, blocks form a tree on genesis in which a hash has no more
\* children than there are threads to read it, for each block that has it (chain.py:221).
ForkWidth ==
  \A i \in DOMAIN mem.blocks :
    LET h == Parent(mem, i)
    IN /\ \E j \in Bearers(mem, h) : j < i
       /\ Cardinality(Children(mem, h)) <= Cardinality(Threads) * Cardinality(Bearers(mem, h))

\* However calls overlap, the hashes and the raw transactions they leave are of the
\* same commits, if not in the same order; a reload may inherit a file whose lists
\* were copied at different moments (chain.py:109, 224).
SameTransactions ==
  Active = {} /\ (overlapped => crashes = 0) =>
    \A tx \in Txs : Count(Hashed(mem), tx) = Count(mem.raw, tx)

\* However calls overlap and whatever is submitted twice, a transaction enters the
\* gossip queue once in the life of the process (p2p.py:218).
QueuedOnce == IsInjective(queue)

\* The callback announces a commit before it is saved: when calls do not overlap, a
\* crash can take back at most one commit that peers may have heard of.
OneUnsavedAnnouncement ==
  ~overlapped => Cardinality(seen \ Range(StateFile.c.raw)) <= 1

\* "AppChain now persists state to a JSON file on disk after every mutation,
\* survives restarts" (CHANGELOG.md:129): what was answered is in the file.
AnsweredIsSaved ==
  up => \A tx \in Txs : Count(answered, tx) <= Count(StateFile.c.raw, tx)
=============================================================================
