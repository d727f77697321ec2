----------------------------- MODULE GossipNet -----------------------------
(***************************************************************************)
(* Several sp1d3r nodes: each has a chain (ChainRules), a peer store and a *)
(* gossip worker (sp1d3r/src/d31337m3_chain/p2p.py), and catches up with   *)
(* one seed when it boots (sp1d3r/app.py).                                 *)
(*                                                                         *)
(* Nodes talk by HTTP requests.  A request to a node that is not serving   *)
(* is refused.  One that times out is neither lost nor delivered yet: it   *)
(* stays in transit, and its handler may run at any later moment, after    *)
(* requests that were sent after it, or never.                             *)
(*                                                                         *)
(* Abstractions: a node's URL, key and name are one; submit is atomic      *)
(* (ChainThreads has its interleavings) and events, which nothing here     *)
(* reads, are left out; so are the heights and times a peer store notes.   *)
(* A peer exchange changes no peer store: do_POST has no such path, so the *)
(* request that follows each ping is always answered 404.                  *)
(***************************************************************************)
EXTENDS ServerRules

CONSTANTS
  BootTx,              \* each node's own NODE_AUTH
  Seed,                \* the node that every other one has as SP1D3R_SEED_NODE
  MaxFailedPings,      \* GossipWorker's max_failed_pings
  MaxPosts,            \* bound: transactions posted by clients
  MaxTimeouts,         \* bound: requests to a serving node that time out
  MaxCrashes           \* bound: crashes

ASSUME SeedAssumption == Seed \in Nodes
ASSUME BootAssumption ==
  \A n \in Nodes : BootTx[n] \in Txs /\ BootTx[n].type = "NODE_AUTH" /\ BootTx[n].sender = n
ASSUME BoundsAssumption ==
  MaxFailedPings \in Nat \ {0} /\ {MaxPosts, MaxTimeouts, MaxCrashes} \subseteq Nat

VARIABLES
  stage,      \* "down", "syncing", "importing", then the gossip worker's "flush", "send", "ping"
  chain,      \* each node's chain in memory
  disk,       \* and in its state file
  peers,      \* PeerStore.peers: from each known peer to its failed_pings; on disk too
  queue,      \* GossipWorker._queue
  seen,       \* GossipWorker._seen
  batch,      \* what _flush_queue took and has not sent yet
  targets,    \* the peers the loop at hand (of sends, of pings) has not reached
  incoming,   \* the blocks import_blocks has still to replay
  transit,    \* timed out gossip requests whose handler has not run
  crawled,    \* history: crawl transactions created so far
  sent,       \* history: sends of a transaction to a peer since the sender booted
  missed,     \* history: requests to a peer that failed since one succeeded, counted
              \* up to MaxFailedPings
  posts, timeouts, crashes   \* history: how many so far

netvars == <<stage, chain, disk, peers, queue, seen, batch, targets, incoming, transit>>
vars == <<netvars, crawled, sent, missed, posts, timeouts, crashes>>

Serving(n) == stage[n] \in {"flush", "send", "ping"}

NothingSent == [p \in Nodes |-> [tx \in Txs |-> 0]]

-----------------------------------------------------------------------------
(* A node commits. *)

Commits(n, tx) == Outcome(chain[n], tx) \in Committing

\* submit() outside batch mode, for a request to a serving node.
SubmitTo(n, tx) ==
  LET code == Outcome(chain[n], tx)
      after == Effect(chain[n], tx, code)
  IN /\ chain' = [chain EXCEPT ![n] = after]
     /\ disk' = [disk EXCEPT ![n] = IF Saving(code) THEN after ELSE @]

\* Wrong variant: the seen set is not consulted.
NeverKnown(n, tx) == FALSE

Known(n, tx) == tx \in seen[n]

\* The commit callback: GossipWorker.gossip.
Gossip(n, tx) ==
  /\ queue' = [queue EXCEPT ![n] = IF Known(n, tx) THEN @ ELSE Append(@, tx)]
  /\ seen' = [seen EXCEPT ![n] = @ \cup {tx}]

\* What a node does with a transaction that reaches one of its handlers.
Handle(n, tx) ==
  /\ SubmitTo(n, tx)
  /\ IF Commits(n, tx) THEN Gossip(n, tx) ELSE UNCHANGED <<queue, seen>>

-----------------------------------------------------------------------------
(* Boot: the module level of app.py, then main(). *)

\* The node's own NODE_AUTH is committed before the callback is registered, so it
\* is never gossiped.
Boot(n) ==
  LET known == n \in disk[n].auth
      c == IF known THEN disk[n] ELSE Effect(disk[n], BootTx[n], "node_authenticated")
  IN /\ stage[n] = "down"
     /\ chain' = [chain EXCEPT ![n] = c]
     /\ disk' = [disk EXCEPT ![n] = c]
     /\ stage' = [stage EXCEPT ![n] = IF n = Seed THEN "flush" ELSE "syncing"]
     /\ UNCHANGED <<peers, queue, seen, batch, targets, transit, crawled, sent, missed,
                    incoming, posts, timeouts, crashes>>

Height(c) == Len(c.blocks) - 1

\* blocks_since.
BlocksSince(c, height) ==
  IF height + 2 > Len(c.raw) THEN <<>> ELSE SubSeq(c.raw, height + 2, Len(c.raw))

\* _sync_from_seed when the seed answers: it asks for the blocks above the local
\* height, if the seed is higher.
SyncFromSeed(n) ==
  LET height == Height(chain[n])
      txs == IF Height(chain[Seed]) <= height THEN <<>> ELSE BlocksSince(chain[Seed], height)
  IN /\ stage[n] = "syncing" /\ Serving(Seed)
     /\ incoming' = [incoming EXCEPT ![n] = txs]
     /\ stage' = [stage EXCEPT ![n] = IF txs = <<>> THEN "flush" ELSE "importing"]
     /\ UNCHANGED <<chain, disk, peers, queue, seen, batch, targets, transit, crawled, sent,
                    missed, posts, timeouts, crashes>>

\* import_blocks replays the next one: a critical event ends the import, and nothing
\* is saved, by submit or at the end (chain.py:93 runs in batch mode).
ImportNext(n) ==
  LET tx == Head(incoming[n])
      code == Outcome(chain[n], tx)
      rest == IF Level(code) = "critical" THEN <<>> ELSE Tail(incoming[n])
  IN /\ stage[n] = "importing"
     /\ chain' = [chain EXCEPT ![n] = Effect(@, tx, code)]
     /\ IF code \in Committing THEN Gossip(n, tx) ELSE UNCHANGED <<queue, seen>>
     /\ incoming' = [incoming EXCEPT ![n] = rest]
     /\ stage' = [stage EXCEPT ![n] = IF rest = <<>> THEN "flush" ELSE "importing"]
     /\ UNCHANGED <<disk, peers, batch, targets, transit, crawled, sent, missed,
                    posts, timeouts, crashes>>

\* ... and when it does not: the node starts anyway.
SyncFails(n) ==
  /\ stage[n] = "syncing" /\ ~Serving(Seed)
  /\ stage' = [stage EXCEPT ![n] = "flush"]
  /\ UNCHANGED <<chain, disk, peers, queue, seen, batch, targets, transit, crawled, sent,
                 missed, incoming, posts, timeouts, crashes>>

-----------------------------------------------------------------------------
(* Requests of clients. *)

\* A crawl or a task result commits a fresh payload of the node itself; whether the
\* chain accepts it is not looked at.
Crawl(n, tx) ==
  /\ Serving(n)
  /\ tx.type = "PAYLOAD_COMMIT" /\ tx.sender = n /\ tx \notin crawled
  /\ Handle(n, tx)
  /\ crawled' = crawled \cup {tx}
  /\ UNCHANGED <<stage, peers, batch, targets, transit, sent, missed, incoming, posts, timeouts, crashes>>

\* A client posts a NODE_AUTH or an APP_SIG_VERIFY to the gossip endpoint.
Post(n, tx) ==
  /\ Serving(n) /\ posts < MaxPosts
  /\ tx.type \in {"NODE_AUTH", "APP_SIG_VERIFY"}
  /\ Handle(n, tx)
  /\ posts' = posts + 1
  /\ UNCHANGED <<stage, peers, batch, targets, transit, crawled, sent, missed, incoming, timeouts, crashes>>

\* A peer registers itself (POST /v1/chain/peers); a known one is only noted as seen.
AddPeer(n, p) ==
  /\ Serving(n) /\ Serving(p) /\ p # n
  /\ p \notin DOMAIN peers[n]
  /\ peers' = [peers EXCEPT ![n] = [q \in DOMAIN @ \cup {p} |-> IF q = p THEN 0 ELSE @[q]]]
  /\ missed' = [missed EXCEPT ![n][p] = 0]
  /\ UNCHANGED <<stage, chain, disk, queue, seen, batch, targets, transit, crawled, sent,
                 incoming, posts, timeouts, crashes>>

\* The handler of a request that timed out runs at last.
HandleLate(request) ==
  /\ Serving(request.to)
  /\ transit' = transit \ {request}
  /\ Handle(request.to, request.tx)
  /\ UNCHANGED <<stage, peers, batch, targets, crawled, sent, missed, incoming, posts, timeouts, crashes>>

-----------------------------------------------------------------------------
(* The gossip worker's loop: flush the queue, ping every peer, wait.        *)

\* Wrong variant: an answer does not clear the failures noted before it.
PeersUncleared(known, p, ok) ==
  IF p \notin DOMAIN known \/ ok THEN known
  ELSE IF known[p] + 1 >= MaxFailedPings THEN [q \in DOMAIN known \ {p} |-> known[q]]
  ELSE [known EXCEPT ![p] = @ + 1]

\* Wrong variant: a failing peer is never dropped.
PeersKept(known, p, ok) ==
  IF p \notin DOMAIN known THEN known
  ELSE [known EXCEPT ![p] = IF ok THEN 0 ELSE MaxFailedPings - 1]

\* Wrong variant: a peer is dropped one failure later.
PeersLate(known, p, ok) ==
  IF p \notin DOMAIN known THEN known
  ELSE IF ok THEN [known EXCEPT ![p] = 0]
  ELSE IF known[p] + 1 > MaxFailedPings THEN [q \in DOMAIN known \ {p} |-> known[q]]
  ELSE [known EXCEPT ![p] = @ + 1]

\* mark_seen, or increment_failed and remove.
PeersAfter(known, p, ok) ==
  IF p \notin DOMAIN known THEN known
  ELSE IF ok THEN [known EXCEPT ![p] = 0]
  ELSE IF known[p] + 1 >= MaxFailedPings THEN [q \in DOMAIN known \ {p} |-> known[q]]
  ELSE [known EXCEPT ![p] = @ + 1]

\* What becomes of peer p of n once a request to it has succeeded or failed.
Noted(n, p, ok) ==
  /\ peers' = [peers EXCEPT ![n] = PeersAfter(@, p, ok)]
  /\ missed' = [missed EXCEPT ![n][p] =
       IF ok THEN 0 ELSE IF @ < MaxFailedPings THEN @ + 1 ELSE @]

\* Wrong variant: the worker goes on to the pings with the batch unsent.
ContinuePinging(n, txs) ==
  LET known == DOMAIN peers'[n]
  IN /\ batch' = [batch EXCEPT ![n] = <<>>]
     /\ targets' = [targets EXCEPT ![n] = known]
     /\ stage' = [stage EXCEPT ![n] = IF known = {} THEN "flush" ELSE "ping"]

\* The worker has txs left to send, and then pings; each loop reads the peers as
\* they are when it begins.
Continue(n, txs) ==
  LET known == DOMAIN peers'[n]
  IN /\ batch' = [batch EXCEPT ![n] = IF known = {} THEN <<>> ELSE txs]
     /\ targets' = [targets EXCEPT ![n] = known]
     /\ stage' = [stage EXCEPT ![n] =
          IF known = {} THEN "flush" ELSE IF txs = <<>> THEN "ping" ELSE "send"]

\* Wrong variant: the queue is copied and not cleared.
QueueKept(q) == q

QueueCleared(q) == <<>>

\* _flush_queue takes the queue.
FlushQueue(n) ==
  /\ stage[n] = "flush"
  /\ queue' = [queue EXCEPT ![n] = QueueCleared(@)]
  /\ UNCHANGED peers
  /\ Continue(n, queue[n])
  /\ UNCHANGED <<chain, disk, seen, transit, crawled, sent, missed, incoming, posts, timeouts, crashes>>

\* The send of the batch's first transaction to p is over.
Advance(n, p) ==
  /\ sent' = [sent EXCEPT ![n][p][Head(batch[n])] = @ + 1]
  /\ IF targets[n] = {p} THEN Continue(n, Tail(batch[n]))
     ELSE /\ targets' = [targets EXCEPT ![n] = @ \ {p}]
          /\ UNCHANGED <<batch, stage>>

\* p handles the transaction and its answer arrives; a critical event is answered
\* 400, which counts as a failure.
SendAnswered(n, p) ==
  LET tx == Head(batch[n])
  IN /\ stage[n] = "send" /\ p \in targets[n] /\ Serving(p)
     /\ Handle(p, tx)
     /\ Noted(n, p, Level(Outcome(chain[p], tx)) # "critical")
     /\ Advance(n, p)
     /\ UNCHANGED <<transit, crawled, incoming, posts, timeouts, crashes>>

SendTimesOut(n, p) ==
  /\ stage[n] = "send" /\ p \in targets[n] /\ Serving(p) /\ timeouts < MaxTimeouts
  /\ timeouts' = timeouts + 1
  /\ transit' = transit \cup {[from |-> n, to |-> p, tx |-> Head(batch[n])]}
  /\ Noted(n, p, FALSE)
  /\ Advance(n, p)
  /\ UNCHANGED <<chain, disk, queue, seen, crawled, incoming, posts, crashes>>

SendRefused(n, p) ==
  /\ stage[n] = "send" /\ p \in targets[n] /\ ~Serving(p)
  /\ Noted(n, p, FALSE)
  /\ Advance(n, p)
  /\ UNCHANGED <<chain, disk, queue, seen, transit, crawled, incoming, posts, timeouts, crashes>>

\* _heartbeat_peers: one peer's ping is over.
Pinged(n, p, ok) ==
  /\ stage[n] = "ping" /\ p \in targets[n]
  /\ Noted(n, p, ok)
  /\ targets' = [targets EXCEPT ![n] = @ \ {p}]
  /\ stage' = [stage EXCEPT ![n] = IF targets[n] = {p} THEN "flush" ELSE "ping"]
  /\ UNCHANGED <<chain, disk, queue, seen, batch, transit, crawled, sent, incoming, posts, crashes>>

PingAnswered(n, p) == Serving(p) /\ Pinged(n, p, TRUE) /\ UNCHANGED timeouts

PingTimesOut(n, p) ==
  /\ Serving(p) /\ timeouts < MaxTimeouts
  /\ timeouts' = timeouts + 1
  /\ Pinged(n, p, FALSE)

PingRefused(n, p) == ~Serving(p) /\ Pinged(n, p, FALSE) /\ UNCHANGED timeouts

\* The process dies: what is not in a file is gone, and its open requests with it.
Crash(n) ==
  /\ stage[n] # "down" /\ crashes < MaxCrashes
  /\ crashes' = crashes + 1
  /\ stage' = [stage EXCEPT ![n] = "down"]
  /\ chain' = [chain EXCEPT ![n] = disk[n]]
  /\ queue' = [queue EXCEPT ![n] = <<>>]
  /\ seen' = [seen EXCEPT ![n] = {}]
  /\ batch' = [batch EXCEPT ![n] = <<>>]
  /\ targets' = [targets EXCEPT ![n] = {}]
  /\ incoming' = [incoming EXCEPT ![n] = <<>>]
  /\ transit' = {request \in transit : request.to # n}
  /\ sent' = [sent EXCEPT ![n] = NothingSent]
  /\ UNCHANGED <<disk, peers, crawled, missed, posts, timeouts>>

-----------------------------------------------------------------------------
Init ==
  /\ stage = [n \in Nodes |-> "down"]
  /\ chain = [n \in Nodes |-> Fresh({})]
  /\ disk = [n \in Nodes |-> Fresh({})]
  /\ peers = [n \in Nodes |-> <<>>]
  /\ queue = [n \in Nodes |-> <<>>]
  /\ seen = [n \in Nodes |-> {}]
  /\ batch = [n \in Nodes |-> <<>>]
  /\ targets = [n \in Nodes |-> {}]
  /\ incoming = [n \in Nodes |-> <<>>]
  /\ transit = {}
  /\ crawled = {}
  /\ sent = [n \in Nodes |-> NothingSent]
  /\ missed = [n \in Nodes |-> [p \in Nodes |-> 0]]
  /\ posts = 0 /\ timeouts = 0 /\ crashes = 0

\* One step of n's gossip thread.
Worker(n) ==
  \/ FlushQueue(n)
  \/ \E p \in Nodes : \/ SendAnswered(n, p) \/ SendTimesOut(n, p) \/ SendRefused(n, p)
                      \/ PingAnswered(n, p) \/ PingTimesOut(n, p) \/ PingRefused(n, p)

Next ==
  \/ \E n \in Nodes :
       \/ Boot(n) \/ SyncFromSeed(n) \/ SyncFails(n) \/ ImportNext(n) \/ Crash(n) \/ Worker(n)
       \/ \E tx \in Txs : Crawl(n, tx) \/ Post(n, tx)
       \/ \E p \in Nodes : AddPeer(n, p)
  \/ \E request \in transit : HandleLate(request)

\* Every request of the sync and of the worker has a timeout, so both threads go on;
\* nothing makes a node boot, or clients, late handlers and crashes come.
Fairness ==
  \A n \in Nodes : /\ WF_vars(Worker(n))
                   /\ WF_vars(SyncFromSeed(n) \/ SyncFails(n) \/ ImportNext(n))

Spec == Init /\ [][Next]_vars /\ Fairness

-----------------------------------------------------------------------------
(* Properties. *)

\* Type invariant of the network's bookkeeping.
TypeOK ==
  /\ stage \in [Nodes -> {"down", "syncing", "importing", "flush", "send", "ping"}]
  /\ \A n \in Nodes :
       /\ DOMAIN peers[n] \subseteq Nodes \ {n}
       /\ \A p \in DOMAIN peers[n] : peers[n][p] \in 0..(MaxFailedPings - 1)
       /\ Range(queue[n]) \cup Range(batch[n]) \subseteq seen[n]
       /\ targets[n] \subseteq Nodes
       /\ stage[n] = "send" <=> batch[n] # <<>>
       /\ stage[n] = "importing" <=> incoming[n] # <<>>

\* Whatever echoes back to it, and however often clients post it, a node sends a
\* transaction to a peer at most once in the life of its process (p2p.py:219).
SentOnce == \A n, p \in Nodes : \A tx \in Txs : sent[n][p][tx] <= 1

\* Every chain in the network holds payloads of senders it authorised before, also
\* after imports that skip blocks, late handlers and restarts (chain.py:185).
AuthorityEverywhere ==
  \A n \in Nodes : AuthoritySound(chain[n]) /\ AuthoritySound(disk[n])

\* What is saved is what was served: a crash takes back imported blocks only until
\* the next commit, never a block below one that was saved (chain.py:93, 199).
DiskIsPrefix == \A n \in Nodes : IsPrefix(Tip(disk[n]), Tip(chain[n]))

\* A peer is dropped only after max_failed_pings requests to it failed in a row; one
\* success in between, of a ping or a send, starts the count again (p2p.py:132, 256).
DroppedAfterRow ==
  [][\A n \in Nodes : \A p \in DOMAIN peers[n] \ DOMAIN peers'[n] :
       missed'[n][p] >= MaxFailedPings]_vars

\* Echoes die out: once clients and faults are done, nothing is left to send.
GossipDies == <>[](\A n \in Nodes : queue[n] = <<>> /\ batch[n] = <<>>)

\* A queued transaction is sent to every peer known since then, unless the node
\* stops or drops the peer first (p2p.py:230-239).
QueuedIsSent ==
  \A n, p \in Nodes : \A tx \in Txs :
    Contains(queue[n], tx) /\ p \in DOMAIN peers[n] ~>
      sent[n][p][tx] > 0 \/ p \notin DOMAIN peers[n] \/ stage[n] = "down"

\* A peer that is gone for good is dropped for good (p2p.py:276).
DeadPeersAreDropped ==
  \A n, p \in Nodes :
    <>[](stage[p] = "down" /\ Serving(n)) => <>[](p \notin DOMAIN peers[n])

\* "Chain sync to catch up with the network on startup" (sp1d3r/README.md:17): what a
\* node fetches from a seed that answers is all that it lacks.
SyncCatchesUp ==
  [][\A n \in Nodes : SyncFromSeed(n) =>
       Range(chain[Seed].raw) \subseteq Range(chain[n].raw) \cup Range(incoming'[n])]_vars
=============================================================================
