# Formal model of Sp1d3r alpha

TLA+ models, TLC configurations and TLAPS proofs of the parts of the d31337m3
platform that have a protocol in them. Everything is translated from the source
under `src/`; in this file `MS` stands for `src/d31337m3/microservices`
and `WEB` for `src/d31337m3/frontends/sp1d3r.d31337m3.com/src`.

Where the code and the repository's documents disagree, the run that shows it is
listed in [Findings](#findings).

## The system

Python services that talk HTTP, a web console and two smaller mobile copies of it, and
node agents that poll for work. The first two rows below replicate state between
processes; the other services keep one store each; every page of the console keeps
copies of several stores that it refreshes by asking.

| Component | Source | State | Operations that change it | Talks to |
|---|---|---|---|---|
| Chain | `MS/sp1d3r/src/d31337m3_chain/chain.py` | blocks, raw transactions, whitelist, approved binaries, payload roots, events; one JSON file | `submit`, `import_blocks`, `prune`, `approve_app_hash`, `alert_pii_detected`, `save`, `_load` | calls the commit callbacks |
| Gossip | `MS/sp1d3r/src/d31337m3_chain/p2p.py`, `MS/sp1d3r/app.py` | peer store (file), queue and seen set (memory) | gossip, flush, ping, peers POST, gossip POST, sync on boot | other sp1d3r nodes |
| Task queue | `MS/sp1d3r/task_queue.py` | tasks, one JSON file | create, assign_next, complete, prune | node agents |
| Search store | `MS/sp1d3r/search_store.py`, `app.py` | searches, one JSON file | create, add_task, add_result, check_completion, super/system search | task queue, chain |
| Search access | `app.py:136-245`, `MS/cityhall/app/main.py:74-313` | trial and system-search counters in cityhall's database | check, mark used | banker, cityhall |
| Banker | `MS/banker/app/server.py` | subscriptions, payment records (SQLite) | create, verify, webhook, cancel, status check | Stripe, cityhall, inboxer, director |
| Cityhall | `MS/cityhall/app/` | users, one-time codes, enrolment tokens, documents, keywords | register, login, OTP, admin actions | inboxer |
| Node agent | `MS/node-agent/agent.py` | its key, counters | poll, execute, report, heartbeat | sp1d3r, director |
| Director | `MS/director/app.py` | one JSON file of services, traffic, alerts, blacklist | heartbeat, health, alert, reconcile, blacklist | everything registers with it |
| Inboxer | `MS/inboxer/app.py` | messages, outgoing mail (SQLite) | store, send, retry, clean up | SMTP |
| Lawyer, historian | one `app.py` each | letter templates, records | store, rename, delete | lawyer stores in the historian |
| Picaso, spiderwire | one `app.py` each | rows of their own | insert, list | - |
| Crawler worker, crypto, search engines | `d31337m3_crawler/`, `crypto.py`, `search_engines.py` | none | - | web sites |
| Web console | `WEB/` | token and profile in `localStorage` and in each tab; per page: lists, forms, dialogs, requests under way | clicks, timers, answers | all services |
| Mobile applications | `src/d31337m3/frontends/mobile*` | as the console | as the console | all services |

What is hard, and what makes each part correct:

- **Chain.** `AppChain` has no lock, and `ThreadingHTTPServer` runs `submit` in a
  thread per request. Every save rewrites the whole file through one `.tmp` name.
  Batch mode suppresses saving for a whole import. Correct means: blocks are one hash
  chain over the transactions next to them; a commit had authority when it was made;
  an excluded sender stays out; what was answered survives a crash.
- **Gossip.** Requests time out while their handlers still run, nodes restart without
  their queue, and transactions come back to their author. Correct means: a
  transaction is sent once per peer, echoes die out, a queued transaction reaches the
  peers that stay, a peer is dropped after a row of failures and not otherwise, and a
  node that syncs gets what it lacks.
- **Tasks and searches.** Two stores with two locks and two files, written in place;
  a task can be taken and answered before the search that made it knows it. Correct
  means: a search is completed when its tasks are, once, and no task is lost.
- **Access, billing.** Check, mark and use are separate requests to separate services,
  and payment callbacks are redelivered. Correct means: counters count every use, a
  subscription follows its payments, a cancelled one stays cancelled.
- **Director, inboxer.** Read-modify-write of a whole file from concurrent handlers; a
  relay whose answer gets lost. Correct means: an entry goes when it is deleted and not
  otherwise, mail that is recorded as sent went out.
- **Web console.** Handlers are asynchronous functions that read the state of the render
  in which they were clicked, wait for a request, and write whatever page they find
  afterwards; most buttons stay on meanwhile, and `apiRequest` throws on a network error
  and on the empty body of a 204. Tabs share `localStorage` and do not hear of each other.
  Correct means: what is shown is what the service has once all is quiet, what is edited
  ends up where the page says, what a tab shows is of the account it is signed in with.

`PROJECT.json` lists each of these hazards at its line, with the properties that
cover it or the reason why none does.

## Modules

| Module | What it is |
|---|---|
| `ChainRules` | the decisions of `submit` and their effect on the ledger's fields; every module with a chain builds on it |
| `ServerRules` | those rules as the server configures them: without validators |
| `Ledger` | abstract specification: a log that only authorised senders extend, and a saved copy |
| `AppChain` | one node's chain: one action per operation, calls in sequence, restarts anywhere |
| `ChainThreads` | `submit` and `save` statement by statement, several threads, crashes anywhere |
| `GossipNet` | several nodes: boot, seed sync, gossip worker, peer store, timeouts, crashes |
| `Crawl` | abstract specification: searches as sets of jobs, each handed out once, with one result or none |
| `TaskBoard` | task queue, search store, the handlers between them, the agents' task loop, the two files |
| `Fetch` | `apiRequest`: requests in flight, their outcomes (`ok`, `refused`, `throws`), and which answers were late; every page builds on it |
| `WebSession` | sign-in, registration, one-time codes, profile and sign-out in the tabs of a browser; `auth.py`, `users.py` |
| `UsersPage`, `BrokersPage`, `NodesPage` | administration of users, brokers (with CSV import), blacklist and tasks; `admin.py`, the director's threads |
| `SettingsPage`, `DocumentsPage`, `KeywordsPage` | the user's profile and key pair, letters and signatures, keywords; `users.py`, `documents.py`, `signatures.py`, `keywords.py` |
| `TemplatesPage` | letter templates; lawyer and historian |
| `SupportPage`, `MailPage` | channels and mail settings; the inboxer with its retry thread |
| `PaymentsPage`, `MonitorPages` | the administrator's subscriptions; the six pages that watch the platform |
| `FlasherPage` | flashing a board from the browser |
| `WebPages` | all of the above: a behaviour picks a page |
| `SearchPage` | encrypted search in several tabs; sp1d3r, banker, cityhall |
| `BillingPages` | onboarding, cancelling, tiers; the banker and Stripe's webhook |
| `AppChainProofs` | theorems about `AppChain`, and the lemmas about the rules of a chain that the next two use |
| `ChainThreadsProofs`, `GossipNetProofs`, `TaskBoardProofs`, `BillingPagesProofs`, `SearchPageProofs` | theorems about the module of that name |
| `UserPagesProofs`, `WebPagesProofs` | proofs about `WebPages`: what all pages have in common and the user's pages; the administrator's pages and the theorems |
| `MCAppChain`, `MCChainThreads`, `MCGossipNet`, `MCTaskBoard`, `MCWebPages`, `MCSearchPage`, `MCBillingPages` | values of the constants for TLC |

### How state and actions correspond to the code

`ChainRules` represents an `AppChain` object as a record: `auth` is
`authenticated_nodes`, `approved` is `approved_app_hashes`, `roots` is
`payload_roots`, `blocks`, `raw` and `events` are the three lists. `Outcome` is
`submit` with its early returns in the order of the code; its value is the code of the
event that `submit` returns. `Effect` is what that outcome does to the fields.

SHA-256 is a free constructor: a digest *is* the sequence of transactions it commits
to. So the last digest of a chain gives its whole history, pruned blocks included,
and that is what the authority properties and the refinement mapping read. Signatures
and PII patterns are booleans of a transaction; an event keeps its level.

`AppChain` has one action per method. `Submit` includes the save (and its place
before the event), and an import is `ImportBegin` (sizes and signatures are checked
before anything is replayed), one `ImportNext` per transaction, and `ImportEnd` (the
save in batch mode, and the flag). `Restart` may come between any two of these.
`import_blocks` has one caller, the sync at boot, before the server takes requests:
no other operation interleaves with it.

`ChainThreads` takes the same rules apart. A thread's `at` names the next statement
that touches something shared. Statements that touch only locals are merged with the
one before; a single `append`, `add` or list copy is atomic under the interpreter
lock, and iterating the whitelist raises when its size changed. The file system is
modelled by inodes, because a descriptor opened under `.tmp` keeps pointing at the
file after it was renamed.

`GossipNet` gives each node a `stage`: down, syncing, importing, and the three parts
of the gossip worker's loop. A request to a serving node is answered, or times out:
then it stays in `transit`, and its handler runs later, after newer requests, or
never. The pex request of each heartbeat is always answered 404 (the path is only
known to `do_GET`), so it changes nothing.

`TaskBoard` has one action per critical section: each method of `TaskQueue` and
`SearchStore` changes its store and writes its file under its lock. Handlers hold no
lock from one method to the next, so `creating` is where the handler of a search
request is between `task_queue.create` and `search_store.add_task` of each URL, and a
member of `handlers` is a result request between `add_result`, `complete` and
`check_completion`. An agent's request and its answer are one action when nothing is
lost (`Poll`, `Post`); a lost answer leaves the task assigned (`PollLost`), and an
agent never posts a result twice. `Crash` may tear the file of each save that may be
under way; a torn file loads as an empty store, while the other store's file is as it was.

The page modules share four variables. `server` is what the services behind the page
keep, `view` is the page's React state, `flight` is the sequence of requests under way,
and `past` is history for the properties and the bounds. A handler that awaits a request
is an action that ends with the request (`SaveBroker`), an action of the service
(`ServePost`), for cityhall one more for its commit (`Commit`), and an action for the rest of the
handler (`HandleSaveBroker`), which runs at any later moment and in any order with others. What the handler reads of its render
travels in the request's `arg`, with an operator such as `OffersRow` for what has to be
on the screen for a click. `Fail` is a request whose answer gets lost, before or after the
service acted. A 204 throws as well, since `apiRequest` fails to parse it, although the service
did what it was asked. `past.stale` names the lists that missed a change in that way, or were
loaded before its commit and not again, and `late` marks an answer that another one or a commit
may have overtaken: the properties of a page except those, and only those.

*cityhall* works on several requests at once. Each has a session of its own (`get_session`) and
commits when its handler is through, before the answer is sent or after it, as the version of
FastAPI has it (`requirements.txt` allows both). So the service's action puts what
its statement does into `server.open`, where nobody sees it, and `Commit` moves it to the rows
at any later moment, before or after the page's reaction. A statement waits for the lock of
another one on the same row, or on the same value of a unique column (`Locked`, `Claimed`); one
that sets what is set already is not sent, as SQLAlchemy has it. Where the code checks and then
inserts without a constraint, two requests that overlap both insert: a keyword is stored twice
(`KeywordsPage!PostNew`), and two new signatures are both the default
(`DocumentsPage!ServeSign`). The foreign key of letters makes the deletion of a signature wait
for letters that are being stored (`Settled`).

*The director and the historian* serve each request in a thread that reads the whole file,
changes its copy and writes it back (`Reads`, `Writes`), without a lock. The lawyer, which the
console talks to, answers with a 502 when the historian does not answer, also after it has
stored (`TemplatesPage!WritesUnanswered`), and the page takes that for a refusal.

In `NodesPage`, closing a dialog beside it keeps the user who was picked (`CloseDialog`), its button
does not (`Cancel`). In `SettingsPage` the token of a closed account is still good for what asks
for no password: `get_current_user` looks for the user and not at `is_suspended`.

`WebPages` does not interleave pages: a browser shows one, and opening another starts it
anew. In `WebSession` and `SearchPage` several tabs show the same page at once, and
there they share `view.stored`.

## Runs

| Run | Kind | Question | Size |
|---|---|---|---|
| `chain` | pass | eight properties of one chain through submits, imports, prunes, restarts; refines `Ledger` | 1.4 M states |
| `chain_import` | violation | is the file up to date after an import? | |
| `threads` | pass | what survives two overlapping calls, and what holds while calls do not overlap | 3.7 M states |
| `threads_durable` | violation | is every answered commit in the file, however calls overlap? | |
| `gossip` | pass | safety of two nodes with timeouts, late handlers, crashes | 0.7 M states |
| `gossip_live` | pass | liveness of the gossip worker | 27 k states |
| `gossip_sync` | violation | does the sync fetch what the node lacks? | |
| `tasks` | pass | do the two stores stay consistent under interleaving and a fault, do they implement `Crawl`, and does a search complete by itself without a fault? | 0.2 M states |
| `pages` | pass | each page of the console against its services | 4.9 M states |
| `search` | pass | are results readable, and those that were asked for last? | 3.8 M states |
| `search_trial` | violation | is there one free search a day? | |
| `billing` | pass | do subscriptions follow payments and cancellations? | 2.6 M states |

### Bounds, and why they are enough

- `chain`: two nodes, two data; for each node one transaction per branch of `submit`,
  plus one of an unsupported type, one with PII and one with a bad signature.
  `MaxCommits` = 3 blocks with `prune` to 1 or 2: pruning removes something, keeps
  something, and something is committed after it. An import has up to 2 blocks, so that
  it can be cut between them by a restart or a critical event. One restart; the file is
  written and read the same way each time.
- `threads`: two threads (every conflict in the code is between two calls), three
  calls, so that a third can observe what two left behind, one crash. Threads are
  interchangeable and the run has no liveness: symmetry is sound.
- `gossip`: a seed and one other node, each with its NODE_AUTH and one payload, and an
  unapproved binary of the second; three failures drop a peer as in the code. One
  client post, one timeout and one crash, at any moment.
- `gossip_live`: the same without the quarantine and timeouts, no symmetry.
- `tasks`: a search of three URLs (the first can be answered before the second is listed)
  next to a task of the administrator, two agents, and one fault: a lost answer, a lost
  result, or a crash with either file torn. One fault is enough: what it can break is the
  agreement between the two stores, and the properties are about that state.
- `pages`: two names (of users, channels, files ...), so that a dialog or an answer can be
  of the wrong one. Three steps of the user, four for the flasher, the support channels
  and the mail, three for the session, two for letters: enough for a handler, a second one
  that overtakes it, and a third step that uses what they left. Two requests are in flight
  when a handler starts, and it may add one. One failure: a page that missed one answer is
  as stale as one that missed two. Two tabs, an administrator and a user.
- `search`: two tabs, interchangeable (symmetry), four steps, one poll per search, one
  lost answer.
- `billing`: five steps of the user and one of the administrator between them, two tiers
  at most, two deliveries of the webhook (the second is the repetition), one failure.

Deadlock is not checked: the systems stop when their bounded inputs are used up, and a
node that waits for requests is not an error.

### Fairness

Safety runs need none. `GossipNet!Spec` has weak fairness of each node's gossip worker
and of its sync. Both are threads of straight loops in which every request has a
timeout (`p2p.py:251`, `271`, `290`; `fetch_json`), so each step ends. Nothing is
assumed about boots, clients, late handlers, timeouts or crashes: those may never come.

`TaskBoard!Spec` has weak fairness of the handlers that have begun (each page fetch has
a timeout) and of each agent's polling and posting (`task_loop` catches every exception
and sleeps ten seconds). Nobody has to search or to read a search, and faults may never
come.

The pages have no fairness: `fetch` has no timeout, so an answer may never come, and
their properties say what holds once all is quiet.

### Properties

Of one chain (`AppChain`):

- `Linked`: each block commits to the transaction beside it and to the block below, in
  memory and in the file, also above a pruning point.
- `AuthorityOnChain`: each transaction of the whole history had authority *when it was
  committed*. An invariant over the current whitelist would be weaker: a node may be
  quarantined after its commits.
- `RootsCoverBlocks`, `ApprovalsOutliveRestart`, `ExclusionsSurviveRestart`: three
  facts that depend on which operations save, and in which order pruning cuts. The
  first counts from the end: the k-th payload commit from the end of `raw` is next to
  the k-th root from the end, in memory and in the file.
- `OneEventLostPerRestart`: `save` runs before the event is logged; the audit trail loses
  at most one commit event per restart.
- `ImplementsLedger`: refinement of `Ledger` with `log` and `durable` mapped to the
  histories behind the tips in memory and in the file.

Of overlapping calls (`ChainThreads`): without overlap, any crash leaves a file that
parses, is linked and has every answered commit (`SerialCallsAreDurable`), and the chain can be
replayed (`SerialCallsReplay`); with overlap, blocks still form a tree, in which a hash
has no more children than there are threads, for each block that has the hash
(`ForkWidth`: two calls that append the same transaction to the same hash leave two
blocks with one hash, and every thread can link to it again after each), hashes and raw transactions are of the same commits
(`SameTransactions`), a transaction is queued once (`QueuedOnce`). Without overlap at
most one announced commit is not saved (`OneUnsavedAnnouncement`).

Of the network (`GossipNet`): `SentOnce`, `AuthorityEverywhere`, `DiskIsPrefix`,
`DroppedAfterRow` (safety); `GossipDies`, `QueuedIsSent`, `DeadPeersAreDropped`
(liveness).

Of tasks and searches (`TaskBoard`):

- `HandedOnce`: a task has one agent in its life, restarts included. The other side of
  it is that a task whose agent dies is never handed out again.
- `OwnEntriesOnce`: a search shows pages of its own URLs only, each once.
- `CompletedMeansDone`: no search reads completed while a task it lists is not, in
  memory or on disk. A search can complete before its last URL is listed;
  `add_task` then takes it back.
- `ImplementsCrawl`: refinement of `Crawl`. `known` is what users see of each search,
  `waiting` the tasks that an agent or a result request has, `missed` the early ones. So a
  result comes once or never and goes to the search that lists its task, a search is
  completed only when it has an entry per task, except for a task that was answered between
  its creation and its listing (`app.py:611` finds no search that lists it: a weakness of the
  code, and the property is as strong as it allows), only a new task takes a completion back, and a crash forgets every search or none: it cannot lose one
  result, or bring back one that was lost.
- `SearchCompletes`: without faults a search completes and stays completed, with the
  same exception: nobody checks it again if the early task is the last one. Reading the
  search repairs its status, not the missing entry.

Of the pages (`WebPages`, each a conjunction over the pages of what their modules state):

- `ViewsConverge`: when nothing is in flight a list is what its service has, unless an
  answer was lost, overtaken, empty (204), or a 502 to what was stored, or the page had done
  with the answer before the change was committed. So each page reloads what it changes, and the
  exceptions are exactly where it does not, or too early. A later load that was not
  overtaken ends each of them. `UserSettings` shows the key pair that is
  registered, unless two generations overlapped; the channel of the support page is the
  selected one unless a message was sent from another.
- `EditsLand`: a template is saved under its own name, what Import All sends is of the file
  that is named, a letter that is refused had been outdated, a board that is declared ready
  has the firmware that was shown and an erased one can be flashed again, a text is stored or
  still in its field unless it was typed during a send, a mail recorded as sent went out
  and no mail more often than answers of the relay were lost.
- `RemovedAsAsked`: a blacklisted address stays until a row with its id is deleted on the page,
  unless two of the director's threads overlapped. Ids are given twice, so the row may be another
  address's: what the property leaves out is what the director does wrong.
- `ProfileIsOfSession`: the profile that a tab shows belongs to its token, through any
  order of sign-ins, sign-outs and reloads, with three exceptions. The session of the tab changed
  while a profile was on its way: the context takes it whenever it comes, in a single tab too
  (sign in, sign out, sign in as another, and then the first one's profile). Another tab
  changed the token in `localStorage` before `ProfileCompletion` loaded the profile again, with
  that token. Or a request for the profile failed, and the context kept the one before. A reload of
  the tab ends each of them.

Of search (`SearchPage`): `ResultsAreReadable`, unless two tabs were opened at once (each
then generates a key pair and the last one wins); `ShowsWhatWasAsked`, unless a search was
started while another was busy. Of billing (`BillingPages`): `PaidMeansPaid`;
`CancelledStays`, unless Stripe delivers the event of the payment again.

Each of these says "unless": the exception is a weakness of the code that the model
reproduces, and the property is as strong as the code allows. Where the exception is a hazard
itself, its note in `PROJECT.json` says that no property covers it: the director's and the
historian's lost updates, ids given twice, a profile that comes late, a search during a search,
a letter whose signature is gone, a text typed during a send, queued mail that is cleaned up,
a keyword stored twice and two default signatures.

Each property of a passing run has a mutant: a definition of the model changed the way
a plausible bug would change the code, under which TLC finds the property violated. The
mutated forms stand beside the definitions, marked "Wrong variant".

## Findings

1. **An import is not saved** (`chain_import`). `chain.py:93` calls `save` while
   `_batch_mode` is still set; `save` returns at once. `src/CHANGELOG.md:129` says the
   chain persists "after every mutation". The next commit repairs it, a restart before
   that loses the import.
2. **Overlapping saves lose an answered commit** (`threads_durable`). All saves share
   one `.tmp`: one thread truncates what another is about to rename. The same line of
   the changelog; the result can also be a file that no longer parses, and then the
   node does not start.
3. **A first sync skips the seed's block 0** (`gossip_sync`). The node commits its own
   NODE_AUTH before it syncs, so it asks for blocks above height 0
   (`app.py:127`, `272`). The seed's NODE_AUTH is never fetched, and the seed's payloads are then
   refused. `MS/sp1d3r/README.md:17`: "Chain sync to catch up with the network".
4. **The free search never ends** (`search_trial`). The handler that marks a trial search
   returns from inside the session generator after the flush
   (`MS/cityhall/app/main.py:151`); the commit after the generator's yield
   (`database.py:18`) is not reached and the count is rolled back. The check and the mark
   are separate requests besides (`app.py:667`). `src/d31337m3/WHITEPAPER.md:166`: "New
   users receive 1 free search per day for 7 days".

Noted without a run, because one look or one request shows it.

Services:

- `src/CHANGELOG.md:141` says a peer is removed after "> 3 missed pings"; the code removes
  it at the third failure, and failed sends count as well (`p2p.py:255`, `275`).
- The gossip endpoint submits before any look-up (`app.py:572`), so a transaction that
  comes twice is committed twice; `src/P2P_CHAIN_SYNC_ROADMAP.md:34` says "Gossip dedup (by
  transaction hash)", which holds for sending only.
- A free subscription whose node is offline is never suspended: the update names a column
  that the table lacks and the error is dropped (`MS/banker/app/server.py:430`);
  `src/d31337m3/WHITEPAPER.md:255` says "automatically suspended".
- A repeated webhook activates a cancelled subscription (`server.py:764`);
  `invoice.payment_failed` looks for a Stripe subscription under the id of a checkout session
  and finds none; a payment whose tier was deleted meanwhile activates nothing; saving a
  deleted tier creates it again.
- Keyword matches are added and flushed but never committed (`keywords.py:136-155`), so
  there are none.
- The director's restart and stop are in `do_GET`, behind a branch that answers first
  (`director/app.py:86`, `158`), so the console's buttons always get 404; nothing posts to
  `/services/<name>/health`, so failures stay 0 and `/reconcile` restarts nothing.
- The director gives blacklist ids twice (`director/app.py:321`).
- Director and historian lose what is stored by a request that overlaps another one
  (`director/app.py:316`, `historian/app.py:124`).
- Two clicks on Add store a keyword twice, and adding it a third time is a 500
  (`keywords.py:31`); two signatures saved at once are both the default (`signatures.py:32`).
- cityhall may answer before it has committed (`database.py:18`), so that a page that loads at
  once still shows the state before.
- The token of an account that was closed or suspended stays good until it expires
  (`MS/cityhall/app/auth.py:38-53`).
- The lawyer answers with a 502 to what the historian has stored (`lawyer/app.py:88`).
- The inboxer's clean-up deletes every mail, queued ones included (`app.py:195`), and logs
  "older than 2 hours"; a retry whose API fails tries SMTP as well, unlike the first attempt
  with an API.

Console:

- `apiRequest` parses every answer, so each 204 throws: deletions of brokers, users,
  letters, signatures and keywords succeed and their pages do not reload.
- No handler catches: after an exception spinners and switched-off buttons stay.
- `Register` writes the session to storage only, so a new user lands on `/login`.
- `UserDashboard` asks for the subscription of a user "current", whom nobody is, so super
  searches and the plan in force are never shown.
- `/payment/success`, where Stripe returns, is not a route, and nothing calls
  `/payments/verify` for Stripe; going Back and choosing another plan shows its amount for
  the subscription that exists; inactive tiers are offered; the banner for node operators
  stays after they subscribed.
- A letter is lost with its form if its signature was deleted elsewhere; the
  switch for automatic submission is kept from one letter to the next; a letter that is
  edited while it is being generated is saved over the generated one; a file of brokers that does not parse
  leaves the rows of the one before; a name that another broker has leaves Save off.
- Saving a template brings back one that was deleted meanwhile.
- Generating a key pair twice in a row may show the pair that is not registered; two tabs
  opened at once may encrypt for a key that is no longer stored; a late poll of an earlier
  search replaces a newer one.
- Sending a message empties the field, whatever was typed since, and shows the channel of
  the click; `reverse().find` picks the oldest message.
- A search in `PaymentProcessing` fails on a subscription without a tier name.
- `NetworkConfig`, which has no route, reads `entries` where the director sends `blacklist`.
- `Flasher`'s Finish is never enabled; `BlockchainDetails` keeps its spinner after a load
  that failed; `PlatformHealth` shows no addresses.

## Proofs

The theorems hold for every value of the constants that the assumptions allow. `TLAPS`
checks them to the last leaf; nothing is assumed beyond what is listed below.

| Module | Theorem | Statement |
|---|---|---|
| `AppChainProofs` | `TypeCorrect` | `Spec => []TypeOK` |
| | `ChainAlwaysLinked` | `Spec => []Linked` |
| | `AuthorityAlwaysOnChain` | `Spec => []AuthorityOnChain` |
| | `RootsAlwaysCover` | `Spec => []RootsCoverBlocks` |
| | `ApprovalsAlwaysCover` | `Spec => []ApprovalsOutliveRestart` |
| | `ExclusionsAlwaysSurvive` | `Spec => []ExclusionsSurviveRestart` |
| | `EventsAlmostAllKept` | `Spec => []OneEventLostPerRestart` |
| | `ChainImplementsLedger` | `Spec => ImplementsLedger` |
| `ChainThreadsProofs` | `TypeCorrect` | `Spec => []TypeOK` |
| | `ForksAreBounded` | `Spec => []ForkWidth` |
| | `QueuedAtMostOnce` | `Spec => []QueuedOnce` |
| | `TransactionsAlwaysSame` | `Spec => []SameTransactions` |
| | `SerialCallsAlwaysDurable` | `Spec => []SerialCallsAreDurable` |
| | `SerialCallsAlwaysReplay` | `Spec => []SerialCallsReplay` |
| | `AtMostOneUnsaved` | `Spec => []OneUnsavedAnnouncement` |
| `GossipNetProofs` | `TypeCorrect` | `Spec => []TypeOK` |
| | `SentAtMostOnce` | `Spec => []SentOnce` |
| | `AuthorityIsEverywhere` | `Spec => []AuthorityEverywhere` |
| | `DiskAlwaysPrefix` | `Spec => []DiskIsPrefix` |
| | `PeersDroppedAfterRow` | `Spec => DroppedAfterRow` |
| `TaskBoardProofs` | `TypeCorrect` | `Spec => []TypeOK` |
| | `HandedAtMostOnce` | `Spec => []HandedOnce` |
| | `EntriesAreOwnAndOnce` | `Spec => []OwnEntriesOnce` |
| | `CompletionIsTrue` | `Spec => []CompletedMeansDone` |
| | `CompletionHasResults` | `Spec => []CompletedHasEntries` |
| | `BoardImplementsCrawl` | `Spec => ImplementsCrawl` |
| `WebPagesProofs` | `PagesAreTyped` | `Spec => []TypeOK` |
| | `PagesConverge` | `Spec => []ViewsConverge` |
| | `EditsAreNotMisplaced` | `Spec => []EditsLand` |
| | `OnlyTheRowIsRemoved` | `Spec => []RemovedAsAsked` |
| | `ProfileIsOfItsSession` | `Spec => []ProfileIsOfSession` |
| `BillingPagesProofs` | `TypeCorrect` | `Spec => []TypeOK` |
| | `PaidIsPaid` | `Spec => []PaidMeansPaid` |
| | `CancelledStaysCancelled` | `Spec => []CancelledStays` |
| `SearchPageProofs` | `TypeCorrect` | `Spec => []TypeOK` |
| | `Readable` | `Spec => []ResultsAreReadable` |
| | `ShownIsAsked` | `Spec => []ShowsWhatWasAsked` |

These are all the safety properties that the passing runs check, both refinements, and
`CompletedHasEntries`, which is a part of the second one.

### Assumptions

- `TxsAssumption`, `ServerTxsAssumption`: transactions are records of the right fields.
- `KeepAssumption`: `prune` keeps at least one block. After `prune(0)` the next block
  links to genesis again, and the history behind the tip is gone.
- `GossipNet!BootAssumption`, `ChainThreads!BootAssumption`: what a node submits at boot
  is a NODE_AUTH; `SeedAssumption`: the seed is a node.
- `ThreadsAssumption`: there are finitely many request threads, and at least one.
- `NumUrlsAssumption`, `AdminAssumption`, `AdminUrlsAssumption`: a search has at least one
  URL, and the administrator's tasks are of none of the searches.
- `NoneAssumption`: `None`, which stands for null, is no number and no subscription.
- `MaxPollsAssumption`: a poll asks a natural number of times.
- `WebPages`: there is some name (`NamesAssumption`), administrators have accounts
  (`AdminsAssumption`), and `None` is no name, account or tab and names no dialog
  (`NoneAssumption`, `DialogAssumption`). Files of brokers are finite, whatever `Names` is.
- `MaxFailedPings` is positive. The other bounds are naturals, and no proof depends on
  their size. No set of nodes, transactions, agents, searches, accounts, tabs or names is assumed
  finite.

### One chain (`AppChainProofs`)

The inductive invariant is
`IInv == TypeOK /\ Linked /\ AuthorityOnChain /\ RootsCoverBlocks /\ ApprovalsOutliveRestart`.
The parts after the types need each other. `AuthorityOnChain` is about the history
behind the tip, so it needs `Linked` to know that appending a block to a non-empty chain
extends that history. Everything has to hold of the *file* as well as of memory, since
a restart copies one to the other; likewise for the whitelist, which is why the
invariant says where each whitelisted node comes from and not only that the committed
transactions were authorised.

`AppendBlockLinked` and `EffectSound` show that one `submit`, with any outcome, keeps a
good ledger state good; `PrunedLinked` and `PrunedCovered` show the same of `prune`,
which drops from the front and therefore keeps the tip and its history, and cuts the
roots by a count that leaves one for each payload commit it keeps. Counting from the
end makes that step a statement about the same numbers before and after. `GoodStep` and
`StepInv` combine them, one step per action of `Next`.

`ExclusionsSurviveRestart` is inductive with `IInv`: outside an import, a submit that
takes a sender off the whitelist saves before it returns. An exclusion in the middle of
an import is not saved, and the property does not claim it. `OneEventLostPerRestart` needs
`EventsKept`: the file may be one event behind its own last block, the memory may not.

For the refinement, `SubmitIsLedgerStep` maps a submit to `CommitSaved`, or to `Flush`
(an exclusion is saved, and with it whatever an earlier import left unsaved), or to a
stutter; `SaveIsLedgerStep` maps every other save to `Flush`; a restart is `Lose`, and a
replayed import block is `CommitVolatile`. That a commit is admissible in the abstract
ledger follows from the whitelist part of the invariant.

### Overlapping calls (`ChainThreadsProofs`)

The first part holds however calls overlap. `ForksOK` says of every hash that its
children and the threads that hold it as their previous hash (`Holders`) are together at
most the threads times the blocks that have it, and of the last block that no thread has
used it yet. It has to hold of memory, of every thread's half-made copy and of every
inode, torn or not, since any of them may be what a restart loads. The proof is where
the property got its present form: it used to say that a hash has at most as many
children as there are threads, which a run of three calls does not refute and which is
false. With two threads and five calls TLC gives the counterexample: two calls append
the same transaction to the same hash, and both threads link to that hash once for each
of the two blocks.

The second part is about calls one at a time. `Serial` says: as long as nothing has
overlapped, the state file's inode is complete JSON with every answered commit,
the descriptor of a save never points to it (`Settled`), at most one thread is active
(`Only`), and memory, that thread's copy and the file differ by at most the one
transaction in progress, in the fields that its statement has reached (`Alone`, one
conjunct per label). `SerialCallsAreDurable` alone is not inductive: it says nothing of
the copy that the next `os.replace` puts in the file's place.

`Counted` needs no such condition: for each transaction, the hashes count as many as the
raw transactions and the threads between the two appends together.

### The network (`GossipNetProofs`)

`IInv == ChainsOK /\ RowsOK /\ QueuesOK /\ transit \subseteq Requests`, each of the first
three a relation between the values that one node keeps. `QueueOK` makes `SentOnce`
inductive: queue and batch are injective, disjoint and seen; what is queued or not yet seen
was sent to nobody; what waits in the batch was sent to nobody, except its head to the
peers already reached. `RowOK` relates the failures that the code counts to the failures in
a row since the last success, which `DroppedAfterRow` is about. `ChainOK` is the
authority of memory and file, and that the file's history is a prefix.
The lemmas say what one handler does to one node; a step changes one or two nodes.

### Tasks and searches (`TaskBoardProofs`)

A task passes from hand to hand: the queue, one agent, one result request, one entry.
`OneHand` says that it is with one of them at a time, and was handed out if it has left
the queue. `InOrder` gives where the handler of a search request is, so that a task it has
still to create was handed to nobody. `EntryFirst` says that a result is added before
its task is completed, which `CompletedHasEntries` needs: a completed search has an entry
for each task it lists, except for those that were answered before they were listed. That is
a theorem (`CompletionHasResults`) and the guard of `Crawl!Complete`, so no run checks it by
itself. `FilesAreCurrent` says that each
file is what its store holds after every step, a torn file included: the step that
tears it also restarts the server, which loads it as empty.

For the refinement, `InitIsCrawlInit` and `StepIsCrawlStep` map each action to one of
`Crawl` or to nothing: the handlers of a search to `Accept` and `List`, a poll to `Hand`,
`add_result` to `Deliver`, `check_completion` to `Complete`, lost results and crashes to
`Lose`; what happens to the queue alone is invisible. `OneHand` gives that a task handed
out is new and that a result ends the waiting for it, `InOrder` that the search that lists
a task is the task's own, `EntryFirst` that a search is completed only with its results,
and `FilesAreCurrent` that a crash keeps the searches as they are or none at all.

### The pages of the console (`UserPagesProofs`, `WebPagesProofs`)

A behaviour of `WebPages` stays on one page, so the invariant is a conjunction of one
invariant per page (`SessionInv`, `UsersInv`, ...). For each of the thirteen, `XInit`,
`XNext` and `XShows` are the three facts: the invariant holds at first, every step of the
page keeps it, and what the page promises follows. They share what comes before them:
what `Handled`, `Served`, `Request` and `Outdated` of `Fetch` do to a sequence of requests
(`HandledFacts`, `ServedFacts`, `SentFacts`, `OutdatedFacts`), and `Closed`, a set of
requests with the arguments and answers that a page's requests may have, late or not.

*Lists.* That a page shows what its service has once all is quiet is not inductive: it says
nothing while requests are under way. `Tracks` does. It says that the page shows what the
service has, or missed an answer (`stale`), or a load is under way, or a change was
made whose handler has yet to react and will load again (`Pending`); and of each load that was answered in time
(`Fresh`) that its answer is what the service has, or that such a change or a later load
follows. With nothing in flight the alternatives fall away and `ViewConverges` is left.
The lemmas `TracksSent`, `TracksServed`, `TracksLoad`, `TracksLoaded` and `TracksOutdated` carry it
through one request sent, served, answered or overtaken, whatever the page. A service changes
what a page follows when it commits, and `OvertakenTracks` is about that step: answers given before it are late
from then on, and either a handler is still to react to such an answer or the list is noted as
stale (`StaleAfterCommit`). Which request made the change does not matter, so nothing relates
`server.open` to the requests under way. `OvertakenOthers` says that the other lists of the page
lose nothing by it. `UserDocuments`
loads letters and signatures together, so its invariant follows each half of
the answer (`HalfTracks`). The pages of monitors follow a service that others change, so
theirs say besides that no answer is ahead of the service, and whose data the last load is
(`MonitorAims`).

*Edits.* `EditsLand` is one argument per page. An import has the rows of the file that is
named while no reader is to come (`BrokersNamed`). A message under way is the text in the field,
or of one that was typed during a send (`Posted`), and a text that was typed is in the field
or stored (`Kept`). `Attempt` says of flashing which firmware each stage may hold and that the board is
not done before the last. `MailRow` counts the copies of a mail against the answers that the
relay lost. A letter's signature is known to the service until one is deleted
(`DocumentsKept`).

*Keys.* Requests for a key pair that overlap are marked (`SettingsAlone`), the answer to one
that did not is the pair that is registered (`SettingsNewest`), and a pair that is shown and
not registered is about to be replaced by one on its way (`SettingsKept`).

*Blacklist.* `RemovedAsAsked` speaks of the director's file. While no two threads overlap
(`Alone`), the one at work has the file as its snapshot, and a request to delete an id is one that
was asked for; so what it writes has every address whose id nobody asked to delete (`StillListed`).

*Rows.* The types say what a commit may bring: the rows of `server.open` are typed as those it
replaces or adds, and their ids are of numbers already given. Nothing says that two rows differ,
since cityhall does not see to it. That no letter names a signature that is gone needs both sides of the
foreign key: a deletion under way is of a signature that no letter names, stored or about to be.

*Session.* `ProfileOK` allows a tab a profile of another account only while the tab asks for
its own, or if a profile for another token was on its way or did not come (`unsure`).

### Subscriptions and payments (`BillingPagesProofs`)

The page believes answers that may be late, lost or overtaken, so the invariant says of
each request on its way what its answer may rely on: `Statusful`, `Paymentful`,
`Createful` and `Verifyful` are the promises of one kind of request each. Two things make
them inductive. `PairOK` relates requests to each other: a page has one live request of a
kind, no subscription is verified twice, and none is verified whose creation the page has
still to learn of. `SubOK` and `Unproven` say what the banker's rows look like: a payment
that a user can still prove belongs to a row that was never active, so it cannot be one
that was cancelled, and a Stripe row that was active has had its event delivered, so an
event for a cancelled row is a second one. That is why `CancelledStays` holds with
exactly that exception.

`HandledOK`, `SentOK` and `ServedOK` carry the invariant through the sequence of requests;
`Grown` is what every step of the services does to the subscriptions, and `ReqGrown` and
`ViewGrown` say that requests and page survive it.

### Encrypted search (`SearchPageProofs`)

`ResultsAreReadable` is about one key. While no two tabs were opened at once, a loading tab
has read what is stored, so a pair is generated only when nothing is stored; `NothingBefore`
concludes that then no search, request, decryption or text exists yet, so the new pair is
the only one that anything can be of. `OneKey` and the second part of `ServerOK` say that
tabs and searches know no other.

`ShowsWhatWasAsked` is about stray answers. `Shown` says that all that a tab shows, polls or
decrypts is of the search it was asked for, unless it was busy at that moment (`crossed`).
It is not inductive without the requests: `Here` says that a tab that waits for a new search
shows nothing (`Waits`), and that every live poll's search is still polled; `Unpolled` and
`PairOK` say that a created search is answered to one request only and polled by nobody
before, so that a poll ends with its own answer.

### Only model-checked

- Liveness (`GossipDies`, `QueuedIsSent`, `DeadPeersAreDropped`, `SearchCompletes`): out
  of the prover's reach, as is whatever needs `ENABLED`.
- That `Outcome` and the other operators are what the code computes is a matter of
  reading; what they preserve is proved.

## Not modelled

- Bytes: hex and JSON encoding, key formats, encryption of payloads, the PII regular
  expressions, HTML scraping and ranking.
- The director registration at boot, logging, dashboards, CORS, rate limiting of polls.
- `PeerStore.prune_stale` (no caller) and a torn `peers.json` (loaded as no peers).
- `TaskQueue.prune` (no caller), task priorities and schedules (no caller sets them),
  super and system searches (one request, no tasks).
- Picaso and spiderwire, the crawler worker, the search engines, the static pages, the
  mobile applications: no protocol and no state that two parties share.
- Of the pages: layout, wording, pagination, form fields beyond what a property tells
  apart; `NodeManagement`'s tabs of peers and live nodes; `SupportChat`'s tab for mail;
  timers that hide messages.
- The seven days of the trial, the expiry of codes and tokens, monthly counters: one
  day is enough for the trial's finding, and no page reaches the others.
- Two failed verifications of one subscription at once, which the banker counts as one
  (`server.py:194`): the console switches its button off meanwhile. A super or system search that
  fails after its record was created, which stays pending (`app.py:790`).
- Of the services behind the pages: a commit of cityhall succeeds (except that of a deletion
  of a user, which may find rows in other tables); what else can go wrong with a statement, such as
  a race for a unique name lost, is a request that fails. A failed request
  changes nothing later. Two letters saved at the same instant do not mix their columns, and two
  threads do not mix the bytes of one file: a reader who finds the historian's file half
  written gets a 502. A verification code is committed before its user can type it.
- Pages do not run at the same time, except for the tabs of `WebSession` and `SearchPage`;
  other administrators are modelled where a service serves threads (`NodesPage`) or others
  report (`MonitorPages`), not on the pages of lists.

## Plan

1. *(done)* `ChainRules`, `AppChain`, `Ledger`, `ChainThreads`, `GossipNet` and their
   runs; `AppChainProofs`.
2. *(done)* `TaskBoard` and its run.
3. *(done)* The web console and the services behind it: `Fetch`, the pages in `WebPages`,
   `SearchPage`, `BillingPages` and their runs.
4. *(done)* Proofs of every safety property of `AppChain`, `ChainThreads`, `GossipNet` and
   `TaskBoard`.
5. *(done)* Proofs of every safety property of the pages: `BillingPages` and `SearchPage`,
   which keep money and keys, then the thirteen of `WebPages`.
6. *(done)* `Crawl`, the abstract specification of `TaskBoard`, and its refinement.

What could follow: the super and system searches with their monthly counters, and the
suspension of a free subscription whose node is offline, once their code has the column and
the error handling that it lacks today.
