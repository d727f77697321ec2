----------------------------- MODULE TaskBoard -----------------------------
(***************************************************************************)
(* A crawl search: the search handler creates one task per URL, node agents*)
(* poll for tasks and post their results, and the search is completed when *)
(* its tasks are (sp1d3r/task_queue.py, sp1d3r/search_store.py, the        *)
(* handlers of sp1d3r/app.py, node-agent/agent.py).                        *)
(*                                                                         *)
(* Each store has a lock and a file, and each of its operations saves      *)
(* before it releases the lock; the handlers hold neither lock between two *)
(* operations and interleave there.  A file is written in place, so a crash*)
(* in the middle of a save leaves one that does not parse, which _load     *)
(* takes for no entries at all.                                            *)
(*                                                                         *)
(* Abstractions: identifiers are fresh by construction (a uuid); created_at*)
(* is the order of creation; all searches are of one requester; an entry is*)
(* a result or a failure.  The payload that a result commits to the chain  *)
(* is left out (ChainThreads has the commits of request threads), and so is*)
(* the rate limit of polls, which an agent that polls every ten seconds    *)
(* does not reach.  Super and system searches have no tasks.  The result of*)
(* a task is posted by the agent that was handed it, and by nobody else.   *)
(***************************************************************************)
EXTENDS Integers, Sequences, SequencesExt, FiniteSets

CONSTANTS
  Searches,      \* identifiers of the searches that users may post
  NumUrls,       \* URLs in each
  Agents,        \* node agents
  Admin,         \* stands for the search of a task that an administrator created
  AdminUrls,     \* bound: the tasks that the administrator creates
  MaxFaults      \* bound: lost answers, lost results and crashes

ASSUME NumUrlsAssumption == NumUrls \in Nat \ {0}
ASSUME AdminAssumption == Admin \notin Searches
ASSUME AdminUrlsAssumption == AdminUrls \subseteq 1..NumUrls
ASSUME MaxFaultsAssumption == MaxFaults \in Nat

TaskIds == [search : Searches \cup {Admin}, url : 1..NumUrls]

VARIABLES
  tasks,         \* TaskQueue._tasks: from the created tasks to status and age
  tasksFile,     \* tasks.json
  searches,      \* SearchStore._searches: from the created ones to their fields
  searchesFile,  \* searches.json
  creating,      \* where the handler of each POST /v1/search is
  holding,       \* the tasks that each agent works on (at most one)
  handlers,      \* the POST /v1/tasks/result being served
  handed,        \* history: how often each task was handed out
  early,         \* history: tasks whose result came before they were listed
  faults         \* history: faults so far

board == <<tasks, tasksFile>>
store == <<searches, searchesFile>>
vars == <<board, store, creating, holding, handlers, handed, early, faults>>

-----------------------------------------------------------------------------
(* The two stores. *)

Extended(f, x, v) == [y \in DOMAIN f \cup {x} |-> IF y = x THEN v ELSE f[y]]

SaveTasks(t) == tasks' = t /\ tasksFile' = t

SaveSearches(s) == searches' = s /\ searchesFile' = s

\* TaskQueue.create.
Created(id) ==
  Extended(tasks, id, [status |-> "pending", age |-> Cardinality(DOMAIN tasks)])

Pending == {id \in DOMAIN tasks : tasks[id].status = "pending"}

Oldest(ids) == CHOOSE id \in ids : \A other \in ids : tasks[id].age <= tasks[other].age

\* Wrong variant: the assignment is not saved.
AssignUnsaved(id) ==
  /\ tasks' = [tasks EXCEPT ![id].status = "assigned"]
  /\ UNCHANGED tasksFile

\* TaskQueue.assign_next, for the pending task that it chose.
Assign(id) == SaveTasks([tasks EXCEPT ![id].status = "assigned"])

\* Wrong variant: a search that was completed stays so.
ListedQuietly(s, id) ==
  IF id \in searches[s].listed THEN searches
  ELSE [searches EXCEPT ![s].listed = @ \cup {id},
          ![s].status = IF @ = "completed" THEN @ ELSE "crawling"]

\* SearchStore.add_task: also of a search that was completed without this task.
Listed(s, id) ==
  IF id \in searches[s].listed THEN searches
  ELSE [searches EXCEPT ![s].listed = @ \cup {id}, ![s].status = "crawling"]

\* Wrong variant: so is a search without tasks.
AllOrNone(s) ==
  \A id \in searches[s].listed :
    id \in DOMAIN tasks /\ tasks[id].status = "completed"

AllCompleted(s) ==
  /\ searches[s].listed # {}
  /\ \A id \in searches[s].listed :
       id \in DOMAIN tasks /\ tasks[id].status = "completed"

\* SearchStore.check_completion.  The tasks are read one by one under the queue's
\* lock, but a completed one stays completed.
Checked(s) ==
  IF s \in DOMAIN searches /\ AllCompleted(s)
  THEN [searches EXCEPT ![s].status = "completed"] ELSE searches

-----------------------------------------------------------------------------
(* POST /v1/search and POST /v1/tasks/create. *)

NewSearch == [status |-> "pending", listed |-> {}, entries |-> <<>>]

\* SearchStore.create.
Search(s) ==
  /\ creating[s].at = "no"
  /\ SaveSearches(Extended(searches, s, NewSearch))
  /\ creating' = [creating EXCEPT ![s] = [at |-> "create", url |-> 1]]
  /\ UNCHANGED <<board, holding, handlers, handed, early, faults>>

\* task_queue.create for the next URL.
CreateTask(s) ==
  /\ creating[s].at = "create"
  /\ SaveTasks(Created([search |-> s, url |-> creating[s].url]))
  /\ creating' = [creating EXCEPT ![s].at = "list"]
  /\ UNCHANGED <<store, holding, handlers, handed, early, faults>>

\* search_store.add_task; after the last URL the user gets the answer.
ListTask(s) ==
  /\ creating[s].at = "list"
  /\ SaveSearches(Listed(s, [search |-> s, url |-> creating[s].url]))
  /\ creating' = [creating EXCEPT ![s] =
       IF @.url = NumUrls THEN [at |-> "over", url |-> NumUrls]
       ELSE [at |-> "create", url |-> @.url + 1]]
  /\ UNCHANGED <<board, holding, handlers, handed, early, faults>>

\* An administrator's task, of no search.
CreateAdminTask(url) ==
  LET id == [search |-> Admin, url |-> url]
  IN /\ id \notin DOMAIN tasks /\ handed[id] = 0
     /\ SaveTasks(Created(id))
     /\ UNCHANGED <<store, creating, holding, handlers, handed, early, faults>>

\* GET /v1/search/{id} checks the search before it shows it.
Read(s) ==
  /\ s \in DOMAIN searches
  /\ SaveSearches(Checked(s))
  /\ UNCHANGED <<board, creating, holding, handlers, handed, early, faults>>

-----------------------------------------------------------------------------
(* The agents' task_loop. *)

HandOut(n) ==
  LET id == Oldest(Pending)
  IN /\ holding[n] = {} /\ Pending # {}
     /\ Assign(id)
     /\ handed' = [handed EXCEPT ![id] = @ + 1]

\* GET /v1/tasks/pending.
Poll(n) ==
  /\ HandOut(n)
  /\ holding' = [holding EXCEPT ![n] = {Oldest(Pending)}]
  /\ UNCHANGED <<store, creating, handlers, early, faults>>

\* The task is assigned but the answer does not arrive.
PollLost(n) ==
  /\ faults < MaxFaults
  /\ HandOut(n)
  /\ faults' = faults + 1
  /\ UNCHANGED <<store, creating, holding, handlers, early>>

\* Wrong variant: a result is posted again when its answer does not come in time.
PostAgain(n) ==
  \E id \in holding[n] :
    /\ holding' \in {holding, [holding EXCEPT ![n] = {}]}
    /\ handlers' = IF id \in DOMAIN tasks
                   THEN handlers \cup {[task |-> id, at |-> "result"]} ELSE handlers
    /\ UNCHANGED <<board, store, creating, handed, early, faults>>

\* The result reaches the server, which looks the task up.  The agent does not
\* wait for more than ten seconds, and never posts a result again.
Post(n) ==
  \E id \in holding[n] :
    /\ holding' = [holding EXCEPT ![n] = {}]
    /\ handlers' = IF id \in DOMAIN tasks
                   THEN handlers \cup {[task |-> id, at |-> "result"]} ELSE handlers
    /\ UNCHANGED <<board, store, creating, handed, early, faults>>

\* The agent dies, or its request fails: the task loop goes on with the next one.
PostLost(n) ==
  /\ faults < MaxFaults /\ holding[n] # {}
  /\ holding' = [holding EXCEPT ![n] = {}]
  /\ faults' = faults + 1
  /\ UNCHANGED <<board, store, creating, handlers, handed, early>>

-----------------------------------------------------------------------------
(* POST /v1/tasks/result. *)

Goto(h, label) == handlers' = (handlers \ {h}) \cup {[h EXCEPT !.at = label]}

\* Wrong variant: the result goes to every search of the requester.
AnySearch(s, id) == TRUE

\* `task_id in search.task_ids`.
Mentions(s, id) == id \in searches[s].listed

\* The page is fetched, and its result or failure added to the task's search.
AddResult(h) ==
  LET own == {s \in DOMAIN searches : Mentions(s, h.task)}
  IN /\ h.at = "result"
     /\ SaveSearches([s \in DOMAIN searches |->
          IF s \in own THEN [searches[s] EXCEPT !.entries = Append(@, h.task)]
          ELSE searches[s]])
     /\ early' = IF own = {} THEN early \cup {h.task} ELSE early
     /\ Goto(h, "complete")
     /\ UNCHANGED <<board, creating, holding, handed, faults>>

\* Wrong variant: the search is left to its readers.
CompleteOnly(h) ==
  /\ h.at = "complete"
  /\ SaveTasks([tasks EXCEPT ![h.task].status = "completed"])
  /\ handlers' = handlers \ {h}
  /\ UNCHANGED <<store, creating, holding, handed, early, faults>>

\* task_queue.complete, whatever the task's status is.
Complete(h) ==
  /\ h.at = "complete"
  /\ SaveTasks([tasks EXCEPT ![h.task].status = "completed"])
  /\ Goto(h, "check")
  /\ UNCHANGED <<store, creating, holding, handed, early, faults>>

\* check_completion of the search that lists the task.
Check(h) ==
  LET s == h.task.search
  IN /\ h.at = "check"
     /\ SaveSearches(IF s \in DOMAIN searches /\ Mentions(s, h.task)
                     THEN Checked(s) ELSE searches)
     /\ handlers' = handlers \ {h}
     /\ UNCHANGED <<board, creating, holding, handed, early, faults>>

Serve(h) == AddResult(h) \/ Complete(h) \/ Check(h)

-----------------------------------------------------------------------------
(* Crashes. *)

\* A step that writes tasks.json, or searches.json, may be under way.
WritingTasks ==
  \/ \E s \in Searches : creating[s].at = "create"
  \/ \E n \in Agents : holding[n] = {} /\ Pending # {}
  \/ \E h \in handlers : h.at = "complete"

WritingSearches ==
  \/ \E s \in Searches : creating[s].at \in {"no", "list"}
  \/ \E h \in handlers : h.at = "result"
  \/ \E s \in DOMAIN searches : Checked(s) # searches

\* The server dies and starts again; a file that was being written reads as empty.
Crash(tasksTorn, searchesTorn) ==
  /\ faults < MaxFaults
  /\ tasksTorn => WritingTasks
  /\ searchesTorn => WritingSearches
  /\ SaveTasks(IF tasksTorn THEN <<>> ELSE tasksFile)
  /\ SaveSearches(IF searchesTorn THEN <<>> ELSE searchesFile)
  /\ creating' = [s \in Searches |->
       IF creating[s].at = "no" THEN creating[s] ELSE [creating[s] EXCEPT !.at = "over"]]
  /\ handlers' = {}
  /\ faults' = faults + 1
  /\ UNCHANGED <<holding, handed, early>>

Init ==
  /\ tasks = <<>> /\ tasksFile = <<>>
  /\ searches = <<>> /\ searchesFile = <<>>
  /\ creating = [s \in Searches |-> [at |-> "no", url |-> 1]]
  /\ holding = [n \in Agents |-> {}]
  /\ handlers = {}
  /\ handed = [id \in TaskIds |-> 0]
  /\ early = {}
  /\ faults = 0

Next ==
  \/ \E s \in Searches : Search(s) \/ CreateTask(s) \/ ListTask(s) \/ Read(s)
  \/ \E url \in AdminUrls : CreateAdminTask(url)
  \/ \E n \in Agents : Poll(n) \/ PollLost(n) \/ Post(n) \/ PostLost(n)
  \/ \E h \in handlers : Serve(h)
  \/ \E tasksTorn, searchesTorn \in BOOLEAN : Crash(tasksTorn, searchesTorn)

\* Handlers run to their end and agents keep polling; nobody has to search, to read
\* a search, or to create tasks.
Fairness ==
  /\ \A s \in Searches : WF_vars(CreateTask(s) \/ ListTask(s))
  /\ \A n \in Agents : WF_vars(Poll(n)) /\ WF_vars(Post(n))
  /\ \A id \in TaskIds : WF_vars(\E h \in handlers : h.task = id /\ Serve(h))

Spec == Init /\ [][Next]_vars /\ Fairness

-----------------------------------------------------------------------------
(* Properties. *)

\* Type invariant of the stores, the handlers and the agents.
TypeOK ==
  /\ DOMAIN tasks \subseteq TaskIds
  /\ \A id \in DOMAIN tasks : tasks[id].status \in {"pending", "assigned", "completed"}
  /\ DOMAIN searches \subseteq Searches
  /\ \A s \in DOMAIN searches :
       /\ searches[s].status \in {"pending", "crawling", "completed"}
       /\ searches[s].listed = {} <=> searches[s].status = "pending"
       /\ Range(searches[s].entries) \subseteq TaskIds
  /\ \A n \in Agents : holding[n] \subseteq TaskIds /\ Cardinality(holding[n]) <= 1

\* A task is handed to one agent in its life, also when the server restarts between
\* the assignment and the result (task_queue.py:72-75).
HandedOnce == \A id \in TaskIds : handed[id] <= 1

\* What a search shows is of its own URLs, each at most once, however handlers
\* interleave and crash (app.py:611, search_store.py:118).
OwnEntriesOnce ==
  \A s \in DOMAIN searches :
    /\ IsInjective(searches[s].entries)
    /\ \A id \in Range(searches[s].entries) : id.search = s

DoneIn(queue, found) ==
  \A s \in DOMAIN found : found[s].status = "completed" =>
    \A id \in found[s].listed \cap DOMAIN queue : queue[id].status = "completed"

\* A search reads "completed" only while every task it lists and the queue still has
\* is, in memory and in the files, although completion may come before the last task is
\* listed and is then taken back (search_store.py:111, 151).
CompletedMeansDone == DoneIn(tasks, searches) /\ DoneIn(tasksFile, searchesFile)

Crawled(s) ==
  [listed |-> searches[s].listed, results |-> Range(searches[s].entries),
   completed |-> searches[s].status = "completed"]

Known == [s \in DOMAIN searches |-> Crawled(s)]

HandedOut == {id \in TaskIds : handed[id] > 0}

\* The tasks that an agent or a result request has.
Waiting ==
  (UNION {holding[n] : n \in Agents})
    \cup {h.task : h \in {g \in handlers : g.at = "result"}}

C == INSTANCE Crawl WITH
  Jobs <- TaskIds, known <- Known, handed <- HandedOut, waiting <- Waiting, missed <- early

\* Queue, store, handlers and agents together crawl as they should: each task is handed
\* out once, its result comes once or never, to its own search, which is completed when
\* all it lists have had theirs; and a crash forgets all searches or none
\* (task_queue.py:72-75, search_store.py:111-151, app.py:611-622).
ImplementsCrawl == C!CSpec

\* Without faults a search ends up completed for good and nobody needs to read it,
\* unless one of its tasks was answered before it was listed (app.py:620-622).
SearchCompletes ==
  \A s \in Searches :
    s \in DOMAIN searches ~>
      [](\/ faults > 0
         \/ \E id \in early : id.search = s
         \/ /\ s \in DOMAIN searches
            /\ searches[s].status = "completed"
            /\ Cardinality(searches[s].listed) = NumUrls)
=============================================================================
