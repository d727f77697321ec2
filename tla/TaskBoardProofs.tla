-------------------------- MODULE TaskBoardProofs --------------------------
(***************************************************************************)
(* Proofs about TaskBoard for any searches, URLs, agents and number of     *)
(* faults.  A task passes from hand to hand: the queue, one agent, one     *)
(* result request, one entry.  The inductive invariant says that it is     *)
(* with one of them at a time.                                             *)
(***************************************************************************)
EXTENDS TaskBoard, TLAPS, SequenceTheorems, FiniteSetTheorems

TaskRecords == [status : {"pending", "assigned", "completed"}, age : Nat]

SearchRecords ==
  [status : {"pending", "crawling", "completed"}, listed : SUBSET TaskIds, entries : Seq(TaskIds)]

Types ==
  /\ tasks \in [DOMAIN tasks -> TaskRecords] /\ DOMAIN tasks \subseteq TaskIds
  /\ IsFiniteSet(DOMAIN tasks)
  /\ searches \in [DOMAIN searches -> SearchRecords] /\ DOMAIN searches \subseteq Searches
  /\ \A s \in DOMAIN searches : searches[s].listed = {} <=> searches[s].status = "pending"
  /\ creating \in [Searches -> [at : {"no", "create", "list", "over"}, url : 1..NumUrls]]
  /\ holding \in [Agents -> SUBSET TaskIds]
  /\ \A n \in Agents : \A id, other \in holding[n] : id = other
  /\ handlers \subseteq [task : TaskIds, at : {"result", "complete", "check"}]
  /\ handed \in [TaskIds -> Nat]
  /\ early \subseteq TaskIds
  /\ faults \in Nat

\* Every operation saves what it changed.
FilesAreCurrent == tasksFile = tasks /\ searchesFile = searches

\* The handler of its search has still to create task id.
NotYet(id) ==
  /\ id.search \in Searches
  /\ \/ creating[id.search].at = "no"
     \/ creating[id.search].at = "create" /\ id.url >= creating[id.search].url
     \/ creating[id.search].at = "list" /\ id.url > creating[id.search].url

\* The handlers of searches create and list their tasks in the order of the URLs.
InOrder ==
  /\ \A id \in TaskIds : NotYet(id) => id \notin DOMAIN tasks /\ handed[id] = 0
  /\ \A s \in Searches :
       /\ creating[s].at = "no" => s \notin DOMAIN searches
       /\ creating[s].at \in {"create", "list"} => s \in DOMAIN searches
  /\ \A s \in DOMAIN searches : \A id \in searches[s].listed :
       /\ id.search = s
       /\ creating[s].at \in {"create", "list"} => id.url < creating[s].url

InEntries(id) == \E s \in DOMAIN searches : id \in Range(searches[s].entries)

\* A task is in the queue, with one agent, in one result request before its entry is
\* added, or among the entries, and it was handed out unless it is in the queue.
OneHand ==
  /\ \A id \in TaskIds : handed[id] <= 1
  /\ \A id \in Pending : handed[id] = 0
  /\ \A n \in Agents : \A id \in holding[n] :
       /\ handed[id] = 1 /\ ~InEntries(id)
       /\ \A m \in Agents : id \in holding[m] => m = n
       /\ \A h \in handlers : h.task # id
  /\ \A h \in handlers :
       /\ handed[h.task] = 1
       /\ h.at = "result" => ~InEntries(h.task)
       /\ \A g \in handlers : g.task = h.task => g = h
  /\ \A s \in DOMAIN searches : \A id \in Range(searches[s].entries) :
       handed[id] = 1 /\ id.search = s

\* Where the result of task id has gone, if its search is still there.
Delivered(id) ==
  id.search \in DOMAIN searches =>
    id \in early \/ id \in Range(searches[id.search].entries)

\* A result is added before its task is completed.
EntryFirst ==
  /\ \A h \in handlers : h.at # "result" => Delivered(h.task)
  /\ \A id \in DOMAIN tasks : tasks[id].status = "completed" => Delivered(id)

\* A completed search has an entry for each listed task, except for a task that was
\* answered before it was listed: its result went to no search (app.py:611).
CompletedHasEntries ==
  \A s \in DOMAIN searches : searches[s].status = "completed" =>
    searches[s].listed \subseteq Range(searches[s].entries) \cup early

IInv ==
  /\ Types
  /\ FilesAreCurrent
  /\ InOrder
  /\ OneHand
  /\ OwnEntriesOnce
  /\ DoneIn(tasks, searches)
  /\ EntryFirst
  /\ CompletedHasEntries

-----------------------------------------------------------------------------
(* The operators of the stores. *)

\* An entry more.
LEMMA EntryAdded ==
  ASSUME NEW S, NEW q \in Seq(S), IsInjective(q), NEW e \in S, e \notin Range(q)
  PROVE  Range(Append(q, e)) = Range(q) \cup {e} /\ IsInjective(Append(q, e))
<1> DEFINE r == Append(q, e)
<1>1. /\ Len(q) \in Nat /\ DOMAIN q = 1..Len(q) /\ DOMAIN r = 1..(Len(q) + 1)
      /\ r[Len(q) + 1] = e /\ \A i \in 1..Len(q) : r[i] = q[i]
  OBVIOUS
<1> HIDE DEF r
<1>2. Range(r) = Range(q) \cup {e}
  BY <1>1 DEF Range
<1>3. IsInjective(r)
  BY <1>1 DEF Range, IsInjective
<1> QED
  BY <1>2, <1>3 DEF r

\* Ages are natural numbers, so there is an oldest pending task.
LEMMA OldestIsPending ==
  ASSUME Types, Pending # {}
  PROVE  Oldest(Pending) \in Pending
<1> DEFINE Ages == {tasks[id].age : id \in Pending}
<1>1. Ages \subseteq Nat /\ Ages # {}
  BY DEF Types, TaskRecords, Pending
<1> DEFINE R == {ss \in Nat \X Nat : ss[1] < ss[2]}
<1>2. IsWellFoundedOn(R, Nat)
  BY NatLessThanWellFounded DEF OpToRel
<1>b. \A x, y \in Nat : x < y => <<x, y>> \in R
  OBVIOUS
<1> HIDE DEF R, Ages
<1>3. PICK a \in Ages : \A b \in Ages : <<b, a>> \notin R
  BY <1>1, <1>2, WFMin
<1>a. \A b \in Ages : a <= b
  <2> TAKE b \in Ages
  <2>1. a \in Nat /\ b \in Nat
    BY <1>1
  <2>2. ~(b < a)
    BY <1>3, <1>b, <2>1, Zenon
  <2> QED
    BY <2>1, <2>2
<1>c. PICK id \in Pending : a = tasks[id].age
  BY DEF Ages
<1>d. \A other \in Pending : tasks[other].age \in Ages
  BY DEF Ages
<1>4. \E x \in Pending : \A other \in Pending : tasks[x].age <= tasks[other].age
  BY <1>a, <1>c, <1>d
<1> QED
  BY <1>4 DEF Oldest

\* A task created is pending and younger than the others.
LEMMA CreatedType ==
  ASSUME Types, NEW id \in TaskIds
  PROVE  /\ Created(id) \in [DOMAIN Created(id) -> TaskRecords]
         /\ DOMAIN Created(id) = DOMAIN tasks \cup {id}
         /\ IsFiniteSet(DOMAIN Created(id))
         /\ Created(id)[id].status = "pending"
         /\ \A other \in DOMAIN tasks \ {id} : Created(id)[other] = tasks[other]
<1>1. Cardinality(DOMAIN tasks) \in Nat /\ IsFiniteSet(DOMAIN tasks \cup {id})
  BY FS_CardinalityType, FS_AddElement DEF Types
<1> QED
  BY <1>1 DEF Types, Created, Extended, TaskRecords


-----------------------------------------------------------------------------
(* Polls and posts. *)

\* Handing out moves the oldest task from the queue to agent n, or to nobody.
LEMMA HandOutKeepsInv ==
  ASSUME IInv, NEW n \in Agents, HandOut(n),
         UNCHANGED <<store, creating, handlers, early>>, faults' \in Nat,
         holding' \in {holding, [holding EXCEPT ![n] = {Oldest(Pending)}]}
  PROVE  IInv'
<1> DEFINE id == Oldest(Pending)
<1>1. id \in Pending /\ id \in DOMAIN tasks /\ id \in TaskIds /\ handed[id] = 0
  BY OldestIsPending DEF HandOut, IInv, Types, OneHand, Pending
<1> HIDE DEF id
<1>2. /\ tasks' = [tasks EXCEPT ![id].status = "assigned"] /\ tasksFile' = tasks'
      /\ handed' = [handed EXCEPT ![id] = @ + 1]
      /\ holding[n] = {}
      /\ holding' \in {holding, [holding EXCEPT ![n] = {id}]}
      /\ searches' = searches /\ searchesFile' = searchesFile /\ creating' = creating
      /\ handlers' = handlers /\ early' = early
  BY DEF HandOut, Assign, SaveTasks, store, id
<1>3. /\ DOMAIN tasks' = DOMAIN tasks
      /\ tasks'[id].status = "assigned" /\ tasks[id].status = "pending"
      /\ \A other \in DOMAIN tasks \ {id} : tasks'[other] = tasks[other]
  BY <1>1, <1>2 DEF IInv, Types, TaskRecords, Pending
<1>4. Types'
  <2>1. tasks' \in [DOMAIN tasks' -> TaskRecords] /\ DOMAIN tasks' \subseteq TaskIds
    BY <1>1, <1>2, <1>3 DEF IInv, Types, TaskRecords
  <2>2. holding' \in [Agents -> SUBSET TaskIds]
    BY <1>1, <1>2 DEF IInv, Types
  <2>3. \A m \in Agents : \A x, y \in holding'[m] : x = y
    BY <1>1, <1>2 DEF IInv, Types
  <2>4. handed' \in [TaskIds -> Nat]
    BY <1>1, <1>2 DEF IInv, Types
  <2> QED
    BY <1>2, <1>3, <2>1, <2>2, <2>3, <2>4 DEF IInv, Types
<1>5. FilesAreCurrent'
  BY <1>2 DEF IInv, FilesAreCurrent
<1>6. InOrder'
  BY <1>1, <1>2, <1>3 DEF IInv, Types, InOrder, NotYet
<1>7. OneHand'
  BY SMTT(30), <1>1, <1>2, <1>3 DEF IInv, Types, OneHand, InEntries, Pending
<1>8. OwnEntriesOnce'
  BY <1>2 DEF IInv, OwnEntriesOnce
<1>9. DoneIn(tasks, searches)'
  BY <1>2, <1>3 DEF IInv, DoneIn
<1>10. EntryFirst'
  BY <1>1, <1>2, <1>3 DEF IInv, EntryFirst, Delivered
<1>11. CompletedHasEntries'
  BY <1>2 DEF IInv, CompletedHasEntries
<1> QED
  BY <1>4, <1>5, <1>6, <1>7, <1>8, <1>9, <1>10, <1>11 DEF IInv

\* A post passes the agent's task on to a result request, or drops it.
LEMMA PostKeepsInv ==
  ASSUME IInv, NEW n \in Agents, NEW id \in holding[n],
         holding' = [holding EXCEPT ![n] = {}],
         handlers' \in {handlers, handlers \cup {[task |-> id, at |-> "result"]}},
         UNCHANGED <<board, store, creating, handed, early>>, faults' \in Nat
  PROVE  IInv'
<1>1. id \in TaskIds /\ \A other \in holding[n] : other = id
  BY DEF IInv, Types
<1>2. /\ tasks' = tasks /\ tasksFile' = tasksFile
      /\ searches' = searches /\ searchesFile' = searchesFile
      /\ creating' = creating /\ handed' = handed /\ early' = early
  BY DEF board, store
<1>3. \A m \in Agents : holding'[m] = IF m = n THEN {} ELSE holding[m]
  BY DEF IInv, Types
<1>4. Types'
  BY <1>1, <1>2, <1>3 DEF IInv, Types
<1>5. FilesAreCurrent' /\ InOrder' /\ OwnEntriesOnce' /\ DoneIn(tasks, searches)'
      /\ CompletedHasEntries'
  BY <1>2 DEF IInv, FilesAreCurrent, InOrder, NotYet, OwnEntriesOnce, DoneIn, CompletedHasEntries
<1>6. OneHand'
  BY <1>1, <1>2, <1>3 DEF IInv, OneHand, InEntries, Pending
<1>7. EntryFirst'
  BY <1>2 DEF IInv, EntryFirst, Delivered
<1> QED
  BY <1>4, <1>5, <1>6, <1>7 DEF IInv

-----------------------------------------------------------------------------
(* The result request. *)

LEMMA AddResultKeepsInv ==
  ASSUME IInv, NEW h \in handlers, AddResult(h)
  PROVE  IInv'
<1> DEFINE id == h.task
           own == {s \in DOMAIN searches : Mentions(s, id)}
           g == [h EXCEPT !.at = "complete"]
<1>1. /\ id \in TaskIds /\ h.at = "result" /\ handed[id] = 1 /\ ~InEntries(id)
      /\ \A n \in Agents : id \notin holding[n]
  BY DEF IInv, Types, OneHand, AddResult
<1>2. own \subseteq DOMAIN searches /\ \A s \in own : s = id.search
  BY DEF IInv, InOrder, Mentions
<1>3. /\ g.task = id /\ g.at = "complete"
      /\ g \in [task : TaskIds, at : {"result", "complete", "check"}]
  BY DEF IInv, Types
<1>4. /\ searches' = [s \in DOMAIN searches |->
            IF s \in own THEN [searches[s] EXCEPT !.entries = Append(@, id)] ELSE searches[s]]
      /\ searchesFile' = searches'
      /\ early' = IF own = {} THEN early \cup {id} ELSE early
      /\ handlers' = (handlers \ {h}) \cup {g}
      /\ tasks' = tasks /\ tasksFile' = tasksFile /\ creating' = creating
      /\ holding' = holding /\ handed' = handed /\ faults' = faults
  BY DEF AddResult, SaveSearches, Goto, board
<1> HIDE DEF own, g
<1>5. /\ DOMAIN searches' = DOMAIN searches
      /\ \A s \in DOMAIN searches :
           /\ searches'[s].status = searches[s].status
           /\ searches'[s].listed = searches[s].listed
           /\ s \notin own => searches'[s].entries = searches[s].entries
           /\ s \in own => searches'[s].entries = Append(searches[s].entries, id)
           /\ searches'[s] \in SearchRecords
  <2>1. DOMAIN searches' = DOMAIN searches
    BY <1>4
  <2>2. ASSUME NEW s \in DOMAIN searches
        PROVE  /\ searches'[s].status = searches[s].status
               /\ searches'[s].listed = searches[s].listed
               /\ s \notin own => searches'[s].entries = searches[s].entries
               /\ s \in own => searches'[s].entries = Append(searches[s].entries, id)
               /\ searches'[s] \in SearchRecords
    <3> DEFINE q == searches[s]
               e == Append(q.entries, id)
    <3>1. q \in SearchRecords
      BY DEF IInv, Types
    <3>2. e \in Seq(TaskIds)
      BY <1>1, <3>1 DEF SearchRecords
    <3>3. searches'[s] = IF s \in own THEN [q EXCEPT !.entries = e] ELSE q
      BY <1>4
    <3> HIDE DEF q, e
    <3>4. /\ searches'[s].status = q.status /\ searches'[s].listed = q.listed
          /\ s \notin own => searches'[s].entries = q.entries
          /\ s \in own => searches'[s].entries = e
          /\ searches'[s] \in SearchRecords
      BY <3>1, <3>2, <3>3 DEF SearchRecords
    <3> QED
      BY <3>4 DEF q, e
  <2> QED
    BY <2>1, <2>2
<1>6. \A s \in DOMAIN searches :
        /\ Range(searches'[s].entries) =
             Range(searches[s].entries) \cup (IF s \in own THEN {id} ELSE {})
        /\ IsInjective(searches'[s].entries)
  <2> TAKE s \in DOMAIN searches
  <2>1. searches[s].entries \in Seq(TaskIds) /\ IsInjective(searches[s].entries)
        /\ id \notin Range(searches[s].entries)
    BY <1>1 DEF IInv, Types, SearchRecords, OwnEntriesOnce, InEntries
  <2>2. CASE s \in own
    <3> DEFINE q == searches[s].entries
    <3>1. q \in Seq(TaskIds) /\ IsInjective(q) /\ id \notin Range(q) /\ id \in TaskIds
      BY <1>1, <2>1
    <3>2. searches'[s].entries = Append(q, id)
      BY <1>5, <2>2
    <3> HIDE DEF q, id
    <3>3. Range(Append(q, id)) = Range(q) \cup {id} /\ IsInjective(Append(q, id))
      BY <3>1, EntryAdded
    <3> QED
      BY <2>2, <3>2, <3>3 DEF q
  <2>3. CASE s \notin own
    BY <1>5, <2>1, <2>3
  <2> QED
    BY <2>2, <2>3
<1>7. Types'
  BY <1>1, <1>3, <1>4, <1>5 DEF IInv, Types
<1>8. FilesAreCurrent'
  BY <1>4 DEF IInv, FilesAreCurrent
<1>9. InOrder'
  BY <1>4, <1>5 DEF IInv, InOrder, NotYet
<1>10. OneHand'
  <2>1. \A x : InEntries(x)' => InEntries(x) \/ x = id
    BY <1>5, <1>6 DEF InEntries
  <2>2. \A x \in TaskIds : handed'[x] <= 1
    BY <1>4 DEF IInv, OneHand
  <2>3. \A x \in Pending' : handed'[x] = 0
    BY <1>4 DEF IInv, OneHand, Pending
  <2>4. \A n \in Agents : \A x \in holding'[n] :
          /\ handed'[x] = 1 /\ ~InEntries(x)'
          /\ \A m \in Agents : x \in holding'[m] => m = n
          /\ \A f \in handlers' : f.task # x
    BY <1>1, <1>3, <1>4, <2>1 DEF IInv, OneHand
  <2>5. \A f \in handlers' :
          /\ handed'[f.task] = 1
          /\ f.at = "result" => ~InEntries(f.task)'
          /\ \A k \in handlers' : k.task = f.task => k = f
    <3>1. \A f \in handlers : f = h \/ f.task # id
      BY DEF IInv, OneHand
    <3>2. \A f \in handlers' : f = g \/ (f \in handlers /\ f.task # id)
      <4>1. handlers' = (handlers \ {h}) \cup {g}
        BY <1>4
      <4> TAKE f \in handlers'
      <4>2. f = g \/ (f \in handlers /\ f # h)
        BY <4>1
      <4> QED
        BY <3>1, <4>2
    <3>3. \A f \in handlers' : handed'[f.task] = 1
      BY <1>1, <1>3, <1>4, <3>2 DEF IInv, OneHand
    <3>4. \A f \in handlers' : f.at = "result" => ~InEntries(f.task)'
      BY <1>3, <2>1, <3>2 DEF IInv, OneHand
    <3>5. \A f, k \in handlers' : k.task = f.task => k = f
      BY <1>3, <3>2 DEF IInv, OneHand
    <3> QED
      BY <3>3, <3>4, <3>5
  <2>6. \A s \in DOMAIN searches' : \A x \in Range(searches'[s].entries) :
          handed'[x] = 1 /\ x.search = s
    <3> TAKE s \in DOMAIN searches'
    <3>1. s \in DOMAIN searches /\ handed' = handed
      BY <1>4, <1>5
    <3> TAKE x \in Range(searches'[s].entries)
    <3>2. CASE x \in Range(searches[s].entries)
      BY <3>1, <3>2 DEF IInv, OneHand
    <3>3. CASE s \in own /\ x = id
      BY <1>1, <1>2, <3>1, <3>3
    <3> QED
      BY <1>6, <3>1, <3>2, <3>3
  <2> QED
    BY <2>2, <2>3, <2>4, <2>5, <2>6 DEF OneHand, InEntries
<1>11. OwnEntriesOnce'
  BY <1>2, <1>5, <1>6 DEF IInv, OwnEntriesOnce
<1>12. DoneIn(tasks, searches)'
  BY <1>4, <1>5 DEF IInv, DoneIn
<1>13. EntryFirst'
  <2>1. \A x : Delivered(x) => Delivered(x)'
    BY <1>4, <1>5, <1>6 DEF Delivered
  <2>2. Delivered(id)'
    <3>1. CASE own = {}
      BY <1>4, <3>1 DEF Delivered
    <3>2. CASE own # {}
      BY <1>2, <1>5, <1>6, <3>2 DEF Delivered
    <3> QED
      BY <3>1, <3>2
  <2>3. \A f \in handlers' : f.at # "result" => Delivered(f.task)'
    BY <1>3, <1>4, <2>1, <2>2 DEF IInv, EntryFirst
  <2>4. \A x \in DOMAIN tasks' : tasks'[x].status = "completed" => Delivered(x)'
    BY <1>4, <2>1 DEF IInv, EntryFirst
  <2> QED
    BY <2>3, <2>4 DEF EntryFirst, Delivered
<1>14. CompletedHasEntries'
  BY ZenonT(60), <1>4, <1>5, <1>6 DEF IInv, CompletedHasEntries
<1> QED
  BY <1>7, <1>8, <1>9, <1>10, <1>11, <1>12, <1>13, <1>14 DEF IInv

LEMMA CompleteKeepsInv ==
  ASSUME IInv, NEW h \in handlers, Complete(h)
  PROVE  IInv'
<1> DEFINE id == h.task
           g == [h EXCEPT !.at = "check"]
<1>1. id \in TaskIds /\ h.at = "complete" /\ Delivered(id)
  BY DEF IInv, Types, EntryFirst, Complete
<1>2. /\ g.task = id /\ g.at = "check"
      /\ g \in [task : TaskIds, at : {"result", "complete", "check"}]
  BY DEF IInv, Types
<1>3. /\ tasks' = [tasks EXCEPT ![id].status = "completed"] /\ tasksFile' = tasks'
      /\ handlers' = (handlers \ {h}) \cup {g}
      /\ searches' = searches /\ searchesFile' = searchesFile /\ creating' = creating
      /\ holding' = holding /\ handed' = handed /\ early' = early /\ faults' = faults
  BY DEF Complete, SaveTasks, Goto, store
<1> HIDE DEF id, g
<1>4. /\ DOMAIN tasks' = DOMAIN tasks
      /\ tasks' \in [DOMAIN tasks' -> TaskRecords]
      /\ \A x \in DOMAIN tasks : /\ x = id => tasks'[x].status = "completed"
                                 /\ x # id => tasks'[x] = tasks[x]
  BY ZenonT(60), <1>3 DEF IInv, Types, TaskRecords
<1>5. Types'
  BY <1>2, <1>3, <1>4 DEF IInv, Types
<1>6. FilesAreCurrent'
  BY <1>3 DEF IInv, FilesAreCurrent
<1>7. InOrder'
  BY <1>3, <1>4 DEF IInv, InOrder, NotYet
<1>8. OneHand'
  BY <1>1, <1>2, <1>3, <1>4 DEF IInv, OneHand, InEntries, Pending, id
<1>9. OwnEntriesOnce' /\ CompletedHasEntries'
  BY <1>3 DEF IInv, OwnEntriesOnce, CompletedHasEntries
<1>10. DoneIn(tasks, searches)'
  BY <1>3, <1>4 DEF IInv, DoneIn
<1>11. EntryFirst'
  BY <1>1, <1>2, <1>3, <1>4 DEF IInv, EntryFirst, Delivered
<1> QED
  BY <1>5, <1>6, <1>7, <1>8, <1>9, <1>10, <1>11 DEF IInv

\* check_completion, called for a result or for a reader.
LEMMA CheckedKeepsInv ==
  ASSUME IInv, NEW s, searches' \in {searches, Checked(s)}, searchesFile' = searches',
         handlers' \subseteq handlers,
         UNCHANGED <<board, creating, holding, handed, early, faults>>
  PROVE  IInv'
<1>1. /\ tasks' = tasks /\ tasksFile' = tasksFile /\ creating' = creating
      /\ holding' = holding /\ handed' = handed /\ early' = early /\ faults' = faults
  BY DEF board
<1>2. /\ DOMAIN searches' = DOMAIN searches
      /\ searches' \in [DOMAIN searches' -> SearchRecords]
      /\ \A t \in DOMAIN searches :
           /\ searches'[t].listed = searches[t].listed
           /\ searches'[t].entries = searches[t].entries
           /\ \/ searches'[t].status = searches[t].status
              \/ searches'[t].status = "completed" /\ AllCompleted(t)
  <2>1. CASE searches' = searches
    BY <2>1 DEF IInv, Types
  <2>2. CASE /\ s \in DOMAIN searches /\ AllCompleted(s)
             /\ searches' = [searches EXCEPT ![s].status = "completed"]
    <3>1. DOMAIN searches' = DOMAIN searches /\ searches \in [DOMAIN searches -> SearchRecords]
      BY <2>2 DEF IInv, Types
    <3>2. \A t \in DOMAIN searches :
            searches'[t] = IF t = s THEN [searches[t] EXCEPT !.status = "completed"] ELSE searches[t]
      BY <2>2
    <3>3. searches' \in [DOMAIN searches' -> SearchRecords]
      BY <2>2, <3>1 DEF SearchRecords
    <3> QED
      BY <2>2, <3>1, <3>2, <3>3 DEF SearchRecords
  <2> QED
    BY <2>1, <2>2 DEF Checked
<1>3. \A t \in DOMAIN searches : AllCompleted(t) =>
        /\ searches[t].listed # {}
        /\ \A id \in searches[t].listed :
             tasks[id].status = "completed" /\ id \in DOMAIN tasks /\ id.search = t
  BY DEF AllCompleted, IInv, InOrder
<1>4. \A t \in DOMAIN searches : AllCompleted(t) =>
        searches[t].listed \subseteq Range(searches[t].entries) \cup early
  BY <1>3 DEF IInv, EntryFirst, Delivered
<1>5. Types'
  BY <1>1, <1>2, <1>3 DEF IInv, Types
<1>6. FilesAreCurrent'
  BY <1>1 DEF IInv, FilesAreCurrent
<1>7. InOrder'
  BY <1>1, <1>2 DEF IInv, InOrder, NotYet
<1>8. OneHand'
  BY <1>1, <1>2 DEF IInv, OneHand, InEntries, Pending
<1>9. OwnEntriesOnce'
  BY <1>2 DEF IInv, OwnEntriesOnce
<1>10. DoneIn(tasks, searches)'
  BY <1>1, <1>2, <1>3 DEF IInv, DoneIn
<1>11. EntryFirst'
  BY <1>1, <1>2 DEF IInv, EntryFirst, Delivered
<1>12. CompletedHasEntries'
  BY <1>1, <1>2, <1>4 DEF IInv, CompletedHasEntries
<1> QED
  BY <1>5, <1>6, <1>7, <1>8, <1>9, <1>10, <1>11, <1>12 DEF IInv

-----------------------------------------------------------------------------
(* The handlers of searches. *)

LEMMA SearchKeepsInv ==
  ASSUME IInv, NEW s \in Searches, Search(s)
  PROVE  IInv'
<1>1. /\ creating[s].at = "no" /\ s \notin DOMAIN searches
      /\ tasks' = tasks /\ tasksFile' = tasksFile /\ searchesFile' = searches'
      /\ creating' = [creating EXCEPT ![s] = [at |-> "create", url |-> 1]]
      /\ holding' = holding /\ handlers' = handlers /\ handed' = handed /\ early' = early
      /\ faults' = faults
  BY DEF Search, SaveSearches, board, IInv, InOrder
<1>2. /\ DOMAIN searches' = DOMAIN searches \cup {s}
      /\ \A t \in DOMAIN searches : t # s /\ searches'[t] = searches[t]
      /\ searches'[s] = NewSearch
  BY <1>1 DEF Search, SaveSearches, Extended
<1>3. /\ NewSearch \in SearchRecords /\ NewSearch.status = "pending"
      /\ NewSearch.listed = {} /\ NewSearch.entries = <<>>
  BY DEF NewSearch, SearchRecords
<1>4. Range(<<>>) = {} /\ IsInjective(<<>>)
  BY DEF Range, IsInjective
\* No task of the search exists yet.
<1>5. \A id \in TaskIds : id.search = s => id \notin DOMAIN tasks /\ handed[id] = 0
  BY <1>1 DEF IInv, InOrder, NotYet
<1>6. NumUrls \in Nat /\ 1 \in 1..NumUrls
  BY NumUrlsAssumption
<1>7. \A t \in Searches : creating'[t] =
        IF t = s THEN [at |-> "create", url |-> 1] ELSE creating[t]
  BY <1>1 DEF IInv, Types
<1>8. Types'
  <2>1. searches' \in [DOMAIN searches' -> SearchRecords]
    <3>1. searches' = [t \in DOMAIN searches' |-> searches'[t]]
      BY DEF Search, SaveSearches, Extended
    <3> QED
      BY <1>2, <1>3, <3>1 DEF IInv, Types
  <2>2. creating' \in [Searches -> [at : {"no", "create", "list", "over"}, url : 1..NumUrls]]
    BY <1>1, <1>6 DEF IInv, Types
  <2>3. \A t \in DOMAIN searches' : searches'[t].listed = {} <=> searches'[t].status = "pending"
    BY <1>2, <1>3 DEF IInv, Types
  <2> QED
    BY <1>1, <1>2, <2>1, <2>2, <2>3 DEF IInv, Types
<1>9. FilesAreCurrent'
  BY <1>1 DEF IInv, FilesAreCurrent
<1>10. InOrder'
  <2>1. \A id \in TaskIds : NotYet(id)' => id \notin DOMAIN tasks' /\ handed'[id] = 0
    BY <1>1, <1>5, <1>7 DEF IInv, InOrder, NotYet
  <2> QED
    BY <1>2, <1>3, <1>7, <2>1 DEF IInv, Types, InOrder, NotYet
<1>11. OneHand'
  <2>1. \A id : InEntries(id)' => InEntries(id)
    BY <1>2, <1>3, <1>4 DEF InEntries
  <2> QED
    BY <1>1, <1>2, <1>3, <1>4, <2>1 DEF IInv, OneHand, InEntries, Pending
<1>12. OwnEntriesOnce'
  BY <1>2, <1>3, <1>4 DEF IInv, OwnEntriesOnce
<1>13. DoneIn(tasks, searches)'
  BY <1>1, <1>2, <1>3 DEF IInv, DoneIn
<1>14. EntryFirst'
  <2>1. \A id \in TaskIds : id.search # s /\ Delivered(id) => Delivered(id)'
    BY <1>1, <1>2 DEF Delivered
  <2>2. \A h \in handlers : h.task \in TaskIds /\ h.task.search # s
    BY <1>5 DEF IInv, Types, OneHand
  <2>3. \A id \in DOMAIN tasks : id \in TaskIds /\ id.search # s
    BY <1>5 DEF IInv, Types
  <2> QED
    BY <1>1, <2>1, <2>2, <2>3 DEF IInv, EntryFirst, Delivered
<1>15. CompletedHasEntries'
  BY <1>1, <1>2, <1>3 DEF IInv, CompletedHasEntries
<1> QED
  BY <1>8, <1>9, <1>10, <1>11, <1>12, <1>13, <1>14, <1>15 DEF IInv

\* The new task is not listed and was never handed out; `creating` goes on, for the
\* task of a search, or stays as it is.
LEMMA CreatedKeepsInv ==
  ASSUME IInv, NEW id \in TaskIds, id \notin DOMAIN tasks, handed[id] = 0,
         tasks' = Created(id), tasksFile' = tasks',
         \A s \in DOMAIN searches : id \notin searches[s].listed,
         creating' \in [Searches -> [at : {"no", "create", "list", "over"}, url : 1..NumUrls]],
         \A s \in Searches : \/ creating'[s] = creating[s]
                            \/ /\ creating[s].at = "create" /\ creating'[s].at = "list"
                               /\ creating'[s].url = creating[s].url,
         ~NotYet(id)',
         UNCHANGED <<store, holding, handlers, handed, early, faults>>
  PROVE  IInv'
<1>1. /\ searches' = searches /\ searchesFile' = searchesFile /\ holding' = holding
      /\ handlers' = handlers /\ handed' = handed /\ early' = early /\ faults' = faults
  BY DEF store
<1>2. /\ tasks' \in [DOMAIN tasks' -> TaskRecords]
      /\ DOMAIN tasks' = DOMAIN tasks \cup {id} /\ IsFiniteSet(DOMAIN tasks')
      /\ tasks'[id].status = "pending"
      /\ \A other \in DOMAIN tasks : tasks'[other] = tasks[other]
  BY CreatedType DEF IInv
<1>3. Types'
  BY <1>1, <1>2 DEF IInv, Types
<1>4. FilesAreCurrent'
  BY <1>1 DEF IInv, FilesAreCurrent
<1>5. InOrder'
  <2>1. \A x \in TaskIds : NotYet(x)' => NotYet(x) /\ x # id
    <3>1. NumUrls \in Nat
      BY NumUrlsAssumption
    <3>2. \A x \in TaskIds : x.url \in Nat
      BY <3>1 DEF TaskIds
    <3>3. \A s \in Searches : creating[s].url \in Nat
      BY <3>1 DEF IInv, Types
    <3> QED
      BY <3>2, <3>3 DEF NotYet
  <2>2. \A x \in TaskIds : NotYet(x)' => x \notin DOMAIN tasks' /\ handed'[x] = 0
    BY <1>1, <1>2, <2>1 DEF IInv, InOrder
  <2>3. \A s \in Searches :
          /\ creating'[s].at = "no" => s \notin DOMAIN searches'
          /\ creating'[s].at \in {"create", "list"} => s \in DOMAIN searches'
    BY <1>1 DEF IInv, InOrder
  <2>4. \A s \in DOMAIN searches' : \A x \in searches'[s].listed :
          /\ x.search = s
          /\ creating'[s].at \in {"create", "list"} => x.url < creating'[s].url
    BY <1>1 DEF IInv, Types, InOrder
  <2> QED
    BY <2>2, <2>3, <2>4 DEF InOrder, NotYet
<1>6. OneHand'
  BY <1>1, <1>2 DEF IInv, OneHand, InEntries, Pending
<1>7. OwnEntriesOnce' /\ CompletedHasEntries'
  BY <1>1 DEF IInv, OwnEntriesOnce, CompletedHasEntries
<1>8. DoneIn(tasks, searches)'
  BY <1>1, <1>2 DEF IInv, DoneIn
<1>9. EntryFirst'
  BY <1>1, <1>2 DEF IInv, EntryFirst, Delivered
<1> QED
  BY <1>3, <1>4, <1>5, <1>6, <1>7, <1>8, <1>9 DEF IInv

LEMMA CreateTaskKeepsInv ==
  ASSUME IInv, NEW s \in Searches, CreateTask(s)
  PROVE  IInv'
<1>0. creating[s].at = "create" /\ creating[s].url \in 1..NumUrls
  BY DEF CreateTask, IInv, Types
<1>1. PICK id \in TaskIds : /\ id = [search |-> s, url |-> creating[s].url]
                            /\ id.search = s /\ id.url = creating[s].url
  <2>1. [search |-> s, url |-> creating[s].url] \in TaskIds
    BY <1>0 DEF TaskIds
  <2> QED
    BY <2>1
<1>2. /\ tasks' = Created(id) /\ tasksFile' = tasks'
      /\ creating' = [creating EXCEPT ![s].at = "list"]
      /\ UNCHANGED <<store, holding, handlers, handed, early, faults>>
  BY <1>1 DEF CreateTask, SaveTasks
<1>3. NumUrls \in Nat
  BY NumUrlsAssumption
<1>4. id \notin DOMAIN tasks /\ handed[id] = 0
  BY <1>0, <1>1, <1>3 DEF IInv, InOrder, NotYet
<1>5. \A t \in DOMAIN searches : id \notin searches[t].listed
  BY <1>0, <1>1, <1>3 DEF IInv, InOrder
<1>6. /\ creating' \in [Searches -> [at : {"no", "create", "list", "over"}, url : 1..NumUrls]]
      /\ creating'[s].at = "list" /\ creating'[s].url = creating[s].url
      /\ \A t \in Searches : t # s => creating'[t] = creating[t]
  BY <1>2 DEF IInv, Types
<1>7. ~NotYet(id)'
  BY <1>0, <1>1, <1>3, <1>6 DEF NotYet
<1>8. \A t \in Searches : \/ creating'[t] = creating[t]
                          \/ /\ creating[t].at = "create" /\ creating'[t].at = "list"
                             /\ creating'[t].url = creating[t].url
  BY <1>0, <1>6
<1> QED
  BY <1>1, <1>2, <1>4, <1>5, <1>6, <1>7, <1>8, CreatedKeepsInv

LEMMA CreateAdminTaskKeepsInv ==
  ASSUME IInv, NEW url \in AdminUrls, CreateAdminTask(url)
  PROVE  IInv'
<1> DEFINE id == [search |-> Admin, url |-> url]
<1>1. id \in TaskIds /\ id.search = Admin /\ id.search \notin Searches
  BY AdminAssumption, AdminUrlsAssumption DEF TaskIds
<1> HIDE DEF id
<1>2. /\ id \notin DOMAIN tasks /\ handed[id] = 0
      /\ tasks' = Created(id) /\ tasksFile' = tasks' /\ creating' = creating
      /\ UNCHANGED <<store, holding, handlers, handed, early, faults>>
  BY DEF CreateAdminTask, SaveTasks, id
<1>3. \A s \in DOMAIN searches : id \notin searches[s].listed
  BY <1>1 DEF IInv, Types, InOrder
<1>4. creating' \in [Searches -> [at : {"no", "create", "list", "over"}, url : 1..NumUrls]]
  BY <1>2 DEF IInv, Types
<1>5. ~NotYet(id)'
  BY <1>1 DEF NotYet
<1> QED
  BY <1>1, <1>2, <1>3, <1>4, <1>5, CreatedKeepsInv

\* A listed task takes a completed search back to "crawling".
LEMMA ListTaskKeepsInv ==
  ASSUME IInv, NEW s \in Searches, ListTask(s)
  PROVE  IInv'
<1> DEFINE id == [search |-> s, url |-> creating[s].url]
<1>1. /\ creating[s].at = "list" /\ creating[s].url \in 1..NumUrls /\ s \in DOMAIN searches
      /\ id \in TaskIds /\ id.search = s /\ id.url = creating[s].url
      /\ NumUrls \in Nat
  BY NumUrlsAssumption DEF ListTask, IInv, Types, InOrder, TaskIds
<1> HIDE DEF id
<1>2. /\ searches' = Listed(s, id) /\ searchesFile' = searches'
      /\ creating' = [creating EXCEPT ![s] =
            IF @.url = NumUrls THEN [at |-> "over", url |-> NumUrls]
            ELSE [at |-> "create", url |-> @.url + 1]]
      /\ tasks' = tasks /\ tasksFile' = tasksFile /\ holding' = holding
      /\ handlers' = handlers /\ handed' = handed /\ early' = early /\ faults' = faults
  BY DEF ListTask, SaveSearches, board, id
<1>3. /\ id \notin searches[s].listed
      /\ searches' = [searches EXCEPT ![s].listed = @ \cup {id}, ![s].status = "crawling"]
  BY <1>1, <1>2 DEF Listed, IInv, InOrder
<1>4. /\ DOMAIN searches' = DOMAIN searches
      /\ searches' \in [DOMAIN searches' -> SearchRecords]
      /\ \A t \in DOMAIN searches :
           /\ searches'[t].entries = searches[t].entries
           /\ t # s => searches'[t] = searches[t]
      /\ searches'[s].status = "crawling"
      /\ searches'[s].listed = searches[s].listed \cup {id}
  <2>1. searches[s] \in SearchRecords
    BY <1>1 DEF IInv, Types
  <2> DEFINE r == [searches[s] EXCEPT !.listed = @ \cup {id}, !.status = "crawling"]
  <2>2. /\ r \in SearchRecords /\ r.status = "crawling" /\ r.entries = searches[s].entries
        /\ r.listed = searches[s].listed \cup {id}
    BY <1>1, <2>1 DEF SearchRecords
  <2>3. searches' = [searches EXCEPT ![s] = r]
    BY <1>3
  <2> HIDE DEF r
  <2>4. searches \in [DOMAIN searches -> SearchRecords]
    BY DEF IInv, Types
  <2> QED
    BY <1>1, <2>2, <2>3, <2>4
<1>5. /\ \A t \in Searches : t # s => creating'[t] = creating[t]
      /\ creating'[s] \in [at : {"no", "create", "list", "over"}, url : 1..NumUrls]
      /\ \/ creating'[s].at = "over"
         \/ creating'[s].at = "create" /\ creating'[s].url = creating[s].url + 1
      /\ creating' \in [Searches -> [at : {"no", "create", "list", "over"}, url : 1..NumUrls]]
  BY <1>1, <1>2 DEF IInv, Types
<1>6. Types'
  <2>1. \A t \in DOMAIN searches' : searches'[t].listed = {} <=> searches'[t].status = "pending"
    <3> TAKE t \in DOMAIN searches'
    <3>1. CASE t = s
      BY <1>4, <3>1
    <3>2. CASE t # s
      BY <1>4, <3>2 DEF IInv, Types
    <3> QED
      BY <3>1, <3>2
  <2> QED
    BY <1>2, <1>4, <1>5, <2>1 DEF IInv, Types
<1>7. FilesAreCurrent'
  BY <1>2 DEF IInv, FilesAreCurrent
<1>8. InOrder'
  <2>1. \A x \in TaskIds : NotYet(x)' => NotYet(x)
    <3>1. \A x \in TaskIds : x.url \in Nat
      BY <1>1 DEF TaskIds
    <3> QED
      BY <1>1, <1>5, <3>1 DEF NotYet
  <2>2. \A x \in TaskIds : NotYet(x)' => x \notin DOMAIN tasks' /\ handed'[x] = 0
    BY <1>2, <2>1 DEF IInv, InOrder
  <2>3. \A t \in Searches :
          /\ creating'[t].at = "no" => t \notin DOMAIN searches'
          /\ creating'[t].at \in {"create", "list"} => t \in DOMAIN searches'
    BY <1>1, <1>4, <1>5 DEF IInv, InOrder
  <2>4. \A t \in DOMAIN searches' : \A x \in searches'[t].listed :
          /\ x.search = t
          /\ creating'[t].at \in {"create", "list"} => x.url < creating'[t].url
    <3> TAKE t \in DOMAIN searches'
    <3>1. CASE t = s
      <4>1. \A x \in searches[s].listed : x \in TaskIds /\ x.url \in Nat
        BY <1>1 DEF IInv, Types, SearchRecords, TaskIds
      <4> QED
        BY <1>1, <1>4, <1>5, <3>1, <4>1 DEF IInv, InOrder
    <3>2. CASE t # s
      BY <1>4, <1>5, <3>2 DEF IInv, Types, InOrder
    <3> QED
      BY <3>1, <3>2
  <2> QED
    BY <2>2, <2>3, <2>4 DEF InOrder, NotYet
<1>9. OneHand'
  BY <1>2, <1>4 DEF IInv, OneHand, InEntries, Pending
<1>10. OwnEntriesOnce'
  BY <1>4 DEF IInv, OwnEntriesOnce
<1>11. DoneIn(tasks, searches)'
  BY <1>2, <1>4 DEF IInv, DoneIn
<1>12. EntryFirst'
  BY <1>2, <1>4 DEF IInv, EntryFirst, Delivered
<1>13. CompletedHasEntries'
  BY <1>2, <1>4 DEF IInv, CompletedHasEntries
<1> QED
  BY <1>6, <1>7, <1>8, <1>9, <1>10, <1>11, <1>12, <1>13 DEF IInv

-----------------------------------------------------------------------------
(* Crashes. *)

\* A file is as it was or empty, and nothing that is empty is filled again: the
\* handlers that were creating tasks are gone.
LEMMA CrashKeepsInv ==
  ASSUME IInv, NEW tasksTorn \in BOOLEAN, NEW searchesTorn \in BOOLEAN,
         Crash(tasksTorn, searchesTorn)
  PROVE  IInv'
<1>1. /\ tasks' = IF tasksTorn THEN <<>> ELSE tasks
      /\ searches' = IF searchesTorn THEN <<>> ELSE searches
      /\ tasksFile' = tasks' /\ searchesFile' = searches'
      /\ holding' = holding /\ handlers' = {} /\ handed' = handed /\ early' = early
      /\ faults' = faults + 1
  BY DEF Crash, SaveTasks, SaveSearches, IInv, FilesAreCurrent
<1>2. /\ DOMAIN tasks' \subseteq DOMAIN tasks /\ DOMAIN searches' \subseteq DOMAIN searches
      /\ \A id \in DOMAIN tasks' : tasks'[id] = tasks[id]
      /\ \A s \in DOMAIN searches' : searches'[s] = searches[s]
      /\ tasks' \in [DOMAIN tasks' -> TaskRecords]
      /\ searches' \in [DOMAIN searches' -> SearchRecords]
  BY <1>1 DEF IInv, Types
<1>3. \A s \in Searches :
        /\ creating'[s] \in [at : {"no", "create", "list", "over"}, url : 1..NumUrls]
        /\ creating'[s].at = "no" => creating[s].at = "no" /\ creating'[s] = creating[s]
        /\ creating'[s].at \in {"no", "over"}
  BY DEF Crash, IInv, Types
<1>4. Types'
  <2>1. creating' \in [Searches -> [at : {"no", "create", "list", "over"}, url : 1..NumUrls]]
    BY <1>3 DEF Crash
  <2>2. IsFiniteSet(DOMAIN tasks')
    BY <1>2, FS_Subset DEF IInv, Types
  <2> QED
    BY <1>1, <1>2, <2>1, <2>2 DEF IInv, Types
<1>5. FilesAreCurrent'
  BY <1>1 DEF FilesAreCurrent
<1>6. InOrder'
  BY <1>1, <1>2, <1>3 DEF IInv, Types, InOrder, NotYet
<1>7. OneHand'
  BY <1>1, <1>2 DEF IInv, Types, OneHand, InEntries, Pending
<1>8. OwnEntriesOnce'
  BY <1>2 DEF IInv, OwnEntriesOnce
<1>9. DoneIn(tasks, searches)'
  BY <1>2 DEF IInv, DoneIn
<1>10. EntryFirst'
  BY <1>1, <1>2 DEF IInv, EntryFirst, Delivered
<1>11. CompletedHasEntries'
  BY <1>1, <1>2 DEF IInv, CompletedHasEntries
<1> QED
  BY <1>4, <1>5, <1>6, <1>7, <1>8, <1>9, <1>10, <1>11 DEF IInv

-----------------------------------------------------------------------------
(* The invariant and what follows from it. *)

LEMMA InitInv == Init => IInv
<1> SUFFICES ASSUME Init PROVE IInv
  OBVIOUS
<1>1. /\ DOMAIN tasks = {} /\ DOMAIN searches = {} /\ handlers = {}
      /\ \A id \in TaskIds : handed[id] = 0
      /\ \A n \in Agents : holding[n] = {}
      /\ \A s \in Searches : creating[s].at = "no"
  BY DEF Init
<1>2. Types
  <2>1. IsFiniteSet(DOMAIN tasks)
    BY <1>1, FS_EmptySet
  <2>2. 1 \in 1..NumUrls
    BY NumUrlsAssumption
  <2> QED
    BY <1>1, <2>1, <2>2 DEF Init, Types
<1>3. FilesAreCurrent
  BY DEF Init, FilesAreCurrent
<1>4. InOrder
  BY <1>1 DEF InOrder
<1>5. OneHand
  BY <1>1 DEF OneHand, Pending, InEntries
<1>6. OwnEntriesOnce /\ DoneIn(tasks, searches) /\ EntryFirst /\ CompletedHasEntries
  BY <1>1 DEF OwnEntriesOnce, DoneIn, EntryFirst, CompletedHasEntries
<1> QED
  BY <1>2, <1>3, <1>4, <1>5, <1>6 DEF IInv

LEMMA StepInv == IInv /\ [Next]_vars => IInv'
<1> SUFFICES ASSUME IInv, [Next]_vars PROVE IInv'
  OBVIOUS
<1>1. ASSUME NEW s \in Searches, Search(s) PROVE IInv'
  BY <1>1, SearchKeepsInv
<1>2. ASSUME NEW s \in Searches, CreateTask(s) PROVE IInv'
  BY <1>2, CreateTaskKeepsInv
<1>3. ASSUME NEW s \in Searches, ListTask(s) PROVE IInv'
  BY <1>3, ListTaskKeepsInv
<1>4. ASSUME NEW s \in Searches, Read(s) PROVE IInv'
  BY <1>4, CheckedKeepsInv DEF Read, SaveSearches
<1>5. ASSUME NEW url \in AdminUrls, CreateAdminTask(url) PROVE IInv'
  BY <1>5, CreateAdminTaskKeepsInv
<1>6. faults \in Nat /\ faults + 1 \in Nat
  BY DEF IInv, Types
<1>7. ASSUME NEW n \in Agents, Poll(n) PROVE IInv'
  BY <1>6, <1>7, HandOutKeepsInv DEF Poll
<1>8. ASSUME NEW n \in Agents, PollLost(n) PROVE IInv'
  BY <1>6, <1>8, HandOutKeepsInv DEF PollLost
<1>9. ASSUME NEW n \in Agents, Post(n) PROVE IInv'
  <2>1. PICK id \in holding[n] :
          /\ holding' = [holding EXCEPT ![n] = {}]
          /\ handlers' = IF id \in DOMAIN tasks
                         THEN handlers \cup {[task |-> id, at |-> "result"]} ELSE handlers
          /\ UNCHANGED <<board, store, creating, handed, early, faults>>
    BY <1>9 DEF Post
  <2> QED
    BY <1>6, <2>1, PostKeepsInv
<1>10. ASSUME NEW n \in Agents, PostLost(n) PROVE IInv'
  BY <1>6, <1>10, PostKeepsInv DEF PostLost
<1>11. ASSUME NEW h \in handlers, Serve(h) PROVE IInv'
  <2>1. CASE Check(h)
    BY <2>1, CheckedKeepsInv DEF Check, SaveSearches
  <2> QED
    BY <1>11, <2>1, AddResultKeepsInv, CompleteKeepsInv DEF Serve
<1>12. ASSUME NEW tasksTorn \in BOOLEAN, NEW searchesTorn \in BOOLEAN,
              Crash(tasksTorn, searchesTorn)
       PROVE  IInv'
  BY <1>12, CrashKeepsInv
<1>13. CASE UNCHANGED vars
  BY <1>13 DEF vars, board, store, IInv, Types, FilesAreCurrent, InOrder, NotYet, OneHand,
               InEntries, Pending, OwnEntriesOnce, DoneIn, EntryFirst, Delivered,
               CompletedHasEntries
<1> QED
  BY <1>1, <1>2, <1>3, <1>4, <1>5, <1>7, <1>8, <1>9, <1>10, <1>11, <1>12, <1>13 DEF Next

\* The specification's type invariant follows from the types of the proof.
LEMMA InvImpliesTypeOK == IInv => TypeOK
<1> SUFFICES ASSUME IInv PROVE TypeOK
  OBVIOUS
<1>1. \A n \in Agents : holding[n] \subseteq TaskIds /\ Cardinality(holding[n]) <= 1
  <2> TAKE n \in Agents
  <2>1. holding[n] \subseteq TaskIds /\ \A id, other \in holding[n] : id = other
    BY DEF IInv, Types
  <2>2. CASE holding[n] = {}
    BY <2>2, FS_EmptySet
  <2>3. CASE holding[n] # {}
    <3>1. PICK id : holding[n] = {id}
      BY <2>1, <2>3
    <3>2. Cardinality(holding[n]) = 1
      BY <3>1, FS_Singleton
    <3> QED
      BY <2>1, <3>2
  <2> QED
    BY <2>1, <2>2, <2>3
<1>2. \A s \in DOMAIN searches : Range(searches[s].entries) \subseteq TaskIds
  <2> TAKE s \in DOMAIN searches
  <2>1. searches[s].entries \in Seq(TaskIds)
    BY DEF IInv, Types, SearchRecords
  <2> QED
    BY <2>1, RangeOfSeq
<1> QED
  BY <1>1, <1>2 DEF IInv, Types, TypeOK, TaskRecords, SearchRecords

\* The stores, the handlers and the agents keep their types, whatever crashes.
THEOREM TypeCorrect == Spec => []TypeOK
  BY InitInv, StepInv, InvImpliesTypeOK, PTL DEF Spec

\* No interleaving and no crash hands a task out twice (task_queue.py:72-75).
THEOREM HandedAtMostOnce == Spec => []HandedOnce
<1>1. IInv => HandedOnce
  BY DEF IInv, OneHand, HandedOnce
<1> QED
  BY <1>1, InitInv, StepInv, PTL DEF Spec

\* A search shows results of its own URLs only, and each once (app.py:611).
THEOREM EntriesAreOwnAndOnce == Spec => []OwnEntriesOnce
<1>1. IInv => OwnEntriesOnce
  BY DEF IInv
<1> QED
  BY <1>1, InitInv, StepInv, PTL DEF Spec

\* In memory and in the files a completed search has no open task
\* (search_store.py:111, 151).
THEOREM CompletionIsTrue == Spec => []CompletedMeansDone
<1>1. IInv => CompletedMeansDone
  BY DEF IInv, FilesAreCurrent, CompletedMeansDone
<1> QED
  BY <1>1, InitInv, StepInv, PTL DEF Spec

\* A completed search has its results, but for tasks that were answered before they
\* were listed (app.py:611).
THEOREM CompletionHasResults == Spec => []CompletedHasEntries
<1>1. IInv => CompletedHasEntries
  BY DEF IInv
<1> QED
  BY <1>1, InitInv, StepInv, PTL DEF Spec

-----------------------------------------------------------------------------
(* The refinement of Crawl. *)

\* What users see of the searches, in this state and after the step.
LEMMA KnownFacts ==
  /\ DOMAIN Known = DOMAIN searches
  /\ \A s \in DOMAIN searches :
       /\ Known[s].listed = searches[s].listed
       /\ Known[s].results = Range(searches[s].entries)
       /\ Known[s].completed <=> searches[s].status = "completed"
       /\ Known[s] = [listed |-> searches[s].listed, results |-> Range(searches[s].entries),
                      completed |-> searches[s].status = "completed"]
  BY DEF Known, Crawled

\* One search looks different after the step, and it is the one that was changed.
LEMMA KnownChanges ==
  ASSUME NEW s \in DOMAIN searches, DOMAIN searches' = DOMAIN searches,
         \A t \in DOMAIN searches \ {s} : searches'[t] = searches[t]
  PROVE  Known' = [Known EXCEPT ![s] =
           [listed |-> searches'[s].listed, results |-> Range(searches'[s].entries),
            completed |-> searches'[s].status = "completed"]]
<1> DEFINE e == [listed |-> searches'[s].listed, results |-> Range(searches'[s].entries),
                 completed |-> searches'[s].status = "completed"]
           f == [Known EXCEPT ![s] = e]
<1>1. \A t \in DOMAIN searches \ {s} :
        [listed |-> searches'[t].listed, results |-> Range(searches'[t].entries),
         completed |-> searches'[t].status = "completed"] = Known[t]
  BY KnownFacts
<1>2. f = [t \in DOMAIN searches |-> IF t = s THEN e ELSE Known[t]]
  BY KnownFacts
<1>3. Known' = [t \in DOMAIN searches |->
        [listed |-> searches'[t].listed, results |-> Range(searches'[t].entries),
         completed |-> searches'[t].status = "completed"]]
  BY DEF Known, Crawled
<1> HIDE DEF f
<1>4. \A t \in DOMAIN searches :
        [listed |-> searches'[t].listed, results |-> Range(searches'[t].entries),
         completed |-> searches'[t].status = "completed"]
          = IF t = s THEN e ELSE Known[t]
  BY <1>1
<1>5. Known' = f
  BY <1>2, <1>3, <1>4
<1> QED
  BY <1>5 DEF f

\* Marked as completed.
LEMMA Marked ==
  ASSUME NEW a, NEW b, NEW c, NEW y, NEW r, r = [listed |-> a, results |-> b, completed |-> c]
  PROVE  [r EXCEPT !.completed = y] = [listed |-> a, results |-> b, completed |-> y]
  OBVIOUS

\* Searches that stay look as they did.
LEMMA KnownStays ==
  /\ searches' = searches => Known' = Known
  /\ holding' = holding /\ handlers' = handlers => Waiting' = Waiting
  /\ handed' = handed => HandedOut' = HandedOut
  BY DEF Known, Crawled, Waiting, HandedOut

\* Who has a task.
LEMMA WaitingFacts ==
  \A id : id \in Waiting <=>
    \/ \E n \in Agents : id \in holding[n]
    \/ \E h \in handlers : h.at = "result" /\ h.task = id
  BY DEF Waiting

LEMMA WaitingLater ==
  \A id : id \in Waiting' <=>
    \/ \E n \in Agents : id \in holding'[n]
    \/ \E h \in handlers' : h.at = "result" /\ h.task = id
  BY DEF Waiting

LEMMA InitIsCrawlInit == Init => C!CInit
<1> SUFFICES ASSUME Init PROVE C!CInit
  OBVIOUS
<1>1. DOMAIN searches = {} /\ handlers = {} /\ early = {} /\ HandedOut = {}
  BY DEF Init, HandedOut
<1>2. Waiting = {}
  BY <1>1, WaitingFacts DEF Init
<1>3. Known = [s \in {} |-> C!Fresh]
  BY <1>1 DEF Known
<1> QED
  BY <1>1, <1>2, <1>3 DEF C!CInit

\* A search is accepted.
LEMMA SearchIsCrawlStep ==
  ASSUME IInv, NEW s \in Searches, Search(s)
  PROVE  C!CNext
<1> DEFINE job == [search |-> s, url |-> 1]
           f == [t \in DOMAIN Known \cup {s} |-> IF t = s THEN C!Fresh ELSE Known[t]]
<1>1. job \in TaskIds /\ job.search = s
  BY NumUrlsAssumption DEF TaskIds
<1>2. s \notin DOMAIN searches
  BY DEF Search, IInv, InOrder
<1>3. searches' = [t \in DOMAIN searches \cup {s} |-> IF t = s THEN NewSearch ELSE searches[t]]
  BY DEF Search, SaveSearches, Extended
<1>4. Range(<<>>) = {}
  BY DEF Range
<1>5. C!Fresh = [listed |-> NewSearch.listed, results |-> Range(NewSearch.entries),
                 completed |-> NewSearch.status = "completed"]
  BY <1>4 DEF C!Fresh, NewSearch
<1>6. Known' = f
  <2> DEFINE look(x) == [listed |-> x.listed, results |-> Range(x.entries),
                         completed |-> x.status = "completed"]
  <2>1. Known' = [t \in DOMAIN searches \cup {s} |-> look(searches'[t])]
    BY <1>3 DEF Known, Crawled
  <2>2. \A t \in DOMAIN searches \ {s} : look(searches'[t]) = Known[t]
    BY <1>3, KnownFacts
  <2>3. look(searches'[s]) = C!Fresh
    BY <1>3, <1>5
  <2> HIDE DEF look
  <2> QED
    BY <2>1, <2>2, <2>3, KnownFacts
<1>7. HandedOut' = HandedOut /\ Waiting' = Waiting /\ early' = early
  BY KnownStays DEF Search
<1>8. C!Accept(job.search)
  BY <1>1, <1>2, <1>6, <1>7, KnownFacts DEF C!Accept
<1> QED
  BY <1>1, <1>8 DEF C!CNext

\* A search gets a task more.
LEMMA ListTaskIsCrawlStep ==
  ASSUME IInv, NEW s \in Searches, ListTask(s)
  PROVE  C!CNext
<1> DEFINE job == [search |-> s, url |-> creating[s].url]
           q == searches[s]
           f == [Known EXCEPT ![s] = [listed |-> @.listed \cup {job}, results |-> @.results,
                                     completed |-> FALSE]]
<1>1. job \in TaskIds /\ job.search = s /\ job.url = creating[s].url
  BY DEF TaskIds, IInv, Types
<1>2. s \in DOMAIN searches /\ creating[s].at = "list" /\ creating[s].url \in Nat
  BY DEF ListTask, IInv, InOrder, Types
<1>3. job \notin q.listed
  <2>1. ~(creating[s].url < creating[s].url)
    BY <1>2
  <2> QED
    BY <1>1, <1>2, <2>1 DEF IInv, InOrder
<1>4. q \in SearchRecords
  BY <1>2 DEF IInv, Types
<1>5. searches' = [searches EXCEPT ![s].listed = @ \cup {job}, ![s].status = "crawling"]
  BY <1>3 DEF ListTask, SaveSearches, Listed
<1>6. /\ DOMAIN searches' = DOMAIN searches
      /\ \A t \in DOMAIN searches \ {s} : searches'[t] = searches[t]
      /\ searches'[s].listed = q.listed \cup {job} /\ searches'[s].entries = q.entries
      /\ searches'[s].status = "crawling"
  BY <1>2, <1>4, <1>5 DEF SearchRecords
<1> HIDE DEF job, q
<1>7. Known' = [Known EXCEPT ![s] =
        [listed |-> q.listed \cup {job}, results |-> Range(q.entries), completed |-> FALSE]]
  <2>1. ("crawling" = "completed") = FALSE
    OBVIOUS
  <2> QED
    BY <1>2, <1>6, <2>1, KnownChanges
<1>8. Known[s] = [listed |-> q.listed, results |-> Range(q.entries),
                  completed |-> q.status = "completed"]
  BY <1>2, KnownFacts DEF q
<1>9. Known' = f
  BY <1>2, <1>7, <1>8, KnownFacts
<1>10. HandedOut' = HandedOut /\ Waiting' = Waiting /\ early' = early
  BY KnownStays DEF ListTask
<1>11. C!List(job)
  BY <1>1, <1>2, <1>3, <1>9, <1>10, KnownFacts DEF C!List, f, q
<1> QED
  BY <1>1, <1>11 DEF C!CNext

\* check_completion completes a search whose results are all there, or does nothing.
LEMMA CheckedIsCrawlStep ==
  ASSUME IInv, NEW s, searches' \in {searches, Checked(s)}, Waiting' = Waiting,
         UNCHANGED <<handed, early>>
  PROVE  C!CNext \/ UNCHANGED C!cvars
<1>1. HandedOut' = HandedOut /\ early' = early
  BY KnownStays
<1>2. CASE searches' = searches
  BY <1>1, <1>2, KnownStays DEF C!cvars
<1>3. CASE /\ s \in DOMAIN searches /\ AllCompleted(s)
           /\ searches' = [searches EXCEPT ![s].status = "completed"]
  <2> DEFINE q == searches[s]
             f == [Known EXCEPT ![s].completed = TRUE]
  <2>1. q \in SearchRecords
    BY <1>3 DEF IInv, Types
  <2>2. /\ DOMAIN searches' = DOMAIN searches
        /\ \A t \in DOMAIN searches \ {s} : searches'[t] = searches[t]
        /\ searches'[s].listed = q.listed /\ searches'[s].entries = q.entries
        /\ searches'[s].status = "completed"
    BY <1>3, <2>1 DEF SearchRecords
  <2>3. q.listed # {} /\ q.listed \subseteq Range(q.entries) \cup early
    BY <1>3 DEF AllCompleted, IInv, InOrder, EntryFirst, Delivered
  <2> HIDE DEF q
  <2>4. Known' = [Known EXCEPT ![s] =
          [listed |-> q.listed, results |-> Range(q.entries), completed |-> TRUE]]
    <3>1. ("completed" = "completed") = TRUE
      OBVIOUS
    <3> QED
      BY <1>3, <2>2, <3>1, KnownChanges
  <2>5. Known[s] = [listed |-> q.listed, results |-> Range(q.entries),
                    completed |-> q.status = "completed"]
    BY <1>3, KnownFacts DEF q
  <2>6. Known' = f
    <3> DEFINE old == q.status = "completed"
               yes == TRUE
    <3>1. [Known[s] EXCEPT !.completed = yes]
            = [listed |-> q.listed, results |-> Range(q.entries), completed |-> yes]
      <4>1. Known[s] = [listed |-> q.listed, results |-> Range(q.entries), completed |-> old]
        BY <2>5
      <4> HIDE DEF old, yes
      <4> QED
        BY <4>1, Marked
    <3> QED
      BY <1>3, <2>4, <3>1, KnownFacts
  <2>7. C!Complete(s)
    BY <1>1, <1>3, <2>3, <2>6, KnownFacts DEF C!Complete, f, q
  <2> QED
    BY <1>3, <2>7, KnownFacts DEF C!CNext
<1> QED
  BY <1>2, <1>3 DEF Checked

\* A poll takes a task that nobody was handed, also when the answer is lost.
LEMMA HandOutIsCrawlStep ==
  ASSUME IInv, NEW n \in Agents, HandOut(n),
         UNCHANGED <<store, handlers, early>>,
         holding' \in {holding, [holding EXCEPT ![n] = {Oldest(Pending)}]}
  PROVE  C!CNext
<1> DEFINE id == Oldest(Pending)
<1>1. id \in Pending /\ id \in TaskIds /\ handed[id] = 0
  BY OldestIsPending DEF HandOut, IInv, Types, OneHand, Pending
<1> HIDE DEF id
<1>2. /\ handed' = [handed EXCEPT ![id] = @ + 1] /\ holding[n] = {}
      /\ holding' \in {holding, [holding EXCEPT ![n] = {id}]}
      /\ searches' = searches /\ handlers' = handlers /\ early' = early
  BY DEF HandOut, store, id
<1>3. HandedOut' = HandedOut \cup {id} /\ id \notin HandedOut
  <2>1. \A x \in TaskIds : handed'[x] = IF x = id THEN 1 ELSE handed[x]
    BY <1>1, <1>2 DEF IInv, Types
  <2> QED
    BY <1>1, <2>1 DEF HandedOut
<1>4. Waiting' \in {Waiting, Waiting \cup {id}}
  <2>1. CASE holding' = holding
    BY <1>2, <2>1, KnownStays
  <2>2. CASE holding' = [holding EXCEPT ![n] = {id}]
    <3>1. \A m \in Agents : holding'[m] = IF m = n THEN {id} ELSE holding[m]
      BY <2>2 DEF IInv, Types
    <3>2. \A x : x \in Waiting' <=> x \in Waiting \/ x = id
      BY <1>2, <3>1, WaitingFacts, WaitingLater
    <3> QED
      BY <3>2
  <2> QED
    BY <1>2, <2>1, <2>2
<1>5. C!Hand(id)
  BY <1>2, <1>3, <1>4, KnownStays DEF C!Hand
<1> QED
  BY <1>1, <1>5 DEF C!CNext

\* A result that reaches the server is still waited for; one that is lost is not.
LEMMA PostIsCrawlStep ==
  ASSUME IInv, NEW n \in Agents, NEW id \in holding[n],
         holding' = [holding EXCEPT ![n] = {}],
         handlers' \in {handlers, handlers \cup {[task |-> id, at |-> "result"]}},
         UNCHANGED <<store, handed, early>>
  PROVE  C!CNext
<1>1. \A m \in Agents : holding'[m] = IF m = n THEN {} ELSE holding[m]
  BY DEF IInv, Types
<1>2. Waiting' \subseteq Waiting
  BY <1>1, WaitingFacts, WaitingLater
<1>3. C!Lose
  BY <1>2, KnownStays DEF C!Lose, store
<1> QED
  BY <1>3 DEF C!CNext

\* A result goes to the search that lists its task, which is the task's own.
LEMMA AddResultIsCrawlStep ==
  ASSUME IInv, NEW h \in handlers, AddResult(h)
  PROVE  C!CNext
<1> DEFINE id == h.task
           s == id.search
           own == {t \in DOMAIN searches : Mentions(t, id)}
           g == [h EXCEPT !.at = "complete"]
<1>1. /\ id \in TaskIds /\ h.at = "result"
      /\ \A n \in Agents : id \notin holding[n]
      /\ \A k \in handlers : k.task = id => k = h
  BY DEF IInv, Types, OneHand, AddResult
<1>2. g.task = id /\ g.at = "complete"
  BY DEF IInv, Types
<1>3. /\ searches' = [t \in DOMAIN searches |->
            IF t \in own THEN [searches[t] EXCEPT !.entries = Append(@, id)] ELSE searches[t]]
      /\ early' = IF own = {} THEN early \cup {id} ELSE early
      /\ handlers' = (handlers \ {h}) \cup {g}
      /\ holding' = holding /\ handed' = handed
  BY DEF AddResult, SaveSearches, Goto
<1>4. own = IF C!Lists(id) THEN {s} ELSE {}
  BY KnownFacts DEF C!Lists, Mentions, IInv, InOrder
<1> HIDE DEF g
<1>5. id \in Waiting /\ Waiting' = Waiting \ {id}
  <2>1. \A x : x \in Waiting' <=> x \in Waiting /\ x # id
    BY <1>1, <1>2, <1>3, WaitingFacts, WaitingLater
  <2> QED
    BY <1>1, <2>1, WaitingFacts
<1>6. HandedOut' = HandedOut
  BY <1>3, KnownStays
<1>7. CASE ~C!Lists(id)
  <2>1. searches' = [t \in DOMAIN searches |-> searches[t]]
    BY <1>3, <1>4, <1>7
  <2>2. searches = [t \in DOMAIN searches |-> searches[t]]
    BY DEF IInv, Types
  <2>3. Known' = Known
    BY <2>1, <2>2, KnownStays
  <2> QED
    BY <1>1, <1>3, <1>4, <1>5, <1>6, <1>7, <2>3 DEF C!CNext, C!Deliver
<1>8. CASE C!Lists(id)
  <2> DEFINE q == searches[s]
             f == [Known EXCEPT ![s].results = @ \cup {id}]
  <2>1. s \in DOMAIN searches /\ s \in own
    BY <1>4, <1>8
  <2>2. /\ q \in SearchRecords /\ q.entries \in Seq(TaskIds) /\ IsInjective(q.entries)
        /\ id \notin Range(q.entries)
    BY <1>1, <2>1 DEF IInv, Types, SearchRecords, OwnEntriesOnce, OneHand, InEntries
  <2>3. Range(Append(q.entries, id)) = Range(q.entries) \cup {id}
    BY <1>1, <2>2, EntryAdded
  <2>4. /\ DOMAIN searches' = DOMAIN searches
        /\ \A t \in DOMAIN searches \ {s} : searches'[t] = searches[t]
        /\ searches'[s] = [q EXCEPT !.entries = Append(@, id)]
    BY <1>3, <1>4, <1>8, <2>1
  <2>5. /\ searches'[s].listed = q.listed /\ searches'[s].status = q.status
        /\ Range(searches'[s].entries) = Range(q.entries) \cup {id}
    BY <2>2, <2>3, <2>4 DEF SearchRecords
  <2> HIDE DEF q
  <2>6. Known' = [Known EXCEPT ![s] =
          [listed |-> q.listed, results |-> Range(q.entries) \cup {id},
           completed |-> q.status = "completed"]]
    BY <2>1, <2>4, <2>5, KnownChanges
  <2>7. Known[s] = [listed |-> q.listed, results |-> Range(q.entries),
                    completed |-> q.status = "completed"]
    BY <2>1, KnownFacts DEF q
  <2>8. Known' = f
    <3>1. [Known[s] EXCEPT !.results = @ \cup {id}]
            = [listed |-> q.listed, results |-> Range(q.entries) \cup {id},
               completed |-> q.status = "completed"]
      BY <2>7
    <3> QED
      BY <2>1, <2>6, <3>1, KnownFacts
  <2>9. C!Deliver(id)
    BY <1>3, <1>4, <1>5, <1>6, <1>8, <2>8 DEF C!Deliver, f
  <2> QED
    BY <1>1, <2>9 DEF C!CNext
<1> QED
  BY <1>7, <1>8

\* A crash keeps what is in the files; requests are gone and agents carry on.
LEMMA CrashIsCrawlStep ==
  ASSUME IInv, NEW tasksTorn, NEW searchesTorn, Crash(tasksTorn, searchesTorn)
  PROVE  C!CNext
<1>1. /\ searches' = IF searchesTorn THEN <<>> ELSE searches
      /\ holding' = holding /\ handlers' = {} /\ handed' = handed /\ early' = early
  BY DEF Crash, SaveSearches, IInv, FilesAreCurrent
<1>2. Waiting' \subseteq Waiting
  BY <1>1, WaitingFacts, WaitingLater
<1>3. Known' \in {Known, [s \in {} |-> C!Fresh]}
  <2>1. CASE searches' = searches
    BY <2>1, KnownStays
  <2>2. CASE searches' = <<>>
    <3>1. DOMAIN searches' = {}
      BY <2>2
    <3> QED
      BY <3>1 DEF Known
  <2> QED
    BY <1>1, <2>1, <2>2
<1>4. C!Lose
  BY <1>1, <1>2, <1>3, KnownStays DEF C!Lose
<1> QED
  BY <1>4 DEF C!CNext

\* Every step of the stores, the handlers and the agents is a step of Crawl or leaves
\* it as it is.
LEMMA StepIsCrawlStep == IInv /\ [Next]_vars => [C!CNext]_(C!cvars)
<1> SUFFICES ASSUME IInv, [Next]_vars PROVE C!CNext \/ UNCHANGED C!cvars
  OBVIOUS
<1>1. ASSUME NEW s \in Searches, Search(s) \/ ListTask(s) PROVE C!CNext
  BY <1>1, SearchIsCrawlStep, ListTaskIsCrawlStep
<1>2. ASSUME UNCHANGED <<store, holding, handlers, handed, early>>
      PROVE  UNCHANGED C!cvars
  BY <1>2, KnownStays DEF C!cvars, store
<1>3. ASSUME NEW s \in Searches, CreateTask(s) PROVE UNCHANGED C!cvars
  BY <1>2, <1>3 DEF CreateTask
<1>4. ASSUME NEW url \in AdminUrls, CreateAdminTask(url) PROVE UNCHANGED C!cvars
  BY <1>2, <1>4 DEF CreateAdminTask
<1>5. ASSUME NEW s \in Searches, Read(s) PROVE C!CNext \/ UNCHANGED C!cvars
  BY <1>5, CheckedIsCrawlStep, KnownStays DEF Read, SaveSearches
<1>6. ASSUME NEW n \in Agents, Poll(n) \/ PollLost(n) PROVE C!CNext
  BY <1>6, HandOutIsCrawlStep DEF Poll, PollLost
<1>7. ASSUME NEW n \in Agents, Post(n) \/ PostLost(n) PROVE C!CNext
  <2>1. PICK id \in holding[n] :
          /\ holding' = [holding EXCEPT ![n] = {}]
          /\ handlers' \in {handlers, handlers \cup {[task |-> id, at |-> "result"]}}
          /\ UNCHANGED <<store, handed, early>>
    BY <1>7 DEF Post, PostLost
  <2> QED
    BY <2>1, PostIsCrawlStep
<1>8. ASSUME NEW h \in handlers, Serve(h) PROVE C!CNext \/ UNCHANGED C!cvars
  <2>1. CASE AddResult(h)
    BY <2>1, AddResultIsCrawlStep
  <2>2. CASE Complete(h)
    <3> DEFINE g == [h EXCEPT !.at = "check"]
    <3>1. g.at = "check" /\ h.at = "complete" /\ handlers' = (handlers \ {h}) \cup {g}
          /\ holding' = holding /\ searches' = searches /\ handed' = handed /\ early' = early
      BY <2>2 DEF Complete, Goto, store, IInv, Types
    <3> HIDE DEF g
    <3>2. \A x : x \in Waiting' <=> x \in Waiting
      BY <3>1, WaitingFacts, WaitingLater
    <3> QED
      BY <3>1, <3>2, KnownStays DEF C!cvars
  <2>3. CASE Check(h)
    <3>1. /\ h.at = "check" /\ handlers' = handlers \ {h} /\ holding' = holding
          /\ searches' \in {searches, Checked(h.task.search)}
          /\ UNCHANGED <<handed, early>>
      BY <2>3 DEF Check, SaveSearches
    <3>2. \A x : x \in Waiting' <=> x \in Waiting
      BY <3>1, WaitingFacts, WaitingLater
    <3> QED
      BY <3>1, <3>2, CheckedIsCrawlStep
  <2> QED
    BY <1>8, <2>1, <2>2, <2>3 DEF Serve
<1>9. ASSUME NEW tasksTorn \in BOOLEAN, NEW searchesTorn \in BOOLEAN,
             Crash(tasksTorn, searchesTorn)
      PROVE  C!CNext
  BY <1>9, CrashIsCrawlStep
<1>10. CASE UNCHANGED vars
  BY <1>2, <1>10 DEF vars, store
<1> QED
  BY <1>1, <1>3, <1>4, <1>5, <1>6, <1>7, <1>8, <1>9, <1>10 DEF Next

\* Queue, store, handlers and agents keep what Crawl promises in every behaviour, crashes
\* and torn files included (task_queue.py:72-75, search_store.py:111-151, app.py:611-622).
THEOREM BoardImplementsCrawl == Spec => ImplementsCrawl
  BY InitInv, StepInv, InitIsCrawlInit, StepIsCrawlStep, PTL
  DEF Spec, ImplementsCrawl, C!CSpec
=============================================================================
