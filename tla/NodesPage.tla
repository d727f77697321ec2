----------------------------- MODULE NodesPage -----------------------------
(***************************************************************************)
(* The administrator's page for nodes: pages/admin/NodeManagement.tsx      *)
(* against the director's blacklist (director/app.py), cityhall's          *)
(* routers/admin.py and the task queue of sp1d3r.                          *)
(*                                                                         *)
(* The director serves requests in threads, and each reads the whole store *)
(* from its file, changes its copy and writes it back.  Other services send*)
(* heartbeats all the time, which do the same.  A blacklist entry gets the *)
(* length of the list plus one as its id.                                  *)
(*                                                                         *)
(* Abstractions: the page starts after its first loads; of the director's  *)
(* store only the blacklist is kept; the tabs of peers and of live nodes,  *)
(* which nothing on this page changes, are left out; a task is only        *)
(* counted; a search finds the user with that name.                        *)
(***************************************************************************)
EXTENDS Fetch, FiniteSets

CONSTANTS
  Names,         \* addresses, and users
  None,          \* no user, no thread
  MaxSteps,      \* bound: what the administrator does
  MaxFlight,     \* bound: requests in flight when a handler starts
  MaxFaults      \* bound: requests that fail

VARIABLES server, view, flight, past

vars == <<server, view, flight, past>>

Lists == {"blacklist", "operators", "tasks"}

Edits == {"add", "remove"}

Entries == [id : Nat, ip : Names, nr : Nat]

-----------------------------------------------------------------------------
(* The page. *)

MayAct == past.steps < MaxSteps /\ Len(flight) < MaxFlight

Acted == [past EXCEPT !.steps = @ + 1]

\* loadBlacklist, loadNodeOperators and loadTasks, up to the request.
Load(list) == Request(list, None)

Ask(op, arg) ==
  /\ MayAct
  /\ flight' = Append(flight, Request(op, arg))
  /\ past' = Acted
  /\ UNCHANGED server

RefreshAll ==
  /\ MayAct /\ past' = Acted
  /\ flight' = flight \o <<Load("blacklist"), Load("operators"), Load("tasks")>>
  /\ UNCHANGED <<server, view>>

\* The dialogs cover the tabs.
Behind == view.dialog = "none"

AddBlacklist(ip) == Behind /\ Ask("add", ip) /\ UNCHANGED view

\* Only the id of the row is sent.
DeleteBlacklist(e) ==
  /\ Behind /\ e \in view.shown.blacklist
  /\ MayAct
  /\ flight' = Append(flight, Request("remove", e.id))
  /\ past' = [Acted EXCEPT !.asked = @ \cup {e.id}]
  /\ UNCHANGED <<server, view>>

OpenAddNodeOp ==
  /\ Behind
  /\ view' = [view EXCEPT !.dialog = "operator"]
  /\ UNCHANGED <<server, flight, past>>

OpenCreateTask ==
  /\ Behind
  /\ view' = [view EXCEPT !.dialog = "task"]
  /\ UNCHANGED <<server, flight, past>>

SearchUsers(name) == view.dialog = "operator" /\ Ask("search", name) /\ UNCHANGED view

\* handleSearchUsers of an empty field.
ClearSearch ==
  /\ view.dialog = "operator" /\ view.found # {}
  /\ view' = [view EXCEPT !.found = {}]
  /\ UNCHANGED <<server, flight, past>>

\* Picking one of the users that the last answer listed.
SelectUser(name) ==
  /\ view.dialog = "operator" /\ name \in view.found /\ name # view.selected
  /\ view' = [view EXCEPT !.selected = name]
  /\ UNCHANGED <<server, flight, past>>

\* The other dialog stays open.
NoOperator(v) == [v EXCEPT !.dialog = IF @ = "operator" THEN "none" ELSE @,
                           !.found = {}, !.selected = None]

\* The button of the dialog for operators.
Cancel ==
  /\ view.dialog = "operator"
  /\ view' = NoOperator(view)
  /\ UNCHANGED <<server, flight, past>>

\* Escape and a click beside a dialog keep what it has, and so does the button of the
\* dialog for tasks, whose fields are typed when it is used.
CloseDialog ==
  /\ ~Behind
  /\ view' = [view EXCEPT !.dialog = "none"]
  /\ UNCHANGED <<server, flight, past>>

AddNodeOp ==
  /\ view.dialog = "operator" /\ view.selected # None
  /\ Ask("grant", view.selected)
  /\ UNCHANGED view

RemoveNodeOp(name) ==
  /\ Behind /\ name \in view.shown.operators
  /\ Ask("revoke", name)
  /\ UNCHANGED view

CreateTask ==
  /\ view.dialog = "task" /\ ~view.creating
  /\ view' = [view EXCEPT !.creating = TRUE]
  /\ Ask("task", None)

-----------------------------------------------------------------------------
(* The director. *)

Threads == {i \in DOMAIN flight : flight[i].op \in Edits /\ flight[i].outcome = "none"
                                                         /\ flight[i].data # {}}

AtWork == Threads # {} \/ server.heartbeat # None

\* _load_store.  The snapshot is wrapped, as the list may be empty.
Reads(i) ==
  /\ flight[i].op \in Edits /\ flight[i].outcome = "none" /\ flight[i].data = {}
  /\ flight' = Served(flight, i, "none", {server.blacklist})
  /\ past' = [past EXCEPT !.overlap = @ \/ AtWork]
  /\ UNCHANGED <<server, view>>

NewId(blacklist) == Cardinality(blacklist) + 1

\* POST /blacklist.
NewEntry(i, blacklist) == [id |-> NewId(blacklist), ip |-> flight[i].arg, nr |-> server.given]

\* Wrong variant: that entry and the ones after it.
Truncated(i, blacklist) == {e \in blacklist : e.id < flight[i].arg}

\* DELETE /blacklist/<id>.
Removed(i, blacklist) == {e \in blacklist : e.id # flight[i].arg}

\* _save_store and the answer.
Writes(i) ==
  LET snapshot == CHOOSE b \in flight[i].data : TRUE
      new == IF flight[i].op = "add" THEN {NewEntry(i, snapshot)} ELSE {}
  IN /\ i \in Threads
     /\ flight' = Served(flight, i, "ok", {})
     /\ server' = [server EXCEPT !.blacklist = IF flight[i].op = "add" THEN snapshot \cup new
                                               ELSE Removed(i, snapshot),
                                 !.given = @ + Cardinality(new)]
     /\ past' = [past EXCEPT !.added = @ \cup new]
     /\ UNCHANGED view

\* A heartbeat of another service.
HeartbeatReads ==
  /\ server.heartbeat = None
  /\ past.steps < MaxSteps
  /\ server' = [server EXCEPT !.heartbeat = {server.blacklist}]
  /\ past' = [Acted EXCEPT !.overlap = @ \/ AtWork]
  /\ UNCHANGED <<view, flight>>

HeartbeatWrites ==
  /\ server.heartbeat # None
  /\ server' = [server EXCEPT !.heartbeat = None,
                              !.blacklist = CHOOSE b \in server.heartbeat : TRUE]
  /\ UNCHANGED <<view, flight, past>>

-----------------------------------------------------------------------------
(* cityhall, sp1d3r and the lists. *)

ServeList(i) ==
  /\ flight[i].op \in Lists /\ flight[i].outcome = "none"
  /\ flight' = Served(flight, i, "ok", server[flight[i].op])
  /\ UNCHANGED <<server, view, past>>

ServeSearch(i) ==
  /\ i \in Waiting(flight, "search")
  /\ flight' = Served(flight, i, "ok", {flight[i].arg})
  /\ UNCHANGED <<server, view, past>>

\* A change waits for the lock that another one has on the user until it is committed;
\* what is set to the value it has needs no statement.
Setting(i, op, on) ==
  LET change == [name |-> flight[i].arg, on |-> on]
      changes == IF (change.name \in server.operators) = on THEN {} ELSE {change}
  IN /\ i \in Waiting(flight, op)
     /\ changes # {} => \A other \in server.open : other.name # change.name
     /\ flight' = Served(flight, i, "ok", {})
     /\ server' = [server EXCEPT !.open = @ \cup changes]
     /\ UNCHANGED <<view, past>>

ServeGrant(i) == Setting(i, "grant", TRUE)

ServeRevoke(i) == Setting(i, "revoke", FALSE)

\* get_session.
Commit(change) ==
  /\ change \in server.open
  /\ server' = [server EXCEPT !.open = @ \ {change},
                              !.operators = (@ \ {change.name})
                                            \cup IF change.on THEN {change.name} ELSE {}]
  /\ flight' = Overtaken(flight, {"operators"})
  /\ past' = [past EXCEPT !.stale =
                StaleAfterCommit(@, flight, {"grant", "revoke"}, {"operators"})]
  /\ UNCHANGED view

ServeTask(i) ==
  /\ i \in Waiting(flight, "task")
  /\ flight' = Served(flight, i, "ok", {})
  /\ server' = [server EXCEPT !.tasks = @ + 1]
  /\ UNCHANGED <<view, past>>

Fail(i) ==
  /\ past.faults < MaxFaults
  /\ flight[i].outcome # "throws" /\ i \notin Threads
  /\ flight' = Served(flight, i, "throws", {})
  /\ past' = [past EXCEPT !.faults = @ + 1]
  /\ UNCHANGED <<server, view>>

-----------------------------------------------------------------------------
(* What the handlers do with the answers. *)

HandleList(i) ==
  LET r == flight[i]
  IN /\ r.op \in Lists /\ r.outcome # "none"
     /\ view' = IF r.outcome = "ok" THEN [view EXCEPT !.shown[r.op] = r.data] ELSE view
     /\ flight' = Handled(flight, i)
     /\ past' = [past EXCEPT !.stale = StaleAfterLoad(@, r)]
     /\ UNCHANGED server

\* The answers may arrive in another order than they were asked for, and after the dialog
\* was closed.
HandleSearch(i) ==
  /\ i \in Answers(flight, "search")
  /\ view' = IF flight[i].outcome = "ok" THEN [view EXCEPT !.found = flight[i].data] ELSE view
  /\ flight' = Handled(flight, i)
  /\ UNCHANGED <<server, past>>

\* Every other handler loads its list again, unless its request threw.
Continued(i, list, v) ==
  LET thrown == flight[i].outcome = "throws"
      rest == Handled(flight, i)
  IN /\ flight[i].outcome # "none"
     /\ view' = IF thrown THEN view ELSE v
     /\ flight' = IF thrown THEN Outdated(rest, {list}) ELSE Append(rest, Load(list))
     /\ past' = [past EXCEPT !.stale = IF thrown THEN @ \cup {list} ELSE @]
     /\ UNCHANGED server

HandleBlacklist(i) == flight[i].op \in Edits /\ Continued(i, "blacklist", view)

\* handleAddNodeOp closes its dialog and forgets the user who is selected by then.
HandleAddNodeOp(i) ==
  /\ flight[i].op = "grant"
  /\ Continued(i, "operators", NoOperator(view))

HandleRemoveNodeOp(i) == flight[i].op = "revoke" /\ Continued(i, "operators", view)

HandleCreateTask(i) ==
  /\ flight[i].op = "task"
  /\ Continued(i, "tasks", [view EXCEPT !.creating = FALSE,
                                        !.dialog = IF @ = "task" THEN "none" ELSE @])

-----------------------------------------------------------------------------
(* The specification. *)

Init ==
  LET first == {[id |-> 1, ip |-> CHOOSE ip \in Names : TRUE, nr |-> 0]}
  IN /\ server = [blacklist |-> first, given |-> 1, operators |-> {}, tasks |-> 0,
                  open |-> {}, heartbeat |-> None]
     /\ view = [shown |-> [blacklist |-> first, operators |-> {}, tasks |-> 0],
                dialog |-> "none", found |-> {}, selected |-> None, creating |-> FALSE]
     /\ flight = <<>>
     /\ past = [stale |-> {}, added |-> first, asked |-> {}, overlap |-> FALSE, steps |-> 0,
                faults |-> 0]

Next ==
  \/ RefreshAll \/ OpenAddNodeOp \/ OpenCreateTask \/ Cancel \/ CloseDialog \/ ClearSearch
  \/ AddNodeOp \/ CreateTask
  \/ \E name \in Names : AddBlacklist(name) \/ SearchUsers(name) \/ SelectUser(name)
                         \/ RemoveNodeOp(name)
  \/ \E e \in view.shown.blacklist : DeleteBlacklist(e)
  \/ HeartbeatReads \/ HeartbeatWrites
  \/ \E change \in server.open : Commit(change)
  \/ \E i \in DOMAIN flight :
       \/ Reads(i) \/ Writes(i) \/ ServeList(i) \/ ServeSearch(i) \/ ServeGrant(i)
       \/ ServeRevoke(i) \/ ServeTask(i) \/ Fail(i)
       \/ HandleList(i) \/ HandleSearch(i) \/ HandleBlacklist(i) \/ HandleAddNodeOp(i)
       \/ HandleRemoveNodeOp(i) \/ HandleCreateTask(i)

Spec == Init /\ [][Next]_vars

-----------------------------------------------------------------------------
(* Properties. *)

\* Lists, dialogs and requests keep their types.
TypeOK ==
  /\ server.blacklist \cup view.shown.blacklist \subseteq Entries
  /\ server.operators \cup view.shown.operators \subseteq Names
  /\ view.shown.tasks \in 0..server.tasks
  /\ view.dialog \in {"none", "operator", "task"} /\ view.found \subseteq Names
  /\ view.selected \in Names \cup {None}
  /\ \A i \in DOMAIN flight :
       IsRequest(flight[i], Lists \cup Edits \cup {"search", "grant", "revoke", "task"})

\* When nothing is in flight, each list that was not left outdated by an answer that was
\* late or lost, or by a commit after the load that followed, is what its service has; the
\* blacklist only if no threads overlapped.
ViewConverges ==
  flight = <<>> =>
    \A list \in Lists \ past.stale :
      \/ list = "blacklist" /\ past.overlap
      \/ view.shown[list] = server[list]

\* An address that was added to the blacklist stays until a row with its id is deleted on
\* the page, its own or one that was given the same id, unless threads of the director
\* overlapped.
RemovedAsAsked ==
  past.overlap \/ {e \in past.added : e.id \notin past.asked} \subseteq server.blacklist
=============================================================================
