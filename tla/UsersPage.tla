----------------------------- MODULE UsersPage -----------------------------
(***************************************************************************)
(* The administrator's user list: pages/admin/UserManagement.tsx against   *)
(* cityhall's routers/admin.py.                                            *)
(*                                                                         *)
(* A handler waits for its own request and then loads the list again, with *)
(* the query that was in the field when it was started.  Nothing keeps the *)
(* user from starting the next one meanwhile.                              *)
(*                                                                         *)
(* Abstractions: a user is a name, one role flag and the suspension; a     *)
(* query is a name; all users fit on one page of the list; no other        *)
(* administrator works at the same time; a change to a user reads the row  *)
(* when it has the lock on it.                                             *)
(***************************************************************************)
EXTENDS Fetch

CONSTANTS
  Names,         \* user names
  None,          \* no query, no dialog
  MaxSteps,      \* bound: what the administrator does
  MaxFlight,     \* bound: requests in flight when a handler starts
  MaxFaults      \* bound: requests that fail

VARIABLES server, view, flight, past

vars == <<server, view, flight, past>>

Users == [name : Names, role : BOOLEAN, suspended : BOOLEAN]

Changes == {"put", "suspend", "unsuspend", "post", "delete"}

NewUser(name, role) == [name |-> name, role |-> role, suspended |-> FALSE]

-----------------------------------------------------------------------------
(* The page. *)

Load(query) == Request("users", query)

\* Starting a handler, with the query that it sees.
Ask(op, about) ==
  /\ past.steps < MaxSteps /\ Len(flight) < MaxFlight
  /\ flight' = Append(flight, Request(op, [about |-> about, query |-> view.query]))
  /\ past' = [past EXCEPT !.steps = @ + 1]

Search(query) ==
  /\ past.steps < MaxSteps /\ Len(flight) < MaxFlight
  /\ view' = [view EXCEPT !.query = query]
  /\ flight' = Append(flight, Load(query))
  /\ past' = [past EXCEPT !.steps = @ + 1]
  /\ UNCHANGED server

\* The buttons of a row.
OffersSuspend(u) == u \in view.shown /\ ~u.suspended

OffersUnsuspend(u) == u \in view.shown /\ u.suspended

Suspend(u) == OffersSuspend(u) /\ Ask("suspend", u.name) /\ UNCHANGED <<server, view>>

Unsuspend(u) == OffersUnsuspend(u) /\ Ask("unsuspend", u.name) /\ UNCHANGED <<server, view>>

Delete(u) == u \in view.shown /\ Ask("delete", u.name) /\ UNCHANGED <<server, view>>

\* handleEdit copies the row as it is shown.
Edit(u) ==
  /\ u \in view.shown /\ view.selected = None
  /\ view' = [view EXCEPT !.selected = u]
  /\ UNCHANGED <<server, flight, past>>

\* The dialog sends all of its fields, those that nobody touched included.
SaveEdit(role) ==
  /\ view.selected # None
  /\ Ask("put", [view.selected EXCEPT !.role = role])
  /\ UNCHANGED <<server, view>>

CancelEdit ==
  /\ view.selected # None
  /\ view' = [view EXCEPT !.selected = None]
  /\ UNCHANGED <<server, flight, past>>

Create(name, role) ==
  /\ view.selected = None
  /\ Ask("post", NewUser(name, role))
  /\ UNCHANGED <<server, view>>

-----------------------------------------------------------------------------
(* cityhall. *)

Named(name) == {u \in server.users : u.name = name}

Matching(query) == IF query = None THEN server.users ELSE Named(query)

\* A statement: what becomes of the rows with these names, or a new row.
Change(names, users) == [names |-> names, users |-> users]

\* The lock on a row, or on the name of a new one, until it is committed.
Locked(name) == \E change \in server.open : \E u \in change.users : u.name = name

Answer(i, outcome, changes) ==
  /\ flight' = Served(flight, i, outcome, {})
  /\ server' = [server EXCEPT !.open = @ \cup changes]
  /\ UNCHANGED <<view, past>>

ServeList(i) ==
  /\ i \in Waiting(flight, "users")
  /\ flight' = Served(flight, i, "ok", Matching(flight[i].arg))
  /\ UNCHANGED <<server, view, past>>

\* update_user, suspend_user and unsuspend_user set fields of a user that exists.  What is
\* set to the value it has needs no statement.
Updating(i, name, Field(_)) ==
  LET after == {Field(u) : u \in Named(name)}
  IN IF after = Named(name) THEN Answer(i, IF after = {} THEN "refused" ELSE "ok", {})
     ELSE ~Locked(name) /\ Answer(i, "ok", {Change({name}, after)})

ServePut(i) ==
  /\ i \in Waiting(flight, "put")
  /\ LET Field(u) == [u EXCEPT !.role = flight[i].arg.about.role]
     IN Updating(i, flight[i].arg.about.name, Field)

ServeSuspend(i) ==
  /\ i \in Waiting(flight, "suspend")
  /\ LET Field(u) == [u EXCEPT !.suspended = TRUE] IN Updating(i, flight[i].arg.about, Field)

ServeUnsuspend(i) ==
  /\ i \in Waiting(flight, "unsuspend")
  /\ LET Field(u) == [u EXCEPT !.suspended = FALSE] IN Updating(i, flight[i].arg.about, Field)

ServePost(i) ==
  LET user == flight[i].arg.about
  IN /\ i \in Waiting(flight, "post")
     /\ IF Named(user.name) # {} THEN Answer(i, "refused", {})
        ELSE ~Locked(user.name) /\ Answer(i, "ok", {Change({}, {user})})

\* delete_user answers 204.  Its statement is sent with the commit, and fails then if
\* the user has rows in other tables.
ServeDelete(i) ==
  LET name == flight[i].arg.about
  IN /\ i \in Waiting(flight, "delete")
     /\ IF Named(name) = {} THEN Answer(i, "refused", {})
        ELSE \E changes \in {{}, {Change({name}, {})}} : Answer(i, "throws", changes)

\* get_session; a deletion waits for the lock.
Commit(change) ==
  /\ change \in server.open
  /\ change.users = {} => \A name \in change.names : ~Locked(name)
  /\ server' = [server EXCEPT !.open = @ \ {change},
                              !.users = {u \in @ : u.name \notin change.names} \cup change.users]
  /\ flight' = Overtaken(flight, {"users"})
  /\ past' = [past EXCEPT !.stale = StaleAfterCommit(@, flight, Changes, {"users"})]
  /\ UNCHANGED view

Fail(i) ==
  /\ past.faults < MaxFaults
  /\ flight[i].outcome # "throws"
  /\ flight' = Served(flight, i, "throws", {})
  /\ past' = [past EXCEPT !.faults = @ + 1]
  /\ UNCHANGED <<server, view>>

-----------------------------------------------------------------------------
(* What the handlers do with the answers. *)

\* loadUsers.
HandleList(i) ==
  LET r == flight[i]
  IN /\ i \in Answers(flight, "users")
     /\ view' = IF r.outcome = "ok" THEN [view EXCEPT !.shown = r.data, !.of = r.arg] ELSE view
     /\ flight' = Handled(flight, i)
     /\ past' = [past EXCEPT !.stale = StaleAfterLoad(@, r)]
     /\ UNCHANGED server

\* After its own request a handler loads the list again if the answer was good.
Continued(i, v) ==
  LET r == flight[i]
      rest == Handled(flight, i)
  IN /\ view' = IF r.outcome = "ok" THEN v ELSE view
     /\ flight' = CASE r.outcome = "ok" -> Append(rest, Load(r.arg.query))
                    [] r.outcome = "throws" -> Outdated(rest, {"users"})
                    [] OTHER -> rest
     /\ past' = [past EXCEPT !.stale = IF r.outcome = "throws" THEN @ \cup {"users"} ELSE @]
     /\ UNCHANGED server

HandleRow(i) ==
  /\ flight[i].op \in {"delete", "suspend", "unsuspend", "post"} /\ flight[i].outcome # "none"
  /\ Continued(i, view)

\* handleSaveEdit closes the dialog, whichever user it is open for by then.
HandleSaveEdit(i) ==
  /\ i \in Answers(flight, "put")
  /\ Continued(i, [view EXCEPT !.selected = None])

-----------------------------------------------------------------------------
(* The specification. *)

Init ==
  /\ server = [users |-> {NewUser(name, FALSE) : name \in Names \ {CHOOSE name \in Names : TRUE}},
               open |-> {}]
  /\ view = [shown |-> {}, of |-> None, query |-> None, selected |-> None]
  /\ flight = <<Load(None)>>
  /\ past = [stale |-> {}, steps |-> 0, faults |-> 0]

Next ==
  \/ \E query \in Names \cup {None} : Search(query)
  \/ \E u \in view.shown : Suspend(u) \/ Unsuspend(u) \/ Delete(u) \/ Edit(u)
  \/ \E role \in BOOLEAN : SaveEdit(role)
  \/ CancelEdit
  \/ \E name \in Names, role \in BOOLEAN : Create(name, role)
  \/ \E change \in server.open : Commit(change)
  \/ \E i \in DOMAIN flight :
       \/ ServeList(i) \/ ServePut(i) \/ ServeSuspend(i) \/ ServeUnsuspend(i)
       \/ ServePost(i) \/ ServeDelete(i) \/ Fail(i)
       \/ HandleList(i) \/ HandleRow(i) \/ HandleSaveEdit(i)

Spec == Init /\ [][Next]_vars

-----------------------------------------------------------------------------
(* Properties. *)

\* Rows, dialog and requests keep their types.
TypeOK ==
  /\ server.users \subseteq Users
  /\ server.open \subseteq [names : SUBSET Names, users : SUBSET Users]
  /\ view.shown \subseteq Users
  /\ view.selected \in Users \cup {None}
  /\ \A i \in DOMAIN flight : IsRequest(flight[i], {"users"} \cup Changes)

\* When nothing is in flight the list is cityhall's answer to its query now, unless
\* an answer was late or lost, or was the empty one to a deletion, or a commit came after
\* the load that followed.
ViewConverges ==
  flight = <<>> /\ past.stale = {} => view.shown = Matching(view.of)
=============================================================================
