---------------------------- MODULE KeywordsPage ----------------------------
(***************************************************************************)
(* The user's keywords: pages/dashboard/UserKeywords.tsx against cityhall's*)
(* routers/keywords.py.                                                    *)
(*                                                                         *)
(* No button of the page is ever off, so that a keyword may be added or    *)
(* switched twice before the first answer.  A switch sends the state that  *)
(* the row on the page asks for, not a change.                             *)
(*                                                                         *)
(* Abstractions: an account has no matches, as the only handler that       *)
(* creates them (internal/match-bulk) never commits, so that the handlers  *)
(* for matches are left out and the three requests of a load are one.      *)
(*                                                                         *)
(* cityhall works on several requests at once, and nothing but the check   *)
(* of create_keyword keeps a word from being stored twice: two that overlap*)
(* both find no such word.                                                 *)
(***************************************************************************)
EXTENDS Fetch

CONSTANTS
  Names,         \* keywords
  MaxSteps,      \* bound: what the user does
  MaxFlight,     \* bound: requests in flight when a handler starts
  MaxFaults      \* bound: requests that fail

VARIABLES server, view, flight, past

vars == <<server, view, flight, past>>

Changes == {"post", "patch", "delete"}

-----------------------------------------------------------------------------
(* The page. *)

\* loadAll, up to its await.
LoadAll == Request("keywords", {})

Ask(op, arg) ==
  /\ past.steps < MaxSteps /\ Len(flight) < MaxFlight
  /\ flight' = Append(flight, Request(op, arg))
  /\ past' = [past EXCEPT !.steps = @ + 1]
  /\ UNCHANGED <<server, view>>

\* The dialog covers the table.
OffersRows == ~view.adding

\* The button and the Enter key of the dialog.
OffersAdd == view.adding

SetAddOpen(open) ==
  /\ open # view.adding
  /\ view' = [view EXCEPT !.adding = open]
  /\ UNCHANGED <<server, flight, past>>

AddKeyword(word) == OffersAdd /\ Ask("post", word)

DeleteKeyword(row) == OffersRows /\ Ask("delete", row.id)

ToggleKeyword(row) == OffersRows /\ Ask("patch", [id |-> row.id, active |-> ~row.active])

-----------------------------------------------------------------------------
(* cityhall. *)

WithId(id) == {row \in server.rows : row.id = id}

\* A statement: what becomes of the rows with these ids, or new rows.
Change(ids, rows) == [ids |-> ids, rows |-> rows]

\* The lock that a change has on its row until it is committed.
Locked(id) == \E change \in server.open : id \in change.ids

Answer(i, outcome, changes) ==
  /\ flight' = Served(flight, i, outcome, {})
  /\ server' = [server EXCEPT !.open = @ \cup changes]
  /\ UNCHANGED <<view, past>>

ServeList(i) ==
  /\ i \in Waiting(flight, "keywords")
  /\ flight' = Served(flight, i, "ok", server.rows)
  /\ UNCHANGED <<server, view, past>>

\* create_keyword.
WithWord(word) == {row \in server.rows : row.word = word}

NewRow(word) == [id |-> server.next, word |-> word, active |-> TRUE]

PostNew(i) ==
  /\ WithWord(flight[i].arg) = {}
  /\ flight' = Served(flight, i, "ok", {})
  /\ server' = [server EXCEPT !.open = @ \cup {Change({}, {NewRow(flight[i].arg)})},
                              !.next = @ + 1]
  /\ UNCHANGED <<view, past>>

\* The check asks for one row at most: two of them are a plain 500.
PostAgain(i) ==
  LET same == WithWord(flight[i].arg)
  IN \E row \in same : Answer(i, IF same = {row} THEN "refused" ELSE "throws", {})

ServePost(i) == i \in Waiting(flight, "post") /\ (PostNew(i) \/ PostAgain(i))

\* update_keyword.  What is set to the value it has needs no statement.
ServePatch(i) ==
  LET r == flight[i].arg
      before == WithId(r.id)
      after == {[row EXCEPT !.active = r.active] : row \in before}
  IN /\ i \in Waiting(flight, "patch")
     /\ IF after = before THEN Answer(i, IF before = {} THEN "refused" ELSE "ok", {})
        ELSE ~Locked(r.id) /\ Answer(i, "ok", {Change({r.id}, after)})

\* delete_keyword answers 204.
ServeDelete(i) ==
  LET id == flight[i].arg
  IN /\ i \in Waiting(flight, "delete") /\ ~Locked(id)
     /\ IF WithId(id) = {} THEN Answer(i, "refused", {})
        ELSE Answer(i, "throws", {Change({id}, {})})

\* get_session.
Commit(change) ==
  /\ change \in server.open
  /\ server' = [server EXCEPT !.open = @ \ {change},
                              !.rows = {row \in @ : row.id \notin change.ids} \cup change.rows]
  /\ flight' = Overtaken(flight, {"keywords"})
  /\ past' = [past EXCEPT !.stale = StaleAfterCommit(@, flight, Changes, {"keywords"})]
  /\ UNCHANGED view

Fail(i) ==
  /\ past.faults < MaxFaults
  /\ flight[i].outcome # "throws"
  /\ flight' = Served(flight, i, "throws", {})
  /\ past' = [past EXCEPT !.faults = @ + 1]
  /\ UNCHANGED <<server, view>>

-----------------------------------------------------------------------------
(* What the handlers do with the answers. *)

\* The rest of loadAll, without which an empty table keeps saying "Loading...".
HandleList(i) ==
  LET r == flight[i]
  IN /\ i \in Answers(flight, "keywords")
     /\ view' = IF r.outcome = "ok" THEN [view EXCEPT !.shown = r.data, !.loading = FALSE] ELSE view
     /\ flight' = Handled(flight, i)
     /\ past' = [past EXCEPT !.stale = StaleAfterLoad(@, r)]
     /\ UNCHANGED server

\* The list is loaded again whatever the status, unless the request threw.
Continued(i, v) ==
  LET thrown == flight[i].outcome = "throws"
      rest == Handled(flight, i)
  IN /\ view' = IF thrown THEN view ELSE [v EXCEPT !.loading = TRUE]
     /\ flight' = IF thrown THEN Outdated(rest, {"keywords"}) ELSE Append(rest, LoadAll)
     /\ past' = [past EXCEPT !.stale = IF thrown THEN @ \cup {"keywords"} ELSE @]
     /\ UNCHANGED server

\* The dialog closes even if the keyword was refused, or was opened anew.
HandleAdd(i) == i \in Answers(flight, "post") /\ Continued(i, [view EXCEPT !.adding = FALSE])

HandleDelete(i) == i \in Answers(flight, "delete") /\ Continued(i, view)

HandleToggle(i) == i \in Answers(flight, "patch") /\ Continued(i, view)

-----------------------------------------------------------------------------
(* The specification. *)

\* An account with one keyword.
Init ==
  /\ \E word \in Names :
       server = [rows |-> {[id |-> 1, word |-> word, active |-> TRUE]}, open |-> {}, next |-> 2]
  /\ view = [shown |-> {}, loading |-> TRUE, adding |-> FALSE]
  /\ flight = <<LoadAll>>
  /\ past = [stale |-> {}, steps |-> 0, faults |-> 0]

Next ==
  \/ \E open \in BOOLEAN : SetAddOpen(open)
  \/ \E word \in Names : AddKeyword(word)
  \/ \E row \in view.shown : DeleteKeyword(row) \/ ToggleKeyword(row)
  \/ \E change \in server.open : Commit(change)
  \/ \E i \in DOMAIN flight :
       \/ ServeList(i) \/ ServePost(i) \/ ServePatch(i) \/ ServeDelete(i) \/ Fail(i)
       \/ HandleList(i) \/ HandleAdd(i) \/ HandleDelete(i) \/ HandleToggle(i)

Spec == Init /\ [][Next]_vars

-----------------------------------------------------------------------------
(* Properties. *)

\* Rows, dialog and requests keep their types.
TypeOK ==
  /\ \A row \in UNION ({server.rows, view.shown} \cup {change.rows : change \in server.open}) :
       row.id \in 1..server.next - 1 /\ row.word \in Names
  /\ view.loading \in BOOLEAN /\ view.adding \in BOOLEAN
  /\ \A i \in DOMAIN flight : IsRequest(flight[i], {"keywords"} \cup Changes)

\* When nothing is in flight the table has cityhall's keywords, unless an answer was late or
\* lost, or was the empty one to a deletion, or a commit came after the load that followed.
ViewConverges ==
  flight = <<>> /\ past.stale = {} => view.shown = server.rows /\ ~view.loading
=============================================================================
