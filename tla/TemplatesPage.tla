--------------------------- MODULE TemplatesPage ---------------------------
(***************************************************************************)
(* The administrator's letter templates: pages/admin/Documents.tsx against *)
(* the lawyer (lawyer/app.py), which passes everything on to the historian *)
(* (historian/app.py).                                                     *)
(*                                                                         *)
(* Preview and edit fetch a template first and open their dialog when the  *)
(* answer is there, by which time another dialog may be open.  The two     *)
(* share one name and one text, which is what Save sends.  A save is a     *)
(* store, so it brings back a template that was deleted meanwhile.         *)
(*                                                                         *)
(* The historian serves requests in threads, and each reads the whole store*)
(* from its file, changes its copy and writes it back.  The lawyer answers *)
(* 502 when it gets no good answer, even if the historian has stored: the  *)
(* page takes that for a failure and loads nothing.                        *)
(*                                                                         *)
(* Abstractions: a text is the name of the template it was written for and *)
(* the number of the step in which it was; the user edits the text when it *)
(* is saved; two threads that write the file at the same time leave it as  *)
(* one of them wrote it.                                                   *)
(***************************************************************************)
EXTENDS Fetch, FiniteSets

CONSTANTS
  Names,         \* names of templates
  None,          \* no name
  MaxSteps,      \* bound: what the administrator does
  MaxFlight,     \* bound: requests in flight when a handler starts
  MaxFaults      \* bound: requests that fail

VARIABLES server, view, flight, past

vars == <<server, view, flight, past>>

Texts == [of : Names, rev : 0..MaxSteps]

Changes == {"post", "put", "delete"}

Dialogs == {"create", "preview", "edit"}

-----------------------------------------------------------------------------
(* The page. *)

Load == Request("templates", None)

Ask(op, arg) ==
  /\ past.steps < MaxSteps /\ Len(flight) < MaxFlight
  /\ flight' = Append(flight, Request(op, arg))
  /\ past' = [past EXCEPT !.steps = @ + 1]
  /\ UNCHANGED <<server, view>>

\* The text that the user types now.
Typed(name) == [of |-> name, rev |-> past.steps + 1]

\* An open dialog covers the page.
Behind == view.open = {}

OpenCreate ==
  /\ Behind
  /\ view' = [view EXCEPT !.open = {"create"}]
  /\ UNCHANGED <<server, flight, past>>

Close(dialog) ==
  /\ dialog \in view.open
  /\ view' = [view EXCEPT !.open = @ \ {dialog}]
  /\ UNCHANGED <<server, flight, past>>

Create(name) == "create" \in view.open /\ Ask("post", [name |-> name, text |-> Typed(name)])

Preview(name) == Behind /\ name \in view.shown /\ Ask("preview", name)

Edit(name) == Behind /\ name \in view.shown /\ Ask("edit", name)

\* handleSave: the name and the text that the page has by now.
Save ==
  /\ "edit" \in view.open
  /\ Ask("put", [name |-> view.active, text |-> Typed(view.text.of)])

Delete(name) == Behind /\ name \in view.shown /\ Ask("delete", name)

-----------------------------------------------------------------------------
(* The lawyer and the historian. *)

Stored == DOMAIN server

Answer(i, outcome, data, after) ==
  /\ flight' = Served(flight, i, outcome, data)
  /\ server' = after
  /\ UNCHANGED <<view, past>>

ServeList(i) == i \in Waiting(flight, "templates") /\ Answer(i, "ok", Stored, server)

ServeGet(i) ==
  LET name == flight[i].arg
  IN /\ i \in Waiting(flight, "preview") \cup Waiting(flight, "edit")
     /\ IF name \in Stored THEN Answer(i, "ok", server[name], server)
        ELSE Answer(i, "refused", {}, server)

\* The historian's threads that have read the store.
Threads == {i \in DOMAIN flight : flight[i].op \in Changes /\ flight[i].outcome = "none"
                                                           /\ flight[i].data # {}}

\* _load_store; the snapshot is wrapped, as the store may be empty.
Reads(i) ==
  /\ flight[i].op \in Changes /\ flight[i].outcome = "none" /\ flight[i].data = {}
  /\ IF flight[i].op = "delete" /\ flight[i].arg \notin Stored
     THEN Answer(i, "refused", {}, server)
     ELSE Answer(i, "none", {server}, server)

\* POST and PUT of the lawyer are the same POST to the historian.
AfterStore(r, store) ==
  [name \in DOMAIN store \cup {r.name} |-> IF name = r.name THEN r.text ELSE store[name]]

AfterDelete(name, store) == [n \in DOMAIN store \ {name} |-> store[n]]

Written(i) ==
  LET store == CHOOSE s \in flight[i].data : TRUE
  IN IF flight[i].op = "delete" THEN AfterDelete(flight[i].arg, store)
     ELSE AfterStore(flight[i].arg, store)

\* _save_store and the answer.
Writes(i) == i \in Threads /\ Answer(i, "ok", {}, Written(i))

\* _save_store, and a 502 of the lawyer, to which the answer was lost.
WritesUnanswered(i) ==
  /\ i \in Threads
  /\ past.faults < MaxFaults
  /\ flight' = Overtaken(Served(flight, i, "refused", {}), {"templates"})
  /\ server' = Written(i)
  /\ past' = [past EXCEPT !.faults = @ + 1,
                          !.stale = StaleAfterCommit(@, flight, Changes, {"templates"})]
  /\ UNCHANGED view

\* The 502 of a historian that does not answer, or finds its file half written.
Unreachable(i) ==
  /\ past.faults < MaxFaults
  /\ flight[i].outcome = "none" /\ i \notin Threads
  /\ flight' = Served(flight, i, "refused", {})
  /\ past' = [past EXCEPT !.faults = @ + 1]
  /\ UNCHANGED <<server, view>>

Fail(i) ==
  /\ past.faults < MaxFaults
  /\ flight[i].outcome # "throws" /\ i \notin Threads
  /\ flight' = Served(flight, i, "throws", {})
  /\ past' = [past EXCEPT !.faults = @ + 1]
  /\ UNCHANGED <<server, view>>

-----------------------------------------------------------------------------
(* What the handlers do with the answers. *)

HandleList(i) ==
  LET r == flight[i]
  IN /\ i \in Answers(flight, "templates")
     /\ view' = IF r.outcome = "ok" THEN [view EXCEPT !.shown = r.data] ELSE view
     /\ flight' = Handled(flight, i)
     /\ past' = [past EXCEPT !.stale = StaleAfterLoad(@, r)]
     /\ UNCHANGED server

\* Wrong variant: the name stays that of the dialog before.
OpenedUnnamed(i, dialog) ==
  [view EXCEPT !.text = flight[i].data, !.open = @ \cup {dialog},
               !.active = IF @ = None THEN flight[i].arg ELSE @]

\* Name, text and dialog are set together, after the await.
Opened(i, dialog) ==
  [view EXCEPT !.active = flight[i].arg, !.text = flight[i].data, !.open = @ \cup {dialog}]

Fetched(i, dialog) ==
  /\ i \in Answers(flight, dialog)
  /\ view' = IF flight[i].outcome = "ok" THEN Opened(i, dialog) ELSE view
  /\ flight' = Handled(flight, i)
  /\ UNCHANGED <<server, past>>

HandlePreview(i) == Fetched(i, "preview")

HandleEdit(i) == Fetched(i, "edit")

\* The list is loaded again after a good answer.
Continued(i, v) ==
  LET r == flight[i]
      rest == Handled(flight, i)
  IN /\ view' = IF r.outcome = "ok" THEN v ELSE view
     /\ flight' = CASE r.outcome = "ok" -> Append(rest, Load)
                    [] r.outcome = "throws" -> Outdated(rest, {"templates"})
                    [] OTHER -> rest
     /\ past' = [past EXCEPT !.stale = IF r.outcome = "throws" THEN @ \cup {"templates"} ELSE @]
     /\ UNCHANGED server

HandleCreate(i) ==
  /\ i \in Answers(flight, "post")
  /\ Continued(i, [view EXCEPT !.open = @ \ {"create"}])

\* Whatever is being edited by then is closed.
HandleSave(i) ==
  /\ i \in Answers(flight, "put")
  /\ Continued(i, [view EXCEPT !.open = @ \ {"edit"}])

HandleDelete(i) == i \in Answers(flight, "delete") /\ Continued(i, view)

-----------------------------------------------------------------------------
(* The specification. *)

Init ==
  /\ server = [name \in Names |-> [of |-> name, rev |-> 0]]
  /\ view = [shown |-> {}, open |-> {}, active |-> None, text |-> None]
  /\ flight = <<Load>>
  /\ past = [stale |-> {}, steps |-> 0, faults |-> 0]

Next ==
  \/ OpenCreate \/ Save
  \/ \E dialog \in Dialogs : Close(dialog)
  \/ \E name \in Names : Create(name) \/ Preview(name) \/ Edit(name) \/ Delete(name)
  \/ \E i \in DOMAIN flight :
       \/ ServeList(i) \/ ServeGet(i) \/ Reads(i) \/ Writes(i) \/ WritesUnanswered(i)
       \/ Unreachable(i) \/ Fail(i)
       \/ HandleList(i) \/ HandlePreview(i) \/ HandleEdit(i)
       \/ HandleCreate(i) \/ HandleSave(i) \/ HandleDelete(i)

Spec == Init /\ [][Next]_vars

-----------------------------------------------------------------------------
(* Properties. *)

\* Texts, dialogs and requests keep their types, and an open text has a name.
TypeOK ==
  /\ Stored \subseteq Names /\ \A name \in Stored : server[name] \in Texts
  /\ view.shown \subseteq Names /\ view.open \subseteq Dialogs
  /\ view.open \cap {"preview", "edit"} # {} => view.active \in Names /\ view.text \in Texts
  /\ \A i \in DOMAIN flight : IsRequest(flight[i],
       {"templates", "preview", "edit"} \cup Changes)

\* When nothing is in flight the list has the names that the historian stores, unless an
\* answer was late, lost, or a 502 to what was stored.
ViewConverges ==
  flight = <<>> /\ past.stale = {} => view.shown = Stored

\* What is stored under a name was written for that name, in whatever order previews and
\* edits were answered and the historian's threads did their work.
SavedUnderItsName ==
  \A name \in Stored : server[name].of = name
=============================================================================
