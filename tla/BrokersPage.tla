---------------------------- MODULE BrokersPage ----------------------------
(***************************************************************************)
(* The administrator's list of data brokers: pages/admin/                  *)
(* BrokerManagement.tsx against cityhall's routers/admin.py.               *)
(*                                                                         *)
(* Files of brokers are read in the background: handleCsvFileChange starts *)
(* a reader, and parseCsv runs when it is through, whatever has happened to*)
(* the dialog meanwhile.  A file that does not parse leaves the rows of the*)
(* file before it.                                                         *)
(*                                                                         *)
(* Abstractions: a broker is an id and a name; a file is the set of names  *)
(* in it, and the empty set is a file that does not parse; a query is a    *)
(* name; the list has one page; the total count beside the list and the    *)
(* progress bars are left out; a change to a broker reads it, and an import*)
(* looks for its names, when the locks are there.                          *)
(***************************************************************************)
EXTENDS Fetch, FiniteSets, Functions

CONSTANTS
  Names,         \* names of brokers
  None,          \* no query, no dialog, no file
  MaxSteps,      \* bound: what the administrator does
  MaxFlight,     \* bound: requests in flight when a handler starts
  MaxFaults      \* bound: requests that fail

VARIABLES server, view, flight, past

vars == <<server, view, flight, past>>

Changes == {"post", "put", "delete", "csv"}

Files == {names \in SUBSET Names : IsFiniteSet(names)}

NoCsv == [open |-> FALSE, file |-> None, rows |-> {}, results |-> FALSE]

-----------------------------------------------------------------------------
(* The page. *)

MayAct == past.steps < MaxSteps /\ Len(flight) < MaxFlight

Acted == [past EXCEPT !.steps = @ + 1]

\* loadBrokers, up to the request.
LoadBrokers(query) == Request("brokers", query)

\* A handler starts, with the query and the dialog that it sees.
Ask(op, about) ==
  /\ MayAct /\ past' = Acted
  /\ flight' = Append(flight, Request(op, [about |-> about, query |-> view.search]))

\* The effect loads when the query changes.
SearchSubmit(query) ==
  /\ MayAct /\ past' = Acted
  /\ query # view.search
  /\ view' = [view EXCEPT !.search = query]
  /\ flight' = Append(flight, LoadBrokers(query))
  /\ UNCHANGED server

Refresh ==
  /\ MayAct /\ past' = Acted
  /\ flight' = Append(flight, LoadBrokers(view.search))
  /\ UNCHANGED <<server, view>>

\* Only one dialog is open at a time, and the page behind it is out of reach.
Behind == view.dialog = None /\ ~view.csv.open

OpenAddDialog ==
  /\ Behind
  /\ view' = [view EXCEPT !.dialog = [id |-> 0]]
  /\ UNCHANGED <<server, flight, past>>

\* The table offers it for each row.
OpenEditDialog(b) ==
  /\ Behind /\ b \in view.shown
  /\ view' = [view EXCEPT !.dialog = [id |-> b.id]]
  /\ UNCHANGED <<server, flight, past>>

CloseDialog ==
  /\ view.dialog # None
  /\ view' = [view EXCEPT !.dialog = None]
  /\ UNCHANGED <<server, flight, past>>

\* The form: both names are required, and the button is off while one is saved.
MaySave(name) == view.dialog # None /\ ~view.saving /\ name \in Names

SaveBroker(name) ==
  /\ MaySave(name)
  /\ view' = [view EXCEPT !.saving = TRUE]
  /\ Ask(IF view.dialog.id = 0 THEN "post" ELSE "put", [id |-> view.dialog.id, name |-> name])
  /\ UNCHANGED server

DeleteBroker(b) ==
  /\ Behind /\ b \in view.shown
  /\ Ask("delete", b)
  /\ UNCHANGED <<server, view>>

-----------------------------------------------------------------------------
(* The dialog for files. *)

OpenCsv ==
  /\ Behind
  /\ view' = [view EXCEPT !.csv = [NoCsv EXCEPT !.open = TRUE]]
  /\ past' = [past EXCEPT !.mixed = FALSE]
  /\ UNCHANGED <<server, flight>>

\* resetCsvDialog; readers go on.
ResetCsv == NoCsv

CloseCsv ==
  /\ view.csv.open
  /\ view' = [view EXCEPT !.csv = ResetCsv]
  /\ past' = [past EXCEPT !.mixed = FALSE]
  /\ UNCHANGED <<server, flight>>

CsvFileChange(file) ==
  /\ view.csv.open
  /\ past.steps < MaxSteps /\ past' = Acted
  /\ view' = [view EXCEPT !.csv.file = file, !.csv.results = FALSE, !.readers = @ \cup {file}]
  /\ UNCHANGED <<server, flight>>

\* parseCsv sets the rows or the errors.
Parsed(csv, file) == IF file = {} THEN csv ELSE [csv EXCEPT !.rows = file]

ReaderLoads(file) ==
  /\ file \in view.readers
  /\ view' = [view EXCEPT !.csv = Parsed(@, file), !.readers = @ \ {file}]
  /\ past' = [past EXCEPT !.mixed = file = {} \/ file # view.csv.file]
  /\ UNCHANGED <<server, flight>>

\* The preview with its button, until there are results.
ShowsPreview == view.csv.open /\ view.csv.rows # {} /\ ~view.csv.results

CsvImport ==
  /\ ShowsPreview /\ ~view.importing
  /\ view' = [view EXCEPT !.importing = TRUE]
  /\ Ask("csv", view.csv.rows)
  /\ UNCHANGED server

-----------------------------------------------------------------------------
(* cityhall. *)

Taken(name) == \E b \in server.brokers : b.name = name

WithId(id) == {b \in server.brokers : b.id = id}

Found(query) ==
  IF query = None THEN server.brokers ELSE {b \in server.brokers : b.name = query}

\* A statement: what becomes of the rows with these ids, or new rows.
Change(ids, brokers) == [ids |-> ids, brokers |-> brokers]

\* The locks on a row and on a name that was taken, until they are committed.
Locked(id) == \E change \in server.open : \E b \in change.brokers : b.id = id

Claimed(name) == \E change \in server.open : \E b \in change.brokers : b.name = name

Answer(i, outcome, changes) ==
  /\ flight' = Served(flight, i, outcome, {})
  /\ server' = [server EXCEPT !.open = @ \cup changes]
  /\ UNCHANGED <<view, past>>

ServeList(i) ==
  /\ i \in Waiting(flight, "brokers")
  /\ flight' = Served(flight, i, "ok", Found(flight[i].arg))
  /\ UNCHANGED <<server, view, past>>

\* New rows get the next ids, in one order or another.
NewRows(names) ==
  LET n == Cardinality(names)
      row == CHOOSE f \in Bijection(1..n, names) : TRUE
  IN {[id |-> server.next + k - 1, name |-> row[k]] : k \in 1..n}

Inserting(i, names) ==
  /\ \A name \in names : ~Claimed(name)
  /\ flight' = Served(flight, i, "ok", {})
  /\ server' = [server EXCEPT !.open = @ \cup {Change({}, NewRows(names))},
                              !.next = @ + Cardinality(names)]
  /\ UNCHANGED <<view, past>>

ServePost(i) ==
  LET name == flight[i].arg.about.name
  IN /\ i \in Waiting(flight, "post")
     /\ IF Taken(name) THEN Answer(i, "refused", {}) ELSE Inserting(i, {name})

\* update_broker does not look for the name: a second one breaks the unique column and
\* the answer is a plain 500.  What is set to the value it has needs no statement.
ServePut(i) ==
  LET b == flight[i].arg.about
      others == {c \in server.brokers : c.id # b.id /\ c.name = b.name}
  IN /\ i \in Waiting(flight, "put")
     /\ IF WithId(b.id) \subseteq {b}
        THEN Answer(i, IF WithId(b.id) = {} THEN "refused" ELSE "ok", {})
        ELSE /\ \A c \in {b} \cup others : ~Locked(c.id)
             /\ ~Claimed(b.name)
             /\ IF others # {} THEN Answer(i, "throws", {})
                ELSE Answer(i, "ok", {Change({b.id}, {b})})

\* delete_broker answers 204.  Its statement is sent with the commit.
ServeDelete(i) ==
  LET id == flight[i].arg.about.id
  IN /\ i \in Waiting(flight, "delete")
     /\ IF WithId(id) = {} THEN Answer(i, "refused", {})
        ELSE Answer(i, "throws", {Change({id}, {})})

\* import_brokers_csv skips the names that exist.
ServeCsv(i) ==
  LET names == {name \in flight[i].arg.about : ~Taken(name)}
  IN /\ i \in Waiting(flight, "csv")
     /\ IF names = {} THEN Answer(i, "ok", {}) ELSE Inserting(i, names)

\* get_session; a deletion waits for the lock.
Commit(change) ==
  /\ change \in server.open
  /\ change.brokers = {} => \A id \in change.ids : ~Locked(id)
  /\ server' = [server EXCEPT !.open = @ \ {change},
                              !.brokers = {b \in @ : b.id \notin change.ids} \cup change.brokers]
  /\ flight' = Overtaken(flight, {"brokers"})
  /\ past' = [past EXCEPT !.stale = StaleAfterCommit(@, flight, Changes, {"brokers"})]
  /\ UNCHANGED view

Fail(i) ==
  /\ past.faults < MaxFaults
  /\ flight[i].outcome # "throws"
  /\ flight' = Served(flight, i, "throws", {})
  /\ past' = [past EXCEPT !.faults = @ + 1]
  /\ UNCHANGED <<server, view>>

-----------------------------------------------------------------------------
(* What the handlers do with the answers. *)

HandleList(i) ==
  LET r == flight[i]
  IN /\ i \in Answers(flight, "brokers")
     /\ view' = IF r.outcome = "ok" THEN [view EXCEPT !.shown = r.data, !.of = r.arg] ELSE view
     /\ flight' = Handled(flight, i)
     /\ past' = [past EXCEPT !.stale = StaleAfterLoad(@, r)]
     /\ UNCHANGED server

\* Wrong variant: the list stays as it is.
NotReloaded(i) == Handled(flight, i)

\* The list is loaded again after a good answer; an exception ends the handler.
Reloaded(i) ==
  LET r == flight[i]
  IN CASE r.outcome = "ok" -> Append(Handled(flight, i), LoadBrokers(r.arg.query))
       [] r.outcome = "throws" -> Outdated(Handled(flight, i), {"brokers"})
       [] OTHER -> Handled(flight, i)

Continued(i, v) ==
  /\ view' = IF flight[i].outcome = "throws" THEN view ELSE v
  /\ flight' = Reloaded(i)
  /\ past' = [past EXCEPT !.stale = IF flight[i].outcome = "throws" THEN @ \cup {"brokers"} ELSE @]
  /\ UNCHANGED server

\* handleSaveBroker closes the dialog that is open by then; after an exception the
\* button stays off.
HandleSaveBroker(i) ==
  /\ i \in Answers(flight, "post") \cup Answers(flight, "put")
  /\ Continued(i, [view EXCEPT !.saving = FALSE,
                               !.dialog = IF flight[i].outcome = "ok" THEN None ELSE @])

HandleDeleteBroker(i) == i \in Answers(flight, "delete") /\ Continued(i, view)

\* handleCsvImport shows the results in the dialog that is open by then.
HandleCsvImport(i) ==
  /\ i \in Answers(flight, "csv")
  /\ Continued(i, [view EXCEPT !.importing = FALSE,
                               !.csv.results = @ \/ flight[i].outcome = "ok"])

-----------------------------------------------------------------------------
(* The specification. *)

Init ==
  /\ \E name \in Names : server = [brokers |-> {[id |-> 1, name |-> name]}, open |-> {}, next |-> 2]
  /\ view = [shown |-> {}, of |-> None, search |-> None, dialog |-> None, saving |-> FALSE,
             csv |-> NoCsv, readers |-> {}, importing |-> FALSE]
  /\ flight = <<LoadBrokers(None)>>
  /\ past = [stale |-> {}, mixed |-> FALSE, steps |-> 0, faults |-> 0]

Next ==
  \/ \E query \in Names \cup {None} : SearchSubmit(query)
  \/ Refresh \/ OpenAddDialog \/ CloseDialog \/ OpenCsv \/ CloseCsv \/ CsvImport
  \/ \E b \in view.shown : OpenEditDialog(b) \/ DeleteBroker(b)
  \/ \E name \in Names : SaveBroker(name)
  \/ \E file \in Files : CsvFileChange(file) \/ ReaderLoads(file)
  \/ \E change \in server.open : Commit(change)
  \/ \E i \in DOMAIN flight :
       \/ ServeList(i) \/ ServePost(i) \/ ServePut(i) \/ ServeDelete(i) \/ ServeCsv(i) \/ Fail(i)
       \/ HandleList(i) \/ HandleSaveBroker(i) \/ HandleDeleteBroker(i) \/ HandleCsvImport(i)

Spec == Init /\ [][Next]_vars

-----------------------------------------------------------------------------
(* Properties. *)

\* Rows, dialogs and requests keep their types.
TypeOK ==
  /\ \A b \in UNION ({server.brokers, view.shown} \cup {change.brokers : change \in server.open}) :
       b.id \in 1..server.next - 1 /\ b.name \in Names
  /\ view.csv.rows \in Files /\ view.readers \subseteq Files
  /\ view.saving \in BOOLEAN /\ view.importing \in BOOLEAN
  /\ \A i \in DOMAIN flight : IsRequest(flight[i], {"brokers"} \cup Changes)

\* When nothing is in flight the list is cityhall's answer to its query now, unless
\* an answer was late or lost, or was the empty one to a deletion, or a commit came after
\* the load that followed.
ViewConverges ==
  flight = <<>> /\ past.stale = {} => view.shown = Found(view.of)

\* What Import All would send are the rows of the file that the dialog names, unless
\* that file did not parse or another was read after it.
ImportIsOfNamedFile ==
  view.csv.rows # {} /\ view.readers = {} /\ ~past.mixed => view.csv.rows = view.csv.file
=============================================================================
