--------------------------- MODULE DocumentsPage ---------------------------
(***************************************************************************)
(* The user's letters and signatures: pages/dashboard/UserDocuments.tsx,   *)
(* SignaturePad.tsx and data/docTemplates.ts against cityhall's            *)
(* routers/documents.py and routers/signatures.py.                         *)
(*                                                                         *)
(* saveDoc looks at no outcome: unless its request throws it closes the    *)
(* dialog and loads everything again.  A new letter names the default      *)
(* signature of the list that is shown.                                    *)
(*                                                                         *)
(* cityhall works on several requests at once.  Two signatures that are    *)
(* saved at the same time find the same default to take the place of, and  *)
(* both become the default.                                                *)
(*                                                                         *)
(* Abstractions: a letter's content is what is still to be filled in, and  *)
(* its status tells whether a signature was written into it; letters have  *)
(* a recipient; the user edits the form when it is saved; a stroke on the  *)
(* pad is one step, and the canvas shows the image that would be sent;     *)
(* typed and drawn signatures are alike; of a closed form only the switch  *)
(* is kept, as every way to open it sets the rest; a change to a letter    *)
(* reads it when it has the lock on it.                                    *)
(***************************************************************************)
EXTENDS Fetch

CONSTANTS
  None,          \* no document, no signature, no answer yet
  MaxSteps,      \* bound: what the user does
  MaxFlight,     \* bound: requests in flight when a handler starts
  MaxFaults      \* bound: requests that fail

VARIABLES server, view, flight, past

vars == <<server, view, flight, past>>

Contents == SUBSET {"profile", "signature"}

\* The letters of docTemplates.ts; about half of them leave room for a signature.
Templates == {{"profile"}, {"profile", "signature"}}

\* fillTemplate puts the profile in and leaves [SIGNATURE] for cityhall.
FillTemplate(content) == content \ {"profile"}

Changes == {"post", "patch", "delete", "generate", "sign", "unsign"}

Default(sigs) == LET defaults == {s \in sigs : s.default}
                 IN IF defaults = {} THEN None ELSE (CHOOSE s \in defaults : TRUE).id

-----------------------------------------------------------------------------
(* The page. *)

MayAct == past.steps < MaxSteps /\ Len(flight) < MaxFlight

\* loadAll: two requests whose answers are handled together.
LoadAll == [Request("lists", None) EXCEPT !.data = [docs |-> None, sigs |-> None]]

Ask(op, arg) ==
  /\ MayAct
  /\ flight' = Append(flight, Request(op, arg))
  /\ past' = [past EXCEPT !.steps = @ + 1]
  /\ UNCHANGED server

Opening(dialog, form) ==
  /\ view.dialog # dialog
  /\ view' = [view EXCEPT !.dialog = dialog, !.form = form]
  /\ UNCHANGED <<server, flight, past>>

OpenNewDoc == view.dialog = None /\ Opening("template", view.form)

\* The switch for automatic submission keeps its last position.
ApplyTemplate(content) ==
  /\ view.dialog = "template"
  /\ Opening("doc", [view.form EXCEPT !.content = FillTemplate(content)])

OpenNewBlankDoc ==
  /\ view.dialog = "template"
  /\ Opening("doc", [view.form EXCEPT !.content = {}])

\* The table of documents.
OpenEditDoc(d) ==
  /\ view.dialog = None /\ d \in view.docs
  /\ Opening("doc", [doc |-> d.id, content |-> d.content, auto |-> d.auto])

OpenSig == view.dialog = None /\ Opening("sig", view.form)

NoForm(auto) == [doc |-> None, content |-> None, auto |-> auto]

CloseDialog == view.dialog # None /\ Opening(None, NoForm(view.form.auto))

\* Neither button is ever off.
SaveDoc(auto) ==
  LET form == [view.form EXCEPT !.auto = auto]
  IN /\ view.dialog = "doc"
     /\ view' = [view EXCEPT !.form = form]
     /\ IF form.doc # None
        THEN Ask("patch", form)
        ELSE Ask("post", [form |-> form, sig |-> Default(view.sigs),
                          outdated |-> past.stale # {} \/ InFlight(flight, "unsign")])

DeleteDoc(d) == view.dialog = None /\ d \in view.docs /\ Ask("delete", d.id) /\ UNCHANGED view

GenerateDoc(d) == view.dialog = None /\ d \in view.docs /\ Ask("generate", d.id) /\ UNCHANGED view

\* SignaturePad: a stroke, from startDraw to endDraw, and its Clear button.
Draw ==
  /\ view.dialog = "sig" /\ ~view.image
  /\ view' = [view EXCEPT !.image = TRUE]
  /\ UNCHANGED <<server, flight, past>>

Clear ==
  /\ view.dialog = "sig" /\ view.image
  /\ view' = [view EXCEPT !.image = FALSE]
  /\ UNCHANGED <<server, flight, past>>

\* The first signature becomes the default one.
SaveSig ==
  /\ view.dialog = "sig" /\ view.image
  /\ Ask("sign", view.sigs = {})
  /\ UNCHANGED view

\* The list of signatures.
DeleteSig(s) == view.dialog = None /\ s \in view.sigs /\ Ask("unsign", s.id) /\ UNCHANGED view

-----------------------------------------------------------------------------
(* cityhall. *)

Doc(id) == {d \in server.docs : d.id = id}

Sig(id) == {s \in server.sigs : s.id = id}

\* A statement: what becomes of the rows with these ids, or new rows, of one of the lists.
Change(list, ids, rows) == [list |-> list, ids |-> ids, rows |-> rows]

Pending(list) == {change \in server.open : change.list = list}

\* The lock that a change has on its rows until it is committed.
Locked(list, id) == \E change \in Pending(list) : id \in change.ids

Deleting(id) == \E change \in Pending("sigs") : id \in change.ids /\ change.rows = {}

\* Wrong variant: what a check of the handler itself would see.
SettledAsRead(id) ==
  \A change \in Pending("docs") : \A d \in server.docs : d.sig = id => d.id \notin change.ids

\* No letter that names the signature is about to be stored or deleted.
Settled(id) ==
  \A change \in Pending("docs") :
    \A d \in change.rows \cup server.docs : d.sig = id => d.id \notin change.ids /\ d \notin change.rows

Answer(i, outcome, changes) ==
  /\ flight' = Served(flight, i, outcome, {})
  /\ server' = [server EXCEPT !.open = @ \cup changes]
  /\ UNCHANGED <<view, past>>

\* The new row has the next number.
Insert(i, list, ids, rows) ==
  /\ flight' = Served(flight, i, "ok", {})
  /\ server' = [server EXCEPT !.open = @ \cup {Change(list, ids, rows)}, !.next = @ + 1]
  /\ UNCHANGED <<view, past>>

\* One of the two requests of loadAll.
ServeList(i, list) ==
  LET data == [flight[i].data EXCEPT ![list] = server[list]]
  IN /\ i \in Waiting(flight, "lists")
     /\ flight[i].data[list] = None
     /\ flight' = Served(flight, i, IF data.docs # None /\ data.sigs # None THEN "ok" ELSE "none", data)
     /\ UNCHANGED <<server, view, past>>

ServePost(i) ==
  LET r == flight[i].arg
      new == [id |-> server.next, content |-> r.form.content, sig |-> r.sig,
              auto |-> r.form.auto, status |-> "draft"]
  IN /\ i \in Waiting(flight, "post") /\ ~Deleting(r.sig)
     /\ IF r.sig # None /\ Sig(r.sig) = {} THEN Answer(i, "refused", {})
        ELSE Insert(i, "docs", {}, {new})

\* The fields that update_document is sent; the signature stays.
Updated(d, form) == [d EXCEPT !.content = form.content, !.auto = form.auto]

\* A change to a letter that is there, or a 404.  What is set to the value it has needs
\* no statement.
Changing(i, id, outcome, docs) ==
  IF docs = Doc(id) THEN Answer(i, IF docs = {} THEN "refused" ELSE outcome, {})
  ELSE ~Locked("docs", id) /\ Answer(i, outcome, {Change("docs", {id}, docs)})

ServePatch(i) ==
  LET form == flight[i].arg
  IN /\ i \in Waiting(flight, "patch")
     /\ Changing(i, form.doc, "ok", {Updated(d, form) : d \in Doc(form.doc)})

\* delete_document answers 204.
ServeDelete(i) ==
  /\ i \in Waiting(flight, "delete")
  /\ Changing(i, flight[i].arg, "throws", {})

\* generate_document writes the signature into the letter, at its place or at the end.
Generated(d) ==
  [d EXCEPT !.content = @ \ {"signature"},
            !.status = IF d.auto THEN "sent" ELSE "generated"]

ServeGenerate(i) ==
  LET id == flight[i].arg
  IN /\ i \in Waiting(flight, "generate")
     /\ Changing(i, id, "ok", {Generated(d) : d \in Doc(id)})

Demoted(sigs) == {[s EXCEPT !.default = FALSE] : s \in sigs}

\* A new default signature takes the place of those that its handler found.  The second of
\* two handlers waits for the first one's commit, and goes on with what it has found before.
ServeSign(i) ==
  LET new == [id |-> server.next, default |-> flight[i].arg]
      found == {s \in server.sigs : flight[i].arg /\ s.default}
  IN /\ i \in Waiting(flight, "sign")
     /\ \A s \in found : ~Deleting(s.id)
     /\ Insert(i, "sigs", {s.id : s \in found}, Demoted(found) \cup {new})

Named(id) == \E d \in server.docs : d.sig = id

\* A signature that a letter names cannot be deleted: the answer is a plain 500.
ServeUnsign(i) ==
  LET id == flight[i].arg
  IN /\ i \in Waiting(flight, "unsign") /\ ~Locked("sigs", id) /\ Settled(id)
     /\ IF Sig(id) = {} THEN Answer(i, "refused", {})
        ELSE Answer(i, "throws", IF Named(id) THEN {} ELSE {Change("sigs", {id}, {})})

Committed(change) ==
  [server EXCEPT !.open = @ \ {change},
                 ![change.list] = {row \in @ : row.id \notin change.ids} \cup change.rows]

\* The list was read before the commit, and maybe the other one after it.
ReadBefore(r, list) == r.op = "lists" /\ r.outcome \in {"none", "ok"} /\ r.data[list] # None

\* Deletions of signatures are told apart, as letters name signatures.
Commit(change) ==
  LET deletes == change.list = "sigs" /\ change.rows = {}
      Late(r) == ReadBefore(r, change.list) \/ (deletes /\ r.op = "post")
  IN /\ change \in server.open
     /\ server' = Committed(change)
     /\ flight' = [j \in DOMAIN flight |-> [flight[j] EXCEPT !.late = @ \/ Late(flight[j])]]
     /\ past' = [past EXCEPT !.stale =
                   StaleAfterCommit(@, flight, IF deletes THEN {"unsign"} ELSE Changes, {"lists"})]
     /\ UNCHANGED view

Fail(i) ==
  /\ past.faults < MaxFaults
  /\ flight[i].outcome # "throws"
  /\ flight' = Served(flight, i, "throws", {})
  /\ past' = [past EXCEPT !.faults = @ + 1]
  /\ UNCHANGED <<server, view>>

-----------------------------------------------------------------------------
(* What the handlers do with the answers. *)

HandleLists(i) ==
  LET r == flight[i]
  IN /\ i \in Answers(flight, "lists")
     /\ view' = IF r.outcome = "ok" THEN [view EXCEPT !.docs = r.data.docs, !.sigs = r.data.sigs]
                ELSE view
     /\ flight' = Handled(flight, i)
     /\ past' = [past EXCEPT !.stale = StaleAfterLoad(@, r)]
     /\ UNCHANGED server

\* Everything is loaded again, unless the request threw.
Reloaded(i) ==
  IF flight[i].outcome = "throws" THEN Outdated(Handled(flight, i), {"lists", "post"})
  ELSE Append(Handled(flight, i), LoadAll)

Continued(i, v) ==
  /\ view' = IF flight[i].outcome = "throws" THEN view ELSE v
  /\ flight' = Reloaded(i)
  /\ past' = [past EXCEPT !.stale = IF flight[i].outcome = "throws" THEN @ \cup {"lists"} ELSE @]
  /\ UNCHANGED server

Closed(dialog) ==
  IF view.dialog = dialog THEN [view EXCEPT !.dialog = None, !.form = NoForm(@.auto)] ELSE view

\* The form that is open by then is closed, whether the letter was kept or not.
HandleSaveDoc(i) ==
  /\ i \in Answers(flight, "post") \cup Answers(flight, "patch")
  /\ Continued(i, Closed("doc"))

HandleRow(i) ==
  /\ i \in Answers(flight, "delete") \cup Answers(flight, "generate") \cup Answers(flight, "unsign")
  /\ Continued(i, view)

HandleSaveSig(i) ==
  /\ i \in Answers(flight, "sign")
  /\ Continued(i, [Closed("sig") EXCEPT !.image = FALSE])

-----------------------------------------------------------------------------
(* The specification. *)

Init ==
  /\ server = [docs |-> {}, sigs |-> {[id |-> 1, default |-> TRUE]}, open |-> {}, next |-> 2]
  /\ view = [docs |-> {}, sigs |-> {}, dialog |-> None, image |-> FALSE,
             form |-> NoForm(FALSE)]
  /\ flight = <<LoadAll>>
  /\ past = [stale |-> {}, steps |-> 0, faults |-> 0]

Next ==
  \/ OpenNewDoc \/ OpenNewBlankDoc \/ OpenSig \/ CloseDialog \/ Draw \/ Clear \/ SaveSig
  \/ \E content \in Templates : ApplyTemplate(content)
  \/ \E d \in view.docs : OpenEditDoc(d) \/ DeleteDoc(d) \/ GenerateDoc(d)
  \/ \E s \in view.sigs : DeleteSig(s)
  \/ \E auto \in BOOLEAN : SaveDoc(auto)
  \/ \E change \in server.open : Commit(change)
  \/ \E i \in DOMAIN flight :
       \/ \E list \in {"docs", "sigs"} : ServeList(i, list)
       \/ ServePost(i) \/ ServePatch(i) \/ ServeDelete(i) \/ ServeGenerate(i)
       \/ ServeSign(i) \/ ServeUnsign(i) \/ Fail(i)
       \/ HandleLists(i) \/ HandleSaveDoc(i) \/ HandleRow(i) \/ HandleSaveSig(i)

Spec == Init /\ [][Next]_vars

-----------------------------------------------------------------------------
(* Properties. *)

\* Letters, signatures and requests keep their types, and no letter names a signature that
\* is gone.
TypeOK ==
  /\ \A d \in server.docs :
       /\ d.content \in Contents /\ d.status \in {"draft", "generated", "sent"}
       /\ d.sig # None => Sig(d.sig) # {}
  /\ view.dialog \in {None, "template", "doc", "sig"} /\ view.image \in BOOLEAN
  /\ \A i \in DOMAIN flight : IsRequest(flight[i], {"lists"} \cup Changes)

\* When nothing is in flight both lists are what cityhall has, unless an answer was
\* late or lost, or was the empty one to a deletion, or a commit came after the load that
\* followed.
ViewConverges ==
  flight = <<>> /\ past.stale = {} => view.docs = server.docs /\ view.sigs = server.sigs

\* A letter that the user saves is refused, and lost with its form, only if the page
\* had missed a deletion, or one was on its way when the letter was.
LettersAreKept ==
  \A i \in Answers(flight, "post") :
    flight[i].outcome = "refused" =>
      flight[i].arg.outdated \/ flight[i].late \/ Answers(flight, "unsign") # {}
=============================================================================
