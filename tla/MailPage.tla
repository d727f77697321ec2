------------------------------ MODULE MailPage ------------------------------
(***************************************************************************)
(* Outgoing mail: pages/admin/EmailSettings.tsx against the inboxer        *)
(* (inboxer/app.py) with its retry thread and the relay behind it.         *)
(*                                                                         *)
(* The inboxer hands a mail to the relay before it records it, and records *)
(* it as "queued" when the relay did not answer, even if it had accepted   *)
(* the mail.  Once a minute the retry thread takes the queued rows and     *)
(* offers each again; every two hours it deletes all rows, queued ones too.*)
(*                                                                         *)
(* Abstractions: the settings are one value; of a mail only its row and the*)
(* copies that the relay accepted are kept; whether the relay accepts and  *)
(* whether its answer is understood is chosen, as it depends on settings   *)
(* outside this model.                                                     *)
(***************************************************************************)
EXTENDS Fetch

CONSTANTS
  Names,         \* contents of the settings form
  None,          \* nothing loaded yet
  MaxSteps,      \* bound: what the administrator does, retries and cleanups
  MaxFlight,     \* bound: requests in flight when a handler starts
  MaxFaults      \* bound: requests that fail, and answers of the relay that get lost

VARIABLES server, view, flight, past

vars == <<server, view, flight, past>>

Row == [status : {"queued", "sent", "deleted"}, copies : 0..MaxFaults + 1]

-----------------------------------------------------------------------------
(* The page. *)

MayAct == past.steps < MaxSteps

Acted == [past EXCEPT !.steps = @ + 1]

MaySend == MayAct /\ Len(flight) < MaxFlight

\* Until load is done, and for ever if it throws, the page is a spinner.
ShowsForm == view.settings # None

\* The fields of the form, SMTP and relay.
Edit(settings) ==
  /\ ShowsForm /\ settings # view.settings
  /\ MayAct
  /\ view' = [view EXCEPT !.settings = settings]
  /\ past' = [Acted EXCEPT !.edited = TRUE]
  /\ UNCHANGED <<server, flight>>

\* handleSave, up to its await.
Save ==
  /\ ShowsForm /\ ~view.saving
  /\ MaySend
  /\ view' = [view EXCEPT !.saving = TRUE]
  /\ flight' = Append(flight, Request("save", view.settings))
  /\ past' = [Acted EXCEPT !.edited = FALSE]
  /\ UNCHANGED server

\* handleTestEmail, up to its await.
TestEmail ==
  /\ ShowsForm /\ MaySend
  /\ flight' = Append(flight, Request("mail", None))
  /\ past' = Acted
  /\ UNCHANGED <<server, view>>

-----------------------------------------------------------------------------
(* The inboxer. *)

ServeSettings(i) ==
  /\ i \in Waiting(flight, "load")
  /\ flight' = Served(flight, i, "ok", server.settings)
  /\ UNCHANGED <<server, view, past>>

ServeSave(i) ==
  /\ i \in Waiting(flight, "save")
  /\ flight' = Served(flight, i, "ok", {})
  /\ server' = [server EXCEPT !.settings = flight[i].arg]
  /\ UNCHANGED <<view, past>>

\* _send_smtp_mail: accepted and known to be, not accepted, or accepted and not known.
Relayed == {[status |-> "sent", copies |-> 1], [status |-> "queued", copies |-> 0],
            [status |-> "queued", copies |-> 1]}

\* A retry falls back from the provider's API to SMTP unless the API says "sent".
Retried == Relayed \cup {[status |-> "sent", copies |-> 2], [status |-> "queued", copies |-> 2]}

\* Copies that were accepted without the inboxer's knowing.
Unclear(outcome) == outcome.copies - (IF outcome.status = "sent" THEN 1 ELSE 0)

Noting(outcome) ==
  /\ past.faults + Unclear(outcome) <= MaxFaults
  /\ past' = [past EXCEPT !.faults = @ + Unclear(outcome), !.unclear = @ + Unclear(outcome)]

ServeMail(i, outcome) ==
  /\ i \in Waiting(flight, "mail")
  /\ flight' = Served(flight, i, "ok", {})
  /\ server' = [server EXCEPT !.mailouts = Append(@, outcome)]
  /\ Noting(outcome)
  /\ UNCHANGED view

Queued == {k \in DOMAIN server.mailouts : server.mailouts[k].status = "queued"}

\* _retry_queued_emails wakes up and takes the queued rows.
RetryWakes ==
  /\ server.retry = {} /\ Queued # {}
  /\ MayAct /\ past' = Acted
  /\ server' = [server EXCEPT !.retry = Queued]
  /\ UNCHANGED <<view, flight>>

\* Each of them is offered once more.
Retry(k, outcome) ==
  /\ k \in server.retry
  /\ server' = [server EXCEPT !.retry = @ \ {k},
                              !.mailouts[k] = [status |-> outcome.status,
                                               copies |-> @.copies + outcome.copies]]
  /\ Noting(outcome)
  /\ UNCHANGED <<view, flight>>

\* The same thread clears the log, between two rounds.
Cleanup ==
  /\ server.retry = {} /\ \E k \in DOMAIN server.mailouts : server.mailouts[k].status # "deleted"
  /\ MayAct /\ past' = Acted
  /\ server' = [server EXCEPT !.mailouts =
                  [k \in DOMAIN server.mailouts |-> [server.mailouts[k] EXCEPT !.status = "deleted"]]]
  /\ UNCHANGED <<view, flight>>

Fail(i) ==
  /\ past.faults < MaxFaults
  /\ flight[i].outcome # "throws"
  /\ flight' = Served(flight, i, "throws", {})
  /\ past' = [past EXCEPT !.faults = @ + 1, !.lost = @ \/ flight[i].op = "save"]
  /\ UNCHANGED <<server, view>>

-----------------------------------------------------------------------------
(* What the handlers do with the answers. *)

Ended(i, op, v) ==
  /\ i \in Answers(flight, op)
  /\ view' = IF flight[i].outcome = "ok" THEN v ELSE view
  /\ flight' = Handled(flight, i)
  /\ UNCHANGED <<server, past>>

HandleLoad(i) == Ended(i, "load", [view EXCEPT !.settings = flight[i].data])

\* After an exception both Save buttons stay off.
HandleSave(i) == Ended(i, "save", [view EXCEPT !.saving = FALSE])

\* The history on the page is the one of the first load.
HandleTestEmail(i) == Ended(i, "mail", view)

-----------------------------------------------------------------------------
(* The specification. *)

Init ==
  /\ \E settings \in Names : server = [settings |-> settings, mailouts |-> <<>>, retry |-> {}]
  /\ view = [settings |-> None, saving |-> FALSE]
  /\ flight = <<Request("load", None)>>
  /\ past = [edited |-> FALSE, lost |-> FALSE, unclear |-> 0, steps |-> 0, faults |-> 0]

Next ==
  \/ \E settings \in Names : Edit(settings)
  \/ Save \/ TestEmail \/ RetryWakes \/ Cleanup
  \/ \E k \in server.retry, outcome \in Retried : Retry(k, outcome)
  \/ \E i \in DOMAIN flight :
       \/ ServeSettings(i) \/ ServeSave(i) \/ Fail(i)
       \/ \E outcome \in Relayed : ServeMail(i, outcome)
       \/ HandleLoad(i) \/ HandleSave(i) \/ HandleTestEmail(i)

Spec == Init /\ [][Next]_vars

-----------------------------------------------------------------------------
(* Properties. *)

\* Settings, rows and requests keep their types.
TypeOK ==
  /\ server.settings \in Names /\ view.settings \in Names \cup {None}
  /\ \A k \in DOMAIN server.mailouts : server.mailouts[k] \in Row
  /\ server.retry \subseteq Queued
  /\ \A i \in DOMAIN flight : IsRequest(flight[i], {"load", "save", "mail"})

\* When nothing is in flight the form shows the inboxer's settings, unless it was edited
\* since the last click on Save or the answer to one was lost.
ViewConverges ==
  flight = <<>> /\ ShowsForm /\ ~past.edited /\ ~past.lost => view.settings = server.settings

\* A mail that is recorded as sent went out, and a mail goes out again only after the
\* relay's answer to it was lost, at most once for each lost answer.
MailsGoOut ==
  \A k \in DOMAIN server.mailouts :
    /\ server.mailouts[k].status = "sent" => server.mailouts[k].copies >= 1
    /\ server.mailouts[k].copies <= 1 + past.unclear
=============================================================================
