---------------------------- MODULE PaymentsPage ----------------------------
(***************************************************************************)
(* The administrator's list of subscriptions: pages/admin/                 *)
(* PaymentProcessing.tsx against the banker (banker/app/server.py).        *)
(*                                                                         *)
(* Each row loads its payments when it is opened for the first time, and   *)
(* only once, whatever the status.  The click opens the row after the      *)
(* answer, so that more clicks before it start more requests.  A row that  *)
(* the filter hides forgets everything.                                    *)
(*                                                                         *)
(* Abstractions: a filter is the set of subscriptions that it lets through,*)
(* which do not change while the page is open; the payments of a           *)
(* subscription are counted.                                               *)
(***************************************************************************)
EXTENDS Fetch

CONSTANTS
  Names,         \* subscriptions
  MaxSteps,      \* bound: what the administrator does, payments that arrive
  MaxFlight,     \* bound: requests in flight when a handler starts
  MaxFaults      \* bound: requests that fail

VARIABLES server, view, flight, past

vars == <<server, view, flight, past>>

-----------------------------------------------------------------------------
(* The page. *)

MayAct == past.steps < MaxSteps

Acted == [past EXCEPT !.steps = @ + 1]

\* A row of the table that was not there before.
FreshRow == [open |-> FALSE, loaded |-> FALSE, payments |-> 0]

\* The effect on search and filterStatus; rows that come back are new ones.
Filtered == view.all \cap view.filter

\* A row of the table with its button.
OffersRow(s) == s \in Filtered

\* The payments under an open row.
ShowsPayments(s) == OffersRow(s) /\ view.rows[s].open

SetFilter(filter) ==
  /\ filter # view.filter
  /\ MayAct
  /\ view' = [view EXCEPT !.filter = filter,
                          !.rows = [s \in Names |-> IF s \in filter THEN view.rows[s] ELSE FreshRow]]
  /\ flight' = [i \in DOMAIN flight |->
                 IF flight[i].op = "payments" /\ flight[i].arg \notin filter
                 THEN [flight[i] EXCEPT !.arg = {}] ELSE flight[i]]
  /\ past' = [Acted EXCEPT !.stale = @ \cap filter]
  /\ UNCHANGED server

\* handleToggle of a row that is open, or closed with its payments there.
Toggle(s) ==
  /\ OffersRow(s) /\ (view.rows[s].open \/ view.rows[s].loaded)
  /\ MayAct /\ past' = Acted
  /\ view' = [view EXCEPT !.rows[s].open = ~@]
  /\ UNCHANGED <<server, flight>>

\* handleToggle and loadPayments, up to the await.
FirstToggle(s) ==
  /\ OffersRow(s) /\ ~view.rows[s].open /\ ~view.rows[s].loaded
  /\ MayAct /\ Len(flight) < MaxFlight
  /\ past' = Acted
  /\ flight' = Append(flight, Request("payments", s))
  /\ UNCHANGED <<server, view>>

-----------------------------------------------------------------------------
(* The banker. *)

ServeSubscriptions(i) ==
  /\ i \in Waiting(flight, "load")
  /\ flight' = Served(flight, i, "ok", DOMAIN server)
  /\ UNCHANGED <<server, view, past>>

ServePayments(i) ==
  LET s == flight[i].arg
  IN /\ i \in Waiting(flight, "payments") /\ s # {}
     /\ flight' = Served(flight, i, "ok", server[s])
     /\ UNCHANGED <<server, view, past>>

\* A payment is recorded; a row that was loaded before it shows too few.
Pays(s) ==
  /\ MayAct
  /\ server' = [server EXCEPT ![s] = @ + 1]
  /\ past' = IF view.rows[s].loaded \/ \E i \in Answers(flight, "payments") : flight[i].arg = s
             THEN [Acted EXCEPT !.stale = @ \cup {s}] ELSE Acted
  /\ UNCHANGED <<view, flight>>

Fail(i) ==
  /\ past.faults < MaxFaults
  /\ flight[i].outcome # "throws" /\ flight[i].arg # {}
  /\ flight' = Served(flight, i, "throws", {})
  /\ past' = [past EXCEPT !.faults = @ + 1]
  /\ UNCHANGED <<server, view>>

-----------------------------------------------------------------------------
(* What the handlers do with the answers. *)

\* The rest of load.
HandleLoad(i) ==
  /\ i \in Answers(flight, "load")
  /\ view' = IF flight[i].outcome = "ok" THEN [view EXCEPT !.all = flight[i].data] ELSE view
  /\ flight' = Handled(flight, i)
  /\ UNCHANGED <<server, past>>

\* The rest of loadPayments and of handleToggle, which opens the row even if another
\* click has closed it since.  The banker never refuses the payments of a subscription.
HandlePayments(i) ==
  LET r == flight[i]
  IN /\ i \in Answers(flight, "payments") /\ r.arg # {}
     /\ view' = IF r.outcome = "throws" THEN view
                ELSE [view EXCEPT !.rows[r.arg] =
                       [open |-> TRUE, loaded |-> TRUE,
                        payments |-> IF r.outcome = "ok" THEN r.data ELSE @.payments]]
     /\ flight' = Handled(flight, i)
     /\ UNCHANGED <<server, past>>

\* An answer for a row that is gone.
Drop(i) ==
  /\ flight[i].arg = {}
  /\ flight' = Handled(flight, i)
  /\ UNCHANGED <<server, view, past>>

-----------------------------------------------------------------------------
(* The specification. *)

\* Every subscription has the payment that made it active.
Init ==
  /\ server = [s \in Names |-> 1]
  /\ view = [all |-> {}, filter |-> Names, rows |-> [s \in Names |-> FreshRow]]
  /\ flight = <<Request("load", Names)>>
  /\ past = [stale |-> {}, steps |-> 0, faults |-> 0]

Next ==
  \/ \E filter \in SUBSET Names : SetFilter(filter)
  \/ \E s \in Names : Toggle(s) \/ FirstToggle(s) \/ Pays(s)
  \/ \E i \in DOMAIN flight :
       \/ ServeSubscriptions(i) \/ ServePayments(i) \/ Fail(i)
       \/ HandleLoad(i) \/ HandlePayments(i) \/ Drop(i)

Spec == Init /\ [][Next]_vars

-----------------------------------------------------------------------------
(* Properties. *)

\* Rows and requests keep their types.
TypeOK ==
  /\ view.all \subseteq Names /\ view.filter \subseteq Names
  /\ \A s \in Names : view.rows[s].open \in BOOLEAN /\ view.rows[s].payments \in 0..server[s]
  /\ \A s \in Names : view.rows[s].open => view.rows[s].loaded
  /\ \A i \in DOMAIN flight : IsRequest(flight[i], {"load", "payments"})

\* An open row has all payments of its own subscription, unless one arrived
\* after the row was loaded.
ViewConverges ==
  \A s \in Names \ past.stale : ShowsPayments(s) => view.rows[s].payments = server[s]
=============================================================================
