---------------------------- MODULE MonitorPages ----------------------------
(***************************************************************************)
(* The pages that watch the platform, one of which is open: "overview",    *)
(* pages/admin/AdminDashboard.tsx; "services", ServiceMonitor.tsx;         *)
(* "health", PlatformHealth.tsx; "logs", LogViewer.tsx; "chain",           *)
(* BlockchainDetails.tsx; and "nodes", pages/dashboard/NodeDashboard.tsx;  *)
(* against the director (director/app.py), to which other services report  *)
(* all the time, or for "chain" sp1d3r.                                    *)
(*                                                                         *)
(* Timers start loads without waiting for the last one.  The director      *)
(* looks for its restart and stop handlers under GET and after a handler   *)
(* that answers first, so that the buttons, which POST, are refused.       *)
(*                                                                         *)
(* Abstractions: what a service keeps is the number of changes to it, so   *)
(* that a page shows a number; the requests of one load are one; the number*)
(* of log lines is left out.                                               *)
(***************************************************************************)
EXTENDS Fetch

CONSTANTS
  Names,         \* services
  None,          \* nothing shown yet
  MaxSteps,      \* bound: what the administrator does, timers and reports
  MaxFlight,     \* bound: requests in flight when a handler starts
  MaxFaults      \* bound: requests that fail

VARIABLES server, view, flight, past

vars == <<server, view, flight, past>>

Kinds == {"overview", "services", "health", "logs", "chain", "nodes"}

-----------------------------------------------------------------------------
(* The pages. *)

MayAct == past.steps < MaxSteps

MaySend == MayAct /\ Len(flight) < MaxFlight

Acted == [past EXCEPT !.steps = @ + 1]

\* The load of the open page, of the log of `service` in LogViewer.
Load(service) == Request("load", service)

Loads(service) ==
  /\ flight' = Append(flight, Load(service))
  /\ past' = Acted
  /\ UNCHANGED server

\* What the open page shows: AdminDashboard.
ShowsOverview == view.kind = "overview"

\* ServiceMonitor, and its cards with their buttons.
ShowsServices == view.kind = "services"

ShowsCards == ShowsServices /\ view.shown # None

\* PlatformHealth, whose button is off until the first answer.
ShowsHealth == view.kind = "health"

ShowsLogs == view.kind = "logs"

\* BlockchainDetails is a spinner, without its button, while it loads.
ShowsChain == view.kind = "chain" /\ ~view.loading

\* NodeDashboard has no button.
ShowsNodes == view.kind = "nodes"

OffersRefresh ==
  ShowsOverview \/ ShowsServices \/ (ShowsHealth /\ ~view.loading) \/ ShowsLogs

Refresh == OffersRefresh /\ MaySend /\ Loads(view.selected) /\ UNCHANGED view

\* Only BlockchainDetails goes back to its spinner.
RefreshChain ==
  /\ ShowsChain /\ MaySend
  /\ view' = [view EXCEPT !.loading = TRUE]
  /\ Loads(view.selected)

\* The timers: every 30 s, if chosen every 10 s, and every 15 s or 2 s.
NodesTimer == ShowsNodes

HealthTimer == ShowsHealth /\ view.auto

LogsTimer == ShowsLogs

TimerRuns == NodesTimer \/ HealthTimer \/ LogsTimer

Timer == TimerRuns /\ MaySend /\ Loads(view.selected) /\ UNCHANGED view

\* autoRefresh only starts or stops the timer, liveView runs LogViewer's effect again.
ToggleAuto ==
  /\ ShowsHealth \/ ShowsLogs
  /\ MaySend
  /\ view' = [view EXCEPT !.auto = ~@]
  /\ IF ShowsLogs THEN Loads(view.selected) ELSE past' = Acted /\ UNCHANGED <<server, flight>>

\* Another service in LogViewer, and the effect on it.
Select(service) ==
  /\ ShowsLogs /\ service # view.selected
  /\ MaySend
  /\ view' = [view EXCEPT !.selected = service]
  /\ Loads(service)

\* handleRestart and handleStop of ServiceMonitor, up to the await; both clear the messages.
Command(service) ==
  /\ ShowsCards
  /\ MaySend
  /\ view' = [view EXCEPT !.message = "none"]
  /\ flight' = Append(flight, Request("command", service))
  /\ past' = Acted
  /\ UNCHANGED server

\* handleReconcile, up to the await.
Reconcile ==
  /\ ShowsServices
  /\ MaySend
  /\ flight' = Append(flight, Request("reconcile", None))
  /\ past' = Acted
  /\ UNCHANGED <<server, view>>

-----------------------------------------------------------------------------
(* The director. *)

ServeLoad(i) ==
  /\ i \in Waiting(flight, "load")
  /\ flight' = Served(flight, i, "ok", server)
  /\ UNCHANGED <<server, view, past>>

\* do_POST knows no such path.
ServeCommand(i) ==
  /\ i \in Waiting(flight, "command")
  /\ flight' = Served(flight, i, "refused", {})
  /\ UNCHANGED <<server, view, past>>

ServeReconcile(i) ==
  /\ i \in Waiting(flight, "reconcile")
  /\ flight' = Served(flight, i, "ok", {})
  /\ server' = server + 1
  /\ UNCHANGED <<view, past>>

\* A heartbeat of another service: what is shown and what is on its way gets old.
Heartbeat ==
  /\ MayAct
  /\ server' = server + 1
  /\ flight' = Outdated(flight, {"load"})
  /\ past' = [Acted EXCEPT !.stale = {"load"}]
  /\ UNCHANGED view

Fail(i) ==
  /\ past.faults < MaxFaults
  /\ flight[i].outcome # "throws"
  /\ flight' = Served(flight, i, "throws", {})
  /\ past' = [past EXCEPT !.faults = @ + 1]
  /\ UNCHANGED <<server, view>>

-----------------------------------------------------------------------------
(* What the handlers do with the answers. *)

\* The answer of whichever service was selected when it was asked for.  Only NodeDashboard
\* ends its loading in a finally.
HandleLoad(i) ==
  LET r == flight[i]
  IN /\ i \in Answers(flight, "load")
     /\ view' = IF r.outcome = "ok" THEN [view EXCEPT !.shown = r.data, !.of = r.arg, !.loading = FALSE]
                ELSE [view EXCEPT !.loading = @ /\ ~ShowsNodes]
     /\ flight' = Handled(flight, i)
     /\ past' = [past EXCEPT !.stale = StaleAfterLoad(@, r)]
     /\ UNCHANGED server

\* The rest of handleRestart and handleStop: an error, without another load.
HandleCommand(i) ==
  /\ i \in Answers(flight, "command")
  /\ view' = IF flight[i].outcome = "refused" THEN [view EXCEPT !.message = "failed"] ELSE view
  /\ flight' = Handled(flight, i)
  /\ UNCHANGED <<server, past>>

\* The rest of handleReconcile.
HandleReconcile(i) ==
  LET good == flight[i].outcome = "ok"
      rest == Handled(flight, i)
  IN /\ i \in Answers(flight, "reconcile")
     /\ view' = IF good THEN [view EXCEPT !.reconciled = TRUE] ELSE view
     /\ flight' = IF good THEN Append(rest, Load(view.selected)) ELSE Outdated(rest, {"load"})
     /\ past' = [past EXCEPT !.stale = IF good THEN @ ELSE {"load"}]
     /\ UNCHANGED server

-----------------------------------------------------------------------------
(* The specification. *)

Init ==
  /\ server = 0
  /\ \E kind \in Kinds, service \in Names :
       /\ view = [kind |-> kind, shown |-> None, of |-> None, selected |-> service,
                  loading |-> TRUE, auto |-> FALSE, message |-> "none", reconciled |-> FALSE]
       /\ flight = <<Load(service)>>
  /\ past = [stale |-> {}, steps |-> 0, faults |-> 0]

Next ==
  \/ Refresh \/ RefreshChain \/ Timer \/ ToggleAuto \/ Reconcile \/ Heartbeat
  \/ \E service \in Names : Select(service) \/ Command(service)
  \/ \E i \in DOMAIN flight :
       \/ ServeLoad(i) \/ ServeCommand(i) \/ ServeReconcile(i) \/ Fail(i)
       \/ HandleLoad(i) \/ HandleCommand(i) \/ HandleReconcile(i)

Spec == Init /\ [][Next]_vars

-----------------------------------------------------------------------------
(* Properties. *)

\* The page and its requests keep their types; no button has ever restarted a service.
TypeOK ==
  /\ server \in 0..MaxSteps
  /\ view.kind \in Kinds /\ view.selected \in Names /\ view.of \in Names \cup {None}
  /\ view.shown = None \/ view.shown \in 0..server
  /\ view.message \in {"none", "failed"} /\ view.loading \in BOOLEAN
  /\ \A i \in DOMAIN flight : IsRequest(flight[i], {"load", "command", "reconcile"})

\* When nothing is in flight the page shows what the director has, and LogViewer the log of
\* the service that is selected, unless an answer was late or lost or somebody reported since.
ViewConverges ==
  flight = <<>> /\ past.stale = {} => view.shown = server /\ view.of = view.selected
=============================================================================
