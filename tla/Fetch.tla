------------------------------- MODULE Fetch -------------------------------
(***************************************************************************)
(* Requests of a browser page to the services, as the pages of the web     *)
(* front end make them (frontends/sp1d3r.d31337m3.com/src/api/client.ts).  *)
(*                                                                         *)
(* apiRequest parses every answer as JSON before it looks at the status, so*)
(* it has three outcomes: the answer was good ("ok"), it was an error with *)
(* a JSON body ("refused"), or apiRequest threw: the network failed, or the*)
(* body was no JSON, as in an empty 204 or the plain text of a 500.  What  *)
(* the handler does after the await is skipped when it throws.             *)
(*                                                                         *)
(* A request is served at one moment and its answer handled at a later one,*)
(* and both may overtake other requests: a page keeps them in a sequence in*)
(* the order in which it sent them, and serves and handles any of them.    *)
(*                                                                         *)
(* cityhall makes a change in a transaction that is committed when its     *)
(* handler is through (database.py), before or after the answer is sent,   *)
(* as the version of FastAPI has it.  Until then nobody else sees it: the  *)
(* pages' services keep such changes in server.open.  A commit succeeds.   *)
(***************************************************************************)
EXTENDS Integers, Sequences

Outcomes == {"none", "ok", "refused", "throws"}

\* apiRequest until the await of fetch.  `late` is a history: a later request
\* of the same kind was handled before this one.
Request(op, arg) == [op |-> op, arg |-> arg, outcome |-> "none", data |-> {}, late |-> FALSE]

IsRequest(r, ops) == r.op \in ops /\ r.outcome \in Outcomes /\ r.late \in BOOLEAN

Waiting(fs, op) == {i \in DOMAIN fs : fs[i].op = op /\ fs[i].outcome = "none"}

Answers(fs, op) == {i \in DOMAIN fs : fs[i].op = op /\ fs[i].outcome # "none"}

InFlight(fs, op) == \E i \in DOMAIN fs : fs[i].op = op

\* The service's side of request i, or its failure.
Served(fs, i, outcome, data) ==
  [fs EXCEPT ![i] = [@ EXCEPT !.outcome = outcome, !.data = data]]

\* The page is done with request i; older ones of its kind are late from now on.
Handled(fs, i) ==
  LET Seen(j) == IF j < i /\ fs[j].op = fs[i].op THEN [fs[j] EXCEPT !.late = TRUE] ELSE fs[j]
  IN [k \in 1..Len(fs) - 1 |-> Seen(IF k < i THEN k ELSE k + 1)]

\* The loads in flight may have been served before a change that nobody follows up.
Outdated(fs, loads) ==
  [j \in DOMAIN fs |-> IF fs[j].op \in loads THEN [fs[j] EXCEPT !.late = TRUE] ELSE fs[j]]

\* The loads that were answered before a commit show nothing of it.
Overtaken(fs, loads) ==
  [j \in DOMAIN fs |-> IF fs[j].op \in loads /\ fs[j].outcome # "none"
                       THEN [fs[j] EXCEPT !.late = TRUE] ELSE fs[j]]

\* A handler that has such an answer to come loads again, or knows that it missed something.
Reacting(fs, changes) ==
  \E i \in DOMAIN fs : fs[i].op \in changes /\ fs[i].outcome \in {"ok", "throws"}

\* A commit after the page is done with the answer may come too late for its loads.
StaleAfterCommit(stale, fs, changes, loads) ==
  IF Reacting(fs, changes) THEN stale ELSE stale \cup loads

\* History of a page: the lists it may show an outdated state of.
StaleAfterLoad(stale, r) ==
  IF r.outcome = "ok" /\ ~r.late THEN stale \ {r.op} ELSE stale \cup {r.op}
=============================================================================
