---------------------------- MODULE SettingsPage ----------------------------
(***************************************************************************)
(* The user's settings: pages/dashboard/UserSettings.tsx against cityhall's*)
(* routers/users.py and routers/auth.py.                                   *)
(*                                                                         *)
(* The page shows a private key and its seed phrase once, and cityhall     *)
(* keeps the public key of the newest pair that it served.  The button that*)
(* generates a pair is never switched off.  A handler whose request throws *)
(* leaves its own button off.                                              *)
(*                                                                         *)
(* Abstractions: the profile form is one value, which the user types and   *)
(* saves in one step; a key pair is its number, a seed phrase the number of*)
(* the pair it leads to, 0 one that cityhall does not accept; passwords are*)
(* right or wrong by choice.                                               *)
(***************************************************************************)
EXTENDS Fetch

CONSTANTS
  Names,         \* contents of the profile form
  None,          \* no profile yet
  MaxSteps,      \* bound: what the user does
  MaxFlight,     \* bound: requests in flight when a handler starts
  MaxFaults      \* bound: requests that fail

VARIABLES server, view, flight, past

vars == <<server, view, flight, past>>

KeyOps == {"generate", "recover"}

-----------------------------------------------------------------------------
(* The page. *)

MayAct == view.open /\ ~view.loading /\ past.steps < MaxSteps /\ Len(flight) < MaxFlight

Ask(op, arg) ==
  /\ MayAct
  /\ flight' = Append(flight, Request(op, arg))
  /\ past' = [past EXCEPT !.steps = @ + 1]
  /\ UNCHANGED server

\* Save Profile is off while one is saved, Link Wallet never.
MaySave(link) == view.profile # None /\ (link \/ ~view.saving)

Save(form, link) ==
  /\ MaySave(link)
  /\ view' = [view EXCEPT !.profile = form, !.saving = TRUE]
  /\ Ask("save", form)

\* Two requests for a pair that overlap may be served and answered in any order, and a
\* pair that is the same as before may be asked for before another one is committed.
AskForKey(op, phrase) ==
  LET alone == /\ \A j \in DOMAIN flight : flight[j].op \notin KeyOps
               /\ \A row \in server.open : row.key = server.key
  IN /\ MayAct
     /\ flight' = Append(Outdated(flight, KeyOps), [Request(op, phrase) EXCEPT !.late = ~alone])
     /\ past' = [past EXCEPT !.steps = @ + 1]
     /\ UNCHANGED server

GenKeypair == AskForKey("generate", 0) /\ UNCHANGED view

OpenRecovery ==
  /\ view.open /\ ~view.loading /\ view.dialog = "none"
  /\ view' = [view EXCEPT !.dialog = "recovery"]
  /\ UNCHANGED <<server, flight, past>>

RecoverKeypair(phrase) ==
  /\ view.dialog = "recovery" /\ ~view.recovering
  /\ view' = [view EXCEPT !.recovering = TRUE]
  /\ AskForKey("recover", phrase)

\* The three guards of handleChangePassword and the button are a form that is complete.
ChangePassword(right) ==
  /\ view.dialog = "none" /\ ~view.changing
  /\ view' = [view EXCEPT !.changing = TRUE]
  /\ Ask("password", right)

OpenDelete ==
  /\ view.open /\ ~view.loading /\ view.dialog = "none"
  /\ view' = [view EXCEPT !.dialog = "delete"]
  /\ UNCHANGED <<server, flight, past>>

DeleteAccount(right) ==
  /\ view.dialog = "delete" /\ ~view.deleting
  /\ view' = [view EXCEPT !.deleting = TRUE]
  /\ Ask("delete", right)

Cancel ==
  /\ view.dialog # "none"
  /\ view' = [view EXCEPT !.dialog = "none"]
  /\ UNCHANGED <<server, flight, past>>

-----------------------------------------------------------------------------
(* cityhall; the token of a closed account is good for what needs no password. *)

\* The row of the user.
Row == [profile |-> server.profile, key |-> server.key, closed |-> server.closed]

\* A change waits for the lock that another one has on the row until it is committed; what
\* is set to the value it has is no change.
Answering(i, op, accepted, data, changed) ==
  /\ i \in Waiting(flight, op)
  /\ accepted /\ changed # Row => server.open = {}
  /\ IF accepted
     THEN /\ flight' = Served(flight, i, "ok", data)
          /\ server' = [server EXCEPT !.open = @ \cup ({changed} \ {Row}),
                                      !.next = IF op = "generate" THEN @ + 1 ELSE @]
     ELSE flight' = Served(flight, i, "refused", {}) /\ UNCHANGED server
  /\ UNCHANGED <<view, past>>

ServeMe(i) == Answering(i, "me", TRUE, server.profile, Row)

ServeSave(i) == Answering(i, "save", TRUE, {}, [Row EXCEPT !.profile = flight[i].arg])

ServeGenerate(i) ==
  Answering(i, "generate", TRUE, server.next, [Row EXCEPT !.key = server.next])

ServeRecover(i) ==
  Answering(i, "recover", flight[i].arg # 0, flight[i].arg, [Row EXCEPT !.key = flight[i].arg])

MayPass(i) == flight[i].arg /\ ~server.closed

ServePassword(i) == Answering(i, "password", MayPass(i), {}, Row)

\* delete_account suspends the user and clears the row.
ServeDelete(i) ==
  Answering(i, "delete", MayPass(i), {}, [profile |-> None, key |-> 0, closed |-> TRUE])

\* get_session.
Commit(row) ==
  /\ row \in server.open
  /\ server' = [server EXCEPT !.open = @ \ {row}, !.profile = row.profile, !.key = row.key,
                              !.closed = row.closed]
  /\ UNCHANGED <<view, flight, past>>

Fail(i) ==
  /\ past.faults < MaxFaults
  /\ flight[i].outcome # "throws"
  /\ flight' = Served(flight, i, "throws", {})
  /\ past' = [past EXCEPT !.faults = @ + 1]
  /\ UNCHANGED <<server, view>>

-----------------------------------------------------------------------------
(* What the handlers do with the answers. *)

Ending(i, op, v) ==
  /\ view.open /\ i \in Answers(flight, op)
  /\ view' = v
  /\ flight' = Handled(flight, i)
  /\ UNCHANGED <<server, past>>

Good(i) == flight[i].outcome = "ok"

Thrown(i) == flight[i].outcome = "throws"

\* Without an answer the page keeps its spinner.
HandleMe(i) ==
  Ending(i, "me", [view EXCEPT !.loading = @ /\ Thrown(i),
                               !.profile = IF Good(i) THEN flight[i].data ELSE @])

\* fetchProfile, which follows, is not a matter of this page.
HandleSave(i) == Ending(i, "save", [view EXCEPT !.saving = @ /\ Thrown(i)])

KeyAnswered(i, op, v) ==
  /\ view.open /\ i \in Answers(flight, op)
  /\ view' = v
  /\ flight' = Handled(flight, i)
  /\ past' = [past EXCEPT !.stale = IF flight[i].outcome = "refused" THEN @
                                    ELSE IF Good(i) /\ ~flight[i].late THEN {} ELSE KeyOps]
  /\ UNCHANGED server

HandleGenKeypair(i) ==
  KeyAnswered(i, "generate", [view EXCEPT !.keypair = IF Good(i) THEN flight[i].data ELSE @])

Recovered(i) ==
  IF Good(i)
  THEN [view EXCEPT !.recovering = FALSE, !.keypair = flight[i].data,
                    !.dialog = IF @ = "recovery" THEN "none" ELSE @]
  ELSE [view EXCEPT !.recovering = @ /\ Thrown(i)]

HandleRecoverKeypair(i) == KeyAnswered(i, "recover", Recovered(i))

HandleChangePassword(i) == Ending(i, "password", [view EXCEPT !.changing = @ /\ Thrown(i)])

\* The browser leaves for the landing page once the account is gone.
HandleDeleteAccount(i) ==
  Ending(i, "delete", [view EXCEPT !.deleting = @ /\ Thrown(i),
                                   !.open = ~Good(i),
                                   !.dialog = IF Good(i) THEN "none" ELSE @])

-----------------------------------------------------------------------------
(* The specification. *)

Init ==
  /\ \E name \in Names : server = [profile |-> name, key |-> 1, next |-> 2, closed |-> FALSE, open |-> {}]
  /\ view = [open |-> TRUE, loading |-> TRUE, profile |-> None, keypair |-> 0, dialog |-> "none",
             saving |-> FALSE, recovering |-> FALSE, changing |-> FALSE, deleting |-> FALSE]
  /\ flight = <<Request("me", None)>>
  /\ past = [stale |-> {}, steps |-> 0, faults |-> 0]

Next ==
  \/ \E form \in Names, link \in BOOLEAN : Save(form, link)
  \/ GenKeypair \/ OpenRecovery \/ OpenDelete \/ Cancel
  \/ \E phrase \in 0..server.next - 1 : RecoverKeypair(phrase)
  \/ \E right \in BOOLEAN : ChangePassword(right) \/ DeleteAccount(right)
  \/ \E row \in server.open : Commit(row)
  \/ \E i \in DOMAIN flight :
       \/ ServeMe(i) \/ ServeSave(i) \/ ServeGenerate(i) \/ ServeRecover(i)
       \/ ServePassword(i) \/ ServeDelete(i) \/ Fail(i)
       \/ HandleMe(i) \/ HandleSave(i) \/ HandleGenKeypair(i) \/ HandleRecoverKeypair(i)
       \/ HandleChangePassword(i) \/ HandleDeleteAccount(i)

Spec == Init /\ [][Next]_vars

-----------------------------------------------------------------------------
(* Properties. *)

\* Form, key pairs and requests keep their types.
TypeOK ==
  /\ {Row} \cup server.open \subseteq
       [profile : Names \cup {None}, key : 0..server.next - 1, closed : BOOLEAN]
  /\ view.profile \in Names \cup {None} /\ view.keypair \in 0..server.next - 1
  /\ view.dialog \in {"none", "recovery", "delete"}
  /\ \A i \in DOMAIN flight : IsRequest(flight[i],
       {"me", "save", "password", "delete"} \cup KeyOps)

\* A key pair that the page shows is the one that cityhall has registered when nothing
\* is in flight or about to be committed, unless two requests for one overlapped, with
\* their commits, or an answer was lost.
KeypairShownIsRegistered ==
  flight = <<>> /\ server.open = {} /\ past.stale = {} /\ view.keypair # 0 /\ ~server.closed =>
    view.keypair = server.key
=============================================================================
