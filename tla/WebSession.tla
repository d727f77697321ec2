----------------------------- MODULE WebSession -----------------------------
(***************************************************************************)
(* Signing in and out in the tabs of one browser: AuthContext, AuthGuard,  *)
(* the pages Login and Register, OTPVerification, KeypairDisplay, Layout   *)
(* and ProfileCompletion, against cityhall's routers/auth.py.              *)
(*                                                                         *)
(* localStorage is shared by the tabs; the context of each tab is a copy   *)
(* that was made when the tab was loaded.  A request carries the token of  *)
(* localStorage, the guards read the token of the context.                 *)
(*                                                                         *)
(* Abstractions: a token is the account that it was issued to; the browser *)
(* has one device id; passwords that the user types are right or wrong by  *)
(* choice; one-time codes are told apart by their number and do not expire;*)
(* of a profile only its account and whether it is complete are kept; the  *)
(* pages behind the guards are "dashboard" and "admin"; the prompt of      *)
(* ProfileCompletion is dismissed in all tabs at once; a new account and a *)
(* new code are committed by the time that the code is read in the mail.   *)
(***************************************************************************)
EXTENDS Fetch, FiniteSets

CONSTANTS
  Accounts,      \* accounts that exist or may be registered
  Admins,        \* those with is_admin
  Tabs,          \* tabs of the browser
  None,          \* no token, no profile, no pending verification
  MaxSteps,      \* bound: what the user does
  MaxFlight,     \* bound: requests in flight
  MaxFaults      \* bound: requests that fail

VARIABLES
  server,        \* cityhall: accounts, one-time codes, complete profiles, open changes
  view,          \* localStorage and the tabs
  flight,        \* requests in flight, in the order they were sent
  past           \* histories: tabs with a profile amiss, steps, faults

vars == <<server, view, flight, past>>

Routes == {"landing", "login", "register", "dashboard", "admin"}

Tab(t) == view.tabs[t]

-----------------------------------------------------------------------------
(* The parts of the pages. *)

\* AuthGuard around the element of a route, in a tab with this token.
Landed(route, token) ==
  CASE route \in {"dashboard", "admin"} /\ token = None -> "login"
    [] route = "admin" /\ token \notin Admins \cup {None} -> "dashboard"
    [] OTHER -> route

\* Where the drawer leads; only the admin pages are left out for others.
MenuRoutes(token) == {"landing", "dashboard"} \cup IF token \in Admins THEN {"admin"} ELSE {}

\* Where the links of the open page lead.
PageRoutes(tab) ==
  CASE tab.route = "landing" -> IF tab.token = None THEN {"login", "register"} ELSE {"dashboard"}
    [] tab.route = "login" -> {"register"}
    [] tab.route = "register" -> {"login"}
    [] OTHER -> {}

\* The state of a tab that was just loaded.
Loaded(storage, route) ==
  [route |-> Landed(route, storage), otp |-> None, keys |-> FALSE, busy |-> FALSE,
   token |-> storage, profile |-> None]

\* A page that is left loses what it kept, not the requests it made.
Moved(tab, route) ==
  [tab EXCEPT !.route = Landed(route, tab.token), !.otp = None, !.keys = FALSE, !.busy = FALSE]

\* What a tab keeps while it shows OTPVerification.
ShowsCodeForm(t) == Tab(t).otp # None /\ ~Tab(t).keys

\* Between the registration and the code the new keys are shown.
ShowsKeys(t) == Tab(t).otp # None /\ Tab(t).keys

IsProfileComplete(profile) == profile # None /\ profile.complete

\* The prompt and the dialog of ProfileCompletion.
ShowsPrompt(t) ==
  Tab(t).route = "dashboard" /\ ~view.dismissed /\ ~IsProfileComplete(Tab(t).profile)

MayAct == past.steps < MaxSteps

Acted == [past EXCEPT !.steps = @ + 1]

MaySend == MayAct /\ Len(flight) < MaxFlight

\* `here` says whether the page that made the request is still open.
SessionRequest(t, op, user, nr, as) ==
  Request(op, [tab |-> t, user |-> user, nr |-> nr, as |-> as, here |-> TRUE])

Left(fs, t) == [j \in DOMAIN fs |->
  IF fs[j].arg.tab = t THEN [fs[j] EXCEPT !.arg.here = FALSE] ELSE fs[j]]

\* One request of tab t, with the token of localStorage.
Sending(t, op, user, nr) ==
  /\ flight' = Append(flight, SessionRequest(t, op, user, nr, view.storage))
  /\ past' = Acted

-----------------------------------------------------------------------------
(* cityhall. *)

DeviceKnown(a) == \E k \in DOMAIN server.codes :
  server.codes[k].user = a /\ server.codes[k].device /\ server.codes[k].used

CodeRow(a, purpose, device) == [user |-> a, purpose |-> purpose, device |-> device, used |-> FALSE]

\* _create_and_send_otp.
CodeSent(codes, a, purpose, device) == Append(codes, CodeRow(a, purpose, device))

Voided(codes, a, purpose) ==
  [k \in DOMAIN codes |->
    IF codes[k].user = a /\ codes[k].purpose = purpose THEN [codes[k] EXCEPT !.used = TRUE] ELSE codes[k]]

\* What a transaction sets: the codes that are used, and whose profile is complete.
Change(used, complete) == [used |-> used, complete |-> complete]

Answer(i, outcome, changes) ==
  /\ flight' = Served(flight, i, outcome, {})
  /\ server' = [server EXCEPT !.open = @ \cup changes]
  /\ UNCHANGED <<view, past>>

\* login, with the right password: a token, or a code for a device it does not know.
ServeLogin(i) ==
  LET a == flight[i].arg.user
  IN /\ i \in Waiting(flight, "login")
     /\ a \in server.registered
     /\ IF DeviceKnown(a) \/ a \in Admins
        THEN /\ flight' = Served(flight, i, "ok", [otp |-> None])
             /\ UNCHANGED server
        ELSE /\ flight' = Served(flight, i, "ok", [otp |-> "login"])
             /\ server' = [server EXCEPT !.codes = CodeSent(@, a, "login", TRUE)]
     /\ UNCHANGED <<view, past>>

RefuseLogin(i) ==
  /\ i \in Waiting(flight, "login")
  /\ flight' = Served(flight, i, "refused", {})
  /\ UNCHANGED <<server, view, past>>

ServeRegister(i) ==
  LET a == flight[i].arg.user
  IN /\ i \in Waiting(flight, "register")
     /\ IF a \in server.registered
        THEN /\ flight' = Served(flight, i, "refused", {})
             /\ UNCHANGED server
        ELSE /\ flight' = Served(flight, i, "ok", [otp |-> "register"])
             /\ server' = [server EXCEPT !.registered = @ \cup {a},
                                         !.codes = CodeSent(@, a, "register", FALSE)]
     /\ UNCHANGED <<view, past>>

\* verify_otp: an unused code of the account is used up and answered with a token, by two
\* requests at once too.
ServeVerify(i) ==
  LET nr == flight[i].arg.nr
  IN /\ i \in Waiting(flight, "verify")
     /\ IF server.codes[nr].used THEN Answer(i, "refused", {})
        ELSE Answer(i, "ok", {Change({nr}, {})})

\* resend_otp: the codes so far are void, a new one is for this device.
ServeResend(i) ==
  LET row == server.codes[flight[i].arg.nr]
  IN /\ i \in Waiting(flight, "resend")
     /\ flight' = Served(flight, i, "ok", {})
     /\ server' = [server EXCEPT !.codes =
                     CodeSent(Voided(@, row.user, row.purpose), row.user, row.purpose, TRUE)]
     /\ UNCHANGED <<view, past>>

\* GET and PUT /users/me, for the account whose token the request carries.
ServeMe(i) ==
  LET a == flight[i].arg.as
  IN /\ i \in Waiting(flight, "me")
     /\ flight' = IF a = None THEN Served(flight, i, "refused", {})
                  ELSE Served(flight, i, "ok", [of |-> a, complete |-> a \in server.complete])
     /\ UNCHANGED <<server, view, past>>

ServeProfile(i) ==
  LET a == flight[i].arg.as
  IN /\ i \in Waiting(flight, "profile")
     /\ IF a = None THEN Answer(i, "refused", {})
        ELSE Answer(i, "ok", {Change({}, {a})})

Used(codes, nrs) == [k \in DOMAIN codes |-> [codes[k] EXCEPT !.used = @ \/ k \in nrs]]

\* get_session.
Commit(change) ==
  /\ change \in server.open
  /\ server' = [server EXCEPT
       !.open = @ \ {change},
       !.codes = Used(@, change.used),
       !.complete = @ \cup change.complete]
  /\ UNCHANGED <<view, flight, past>>

Fail(i) ==
  /\ i \in DOMAIN flight
  /\ past.faults < MaxFaults
  /\ flight[i].outcome # "throws"
  /\ flight' = Served(flight, i, "throws", {})
  /\ past' = [past EXCEPT !.faults = @ + 1]
  /\ UNCHANGED <<server, view>>

-----------------------------------------------------------------------------
(* What the user does in a tab. *)

SetTab(t, tab) == view' = [view EXCEPT !.tabs[t] = tab]

\* A profile of another account than that of the token is on its way to tab t.
Foreign(fs, t, token) ==
  \E j \in DOMAIN fs : fs[j].op = "me" /\ fs[j].arg.tab = t /\ fs[j].arg.as # token

\* History: the tabs whose profile may be amiss, as one was foreign or did not come.
Unsure(foreign, t) == IF foreign THEN past.unsure \cup {t} ELSE past.unsure

Navigate(t, route) ==
  /\ route \in MenuRoutes(Tab(t).token) \cup PageRoutes(Tab(t))
  /\ route # Tab(t).route
  /\ MayAct /\ past' = Acted
  /\ SetTab(t, Moved(Tab(t), route))
  /\ flight' = Left(flight, t)
  /\ UNCHANGED server

\* The tab is loaded again; the requests it made are nobody's.
Reload(t) ==
  /\ MaySend
  /\ LET tab == Loaded(view.storage, Tab(t).route)
         orphans == [j \in DOMAIN flight |->
           IF flight[j].arg.tab = t THEN [flight[j] EXCEPT !.arg.tab = None] ELSE flight[j]]
     IN /\ SetTab(t, tab)
        /\ flight' = IF view.storage = None THEN orphans
                     ELSE Append(orphans, SessionRequest(t, "me", None, 0, view.storage))
        /\ past' = [Acted EXCEPT !.unsure = @ \ {t}]
  /\ UNCHANGED server

\* Login.handleSubmit and login, up to the request.
SignIn(t, a) ==
  /\ Tab(t).route = "login" /\ Tab(t).otp = None /\ ~Tab(t).busy
  /\ MaySend
  /\ SetTab(t, [Tab(t) EXCEPT !.busy = TRUE])
  /\ Sending(t, "login", a, 0)
  /\ UNCHANGED server

\* Register.handleSubmit and register, up to the request.
SignUp(t, a) ==
  /\ Tab(t).route = "register" /\ Tab(t).otp = None /\ ~Tab(t).busy
  /\ MaySend
  /\ SetTab(t, [Tab(t) EXCEPT !.busy = TRUE])
  /\ Sending(t, "register", a, 0)
  /\ UNCHANGED server

\* KeypairDisplay's Continue.
KeysSaved(t) ==
  /\ ShowsKeys(t)
  /\ SetTab(t, [Tab(t) EXCEPT !.keys = FALSE])
  /\ UNCHANGED <<server, flight, past>>

\* The codes that the user was mailed for this form.
Mailed(otp) ==
  {k \in DOMAIN server.codes : server.codes[k].user = otp.user /\ server.codes[k].purpose = otp.purpose}

\* OTPVerification.handleVerify; Enter submits the code while another is being verified.
Verify(t, k) ==
  /\ ShowsCodeForm(t)
  /\ k \in Mailed(Tab(t).otp)
  /\ MaySend
  /\ Sending(t, "verify", Tab(t).otp.user, k)
  /\ UNCHANGED <<server, view>>

\* OTPVerification.handleResend; the button is off while it runs, and after it failed.
Resend(t) ==
  /\ ShowsCodeForm(t) /\ ~Tab(t).busy
  /\ MaySend
  /\ SetTab(t, [Tab(t) EXCEPT !.busy = TRUE])
  /\ \E k \in Mailed(Tab(t).otp) : Sending(t, "resend", Tab(t).otp.user, k)
  /\ UNCHANGED server

\* Wrong variant: the profile stays in the context.
SignedOutKeepingProfile(t) ==
  /\ view' = [view EXCEPT !.storage = None,
                          !.tabs[t] = Moved([Tab(t) EXCEPT !.token = None], "landing")]
  /\ past' = [Acted EXCEPT !.unsure = IF Foreign(flight, t, None) THEN @ \cup {t} ELSE @ \ {t}]

\* logout: localStorage, and the context of this tab.
SignedOut(t) ==
  /\ view' = [view EXCEPT !.storage = None,
                          !.tabs[t] = Moved([Tab(t) EXCEPT !.token = None, !.profile = None], "landing")]
  /\ past' = [Acted EXCEPT !.unsure = IF Foreign(flight, t, None) THEN @ \cup {t} ELSE @ \ {t}]

\* The entry Logout of Layout's menu.
Logout(t) ==
  /\ Tab(t).token # None
  /\ MayAct
  /\ SignedOut(t)
  /\ flight' = Left(flight, t)
  /\ UNCHANGED server

\* ProfileCompletion.handleDismiss.
Dismiss(t) ==
  /\ ShowsPrompt(t)
  /\ view' = [view EXCEPT !.dismissed = TRUE]
  /\ UNCHANGED <<server, flight, past>>

\* ProfileCompletion.handleSave, up to the first request.
SaveProfile(t) ==
  /\ ShowsPrompt(t) /\ ~Tab(t).busy
  /\ MaySend
  /\ SetTab(t, [Tab(t) EXCEPT !.busy = TRUE])
  /\ Sending(t, "profile", None, 0)
  /\ UNCHANGED server

-----------------------------------------------------------------------------
(* What the handlers do with the answers. *)

Idle(r) == IF r.arg.here THEN [Tab(r.arg.tab) EXCEPT !.busy = FALSE] ELSE Tab(r.arg.tab)

\* login and completeAuth: localStorage and context, then the effect on the token.
SignedIn(i, a) ==
  LET t == flight[i].arg.tab
  IN /\ view' = [view EXCEPT !.storage = a,
                             !.tabs[t] = Moved([Tab(t) EXCEPT !.token = a], "dashboard")]
     /\ flight' = Append(Left(Handled(flight, i), t), SessionRequest(t, "me", None, 0, a))
     /\ past' = [past EXCEPT !.unsure = Unsure(Foreign(flight, t, a), t)]
     /\ UNCHANGED server

\* OTPVerification's onSuccess in Register: localStorage only, so that the guard of
\* the dashboard finds no token in the context.
StoredOnly(i, a) ==
  LET t == flight[i].arg.tab
  IN /\ view' = [view EXCEPT !.storage = a, !.tabs[t] = Moved(@, "dashboard")]
     /\ flight' = Left(Handled(flight, i), t)
     /\ UNCHANGED <<server, past>>

\* The handler ends in the page that made the request.
Ended(i, tab) ==
  /\ SetTab(flight[i].arg.tab, tab)
  /\ flight' = Handled(flight, i)
  /\ UNCHANGED <<server, past>>

Live(op) == {i \in Answers(flight, op) : flight[i].arg.tab # None}

\* The rest of login and of Login.handleSubmit.
HandleLogin(i) ==
  LET r == flight[i]
  IN /\ i \in Live("login")
     /\ IF r.outcome = "ok" /\ r.data.otp = None THEN SignedIn(i, r.arg.user)
        ELSE Ended(i, IF r.outcome = "ok" /\ r.arg.here
                      THEN [Idle(r) EXCEPT !.otp = [user |-> r.arg.user, purpose |-> "login"]]
                      ELSE Idle(r))

\* The rest of register and of Register.handleSubmit; nothing is caught.
HandleRegister(i) ==
  LET r == flight[i]
  IN /\ i \in Live("register")
     /\ Ended(i, IF r.outcome = "throws" THEN Tab(r.arg.tab)
                 ELSE IF r.outcome = "ok" /\ r.arg.here
                 THEN [Idle(r) EXCEPT !.otp = [user |-> r.arg.user, purpose |-> "register"],
                                      !.keys = TRUE]
                 ELSE Idle(r))

\* The rest of handleVerify, with the onSuccess of the page that shows the form.
HandleVerify(i) ==
  LET r == flight[i]
  IN /\ i \in Live("verify")
     /\ IF r.outcome # "ok" THEN Ended(i, Tab(r.arg.tab))
        ELSE IF server.codes[r.arg.nr].purpose = "login" THEN SignedIn(i, r.arg.user)
        ELSE StoredOnly(i, r.arg.user)

\* The rest of handleResend, whatever the status.
HandleResend(i) ==
  LET r == flight[i]
  IN /\ i \in Live("resend")
     /\ Ended(i, IF r.outcome = "throws" THEN Tab(r.arg.tab) ELSE Idle(r))

\* The rest of fetchProfile, whichever session the tab has by then.
HandleMe(i) ==
  LET r == flight[i]
      t == r.arg.tab
      rest == Handled(flight, i)
      fits == r.data.of = Tab(t).token /\ ~Foreign(rest, t, Tab(t).token)
  IN /\ i \in Live("me")
     /\ SetTab(t, IF r.outcome = "ok" THEN [Idle(r) EXCEPT !.profile = r.data] ELSE Idle(r))
     /\ flight' = rest
     /\ past' = [past EXCEPT !.unsure = IF r.outcome # "ok" THEN @ \cup {t}
                                       ELSE IF fits THEN @ \ {t} ELSE @]
     /\ UNCHANGED server

\* ProfileCompletion.handleSave goes on with fetchProfile, whatever the status.
HandleProfile(i) ==
  LET r == flight[i]
      t == r.arg.tab
  IN /\ i \in Live("profile")
     /\ flight' = IF r.outcome = "throws" THEN Handled(flight, i)
                  ELSE Append(Handled(flight, i),
                              [SessionRequest(t, "me", None, 0, view.storage) EXCEPT !.arg.here = r.arg.here])
     /\ past' = [past EXCEPT !.unsure =
                   Unsure(r.outcome # "throws" /\ view.storage # Tab(t).token, t)]
     /\ UNCHANGED <<server, view>>

\* An answer for a page that was loaded again.
Drop(i) ==
  /\ flight[i].arg.tab = None /\ flight[i].outcome # "none"
  /\ flight' = Handled(flight, i)
  /\ UNCHANGED <<server, view, past>>

-----------------------------------------------------------------------------
(* The specification. *)

\* A browser with nobody signed in, on any page; at least the administrators have
\* accounts.
Init ==
  /\ server \in [registered : {Admins, Accounts}, codes : {<<>>}, complete : {{}}, open : {{}}]
  /\ \E routes \in [Tabs -> Routes] :
       view = [storage |-> None, dismissed |-> FALSE, tabs |-> [t \in Tabs |-> Loaded(None, routes[t])]]
  /\ flight = <<>>
  /\ past = [unsure |-> {}, steps |-> 0, faults |-> 0]

User(t) ==
  \/ \E route \in Routes : Navigate(t, route)
  \/ \E a \in Accounts : SignIn(t, a) \/ SignUp(t, a)
  \/ \E k \in DOMAIN server.codes : Verify(t, k)
  \/ KeysSaved(t) \/ Resend(t) \/ Logout(t) \/ Reload(t) \/ Dismiss(t) \/ SaveProfile(t)

Cityhall(i) ==
  \/ ServeLogin(i) \/ RefuseLogin(i) \/ ServeRegister(i) \/ ServeVerify(i)
  \/ ServeResend(i) \/ ServeMe(i) \/ ServeProfile(i)

Page(i) ==
  \/ HandleLogin(i) \/ HandleRegister(i) \/ HandleVerify(i)
  \/ HandleResend(i) \/ HandleMe(i) \/ HandleProfile(i) \/ Drop(i)

Next ==
  \/ \E t \in Tabs : User(t)
  \/ \E change \in server.open : Commit(change)
  \/ \E i \in DOMAIN flight : Cityhall(i) \/ Page(i) \/ Fail(i)

Spec == Init /\ [][Next]_vars

-----------------------------------------------------------------------------
(* Properties. *)

Ops == {"login", "register", "verify", "resend", "me", "profile"}

Holders == Accounts \cup {None}

\* Tabs, storage, codes and requests keep their types, and a guarded page is only
\* open in a tab that holds a token.
TypeOK ==
  /\ server.registered \subseteq Accounts /\ server.complete \subseteq Accounts
  /\ \A k \in DOMAIN server.codes : server.codes[k].user \in server.registered
  /\ server.open \subseteq [used : SUBSET DOMAIN server.codes, complete : SUBSET Accounts]
  /\ view.storage \in Holders /\ view.dismissed \in BOOLEAN
  /\ \A t \in Tabs :
       /\ Tab(t).route \in Routes /\ Tab(t).token \in Holders
       /\ Tab(t).profile = None \/ Tab(t).profile.of \in Accounts
       /\ Tab(t).route = Landed(Tab(t).route, Tab(t).token)
  /\ \A i \in DOMAIN flight : IsRequest(flight[i], Ops)
  /\ past.unsure \subseteq Tabs

\* A tab shows the profile of its own session, or is about to load one, with three
\* exceptions: the session changed while a profile was on its way, which the context
\* takes whenever it comes; another tab changed the token in localStorage before
\* ProfileCompletion loaded the profile again; or a request for the profile failed, and
\* the context kept the one of the session before (login and completeAuth).
ProfileIsOfSession == \A t \in Tabs :
  LET profile == Tab(t).profile
  IN profile # None /\ profile.of # Tab(t).token =>
       \/ t \in past.unsure
       \/ \E i \in DOMAIN flight : flight[i].op = "me" /\ flight[i].arg.tab = t
=============================================================================
