----------------------------- MODULE SearchPage -----------------------------
(***************************************************************************)
(* Encrypted search from the dashboard: components/SearchPanel.tsx and     *)
(* utils/crypto.ts in pages/dashboard/UserDashboard.tsx, with Paywall.tsx, *)
(* against the search endpoints of microservices/sp1d3r/app.py, which ask  *)
(* the banker and cityhall whether the user may search.                    *)
(*                                                                         *)
(* A browser has one X25519 key pair in localStorage for all of its tabs.  *)
(* A search is encrypted for the public key its tab was opened with; the   *)
(* results are decrypted with the private key stored at that time.  Polls  *)
(* of an earlier search and decryptions go on while another one is shown.  *)
(*                                                                         *)
(* Abstractions: one user on one day; a key pair is a number, 0 for none;  *)
(* a search is its number, with one task that finds something or fails     *)
(* (TaskBoard has the queue); the query is never empty; a poll asks        *)
(* MaxPolls times, not 60; the list of earlier searches is read and shown  *)
(* in one step; the key pair in storage is never damaged.  The dashboard   *)
(* asks for the subscription of a user "current" whom nobody is, so its    *)
(* switch for super searches is never shown and its trial is the user's.   *)
(***************************************************************************)
EXTENDS Fetch, FiniteSets

CONSTANTS
  Tabs,          \* tabs of the user's browser
  None,          \* nobody, no search shown, no text
  MaxSteps,      \* bound: what the user does
  MaxFlight,     \* bound: requests in flight when the user or a poll starts another
  MaxPolls,      \* bound: requests of one poll
  MaxFaults      \* bound: requests that fail, those between services included

ASSUME MaxPollsAssumption == MaxPolls \in Nat

VARIABLES server, view, flight, past

vars == <<server, view, flight, past>>

TrialDailyLimit == 1

TrialMaxDays == 7

Snapshot(id) ==
  [id |-> id, completed |-> server.searches[id].completed,
   found |-> server.searches[id].crawl = "found"]

Closed ==
  [phase |-> "closed", pub |-> 0, searching |-> FALSE, current |-> None, text |-> None,
   history |-> {}, asking |-> {}, polls |-> {}, decrypts |-> {}]

-----------------------------------------------------------------------------
(* Opening the dashboard. *)

Step == past.steps < MaxSteps /\ Len(flight) < MaxFlight

Counted(p) == [p EXCEPT !.steps = @ + 1]

Now(t) == view.tabs[t]

\* The view with another state of tab t.
Becomes(t, tab) == [view EXCEPT !.tabs[t] = tab]

\* loadHistory asks with the key in storage, whatever key the tab has.
LoadHistory(tab, stored) == [tab EXCEPT !.asking = @ \cup ({stored} \ {0})]

\* A new tab, or the paywall's way back.
OffersDashboard(t) == Now(t).phase \in {"closed", "paywall"}

\* `overlapped` is a history: two tabs were between reading and writing the storage.
Opened == [Counted(past) EXCEPT !.overlapped = @ \/ \E t \in Tabs : Now(t).phase = "loading"]

\* Wrong variant: generateX25519Keypair whenever the dashboard opens.
OpenAfresh(t) ==
  /\ Step /\ OffersDashboard(t)
  /\ view' = Becomes(t, [Closed EXCEPT !.phase = "loading"])
  /\ past' = Opened
  /\ UNCHANGED <<server, flight>>

\* loadOrGenerateKeypair reads the storage at once; 0 makes it generate a pair.
Open(t) ==
  /\ Step /\ OffersDashboard(t)
  /\ view' = Becomes(t, [Closed EXCEPT !.phase = "loading", !.pub = view.stored])
  /\ past' = Opened
  /\ UNCHANGED <<server, flight>>

\* It goes on with what it read: an import of that pair.
KeyLoaded(t) ==
  /\ Now(t).phase = "loading" /\ Now(t).pub # 0
  /\ view' = Becomes(t, LoadHistory([Now(t) EXCEPT !.phase = "ready"], view.stored))
  /\ UNCHANGED <<server, flight, past>>

\* generateX25519Keypair stores the new pair over whatever is there by now.
KeyGenerated(t) ==
  LET key == past.keys + 1
  IN /\ Now(t).phase = "loading" /\ Now(t).pub = 0 /\ view.webCrypto
     /\ view' = [Becomes(t, LoadHistory([Now(t) EXCEPT !.phase = "ready", !.pub = key], key))
                   EXCEPT !.stored = key]
     /\ past' = [past EXCEPT !.keys = key]
     /\ UNCHANGED <<server, flight>>

\* Without WebCrypto the panel is ready and has no key.
KeyFails(t) ==
  /\ Now(t).phase = "loading" /\ ~view.webCrypto
  /\ view' = Becomes(t, LoadHistory([Now(t) EXCEPT !.phase = "ready"], view.stored))
  /\ UNCHANGED <<server, flight, past>>

-----------------------------------------------------------------------------
(* The search panel. *)

\* Answers for a page that was left find nobody.
Orphaned(fs, t) ==
  [i \in DOMAIN fs |-> IF fs[i].arg.tab = t THEN [fs[i] EXCEPT !.arg.tab = None] ELSE fs[i]]

\* Something is still under way that will change what the tab shows.
Busy(t) == Now(t).searching \/ Now(t).polls # {} \/ Now(t).decrypts # {}

\* The user asks for another search than before; `crossed` is a history.
Wanting(t, id) == [Counted(past) EXCEPT !.wanted[t] = id, !.crossed[t] = Busy(t)]

\* What the dashboard tells the panel.  Its count of trial searches is in the profile of
\* the sign-in, and never above 0 as long as cityhall keeps none.
HasActiveSub == FALSE

TrialUsed == view.profile >= TrialMaxDays

Exhausted == [Closed EXCEPT !.phase = "paywall"]

\* The button and the Enter key.
OffersSearch(t) == Now(t).phase = "ready" /\ ~Now(t).searching /\ Now(t).pub # 0

\* Wrong variant: the decrypted results of the search before stay.
SearchKeepingText(t) ==
  /\ Step /\ OffersSearch(t)
  /\ view' = Becomes(t, [Now(t) EXCEPT !.searching = TRUE, !.current = None])
  /\ flight' = Append(flight, Request("search", [tab |-> t, key |-> Now(t).pub]))
  /\ past' = Wanting(t, None)
  /\ UNCHANGED server

Search(t) ==
  /\ Step /\ OffersSearch(t)
  /\ IF ~HasActiveSub /\ TrialUsed
     THEN /\ view' = Becomes(t, Exhausted)
          /\ flight' = Orphaned(flight, t)
     ELSE /\ view' = Becomes(t, [Now(t) EXCEPT !.searching = TRUE, !.current = None, !.text = None])
          /\ flight' = Append(flight, Request("search", [tab |-> t, key |-> Now(t).pub]))
  /\ past' = Wanting(t, None)
  /\ UNCHANGED server

\* What decryptAllResults starts from: the pair in storage, which is there by now.
Decryption(id, polled) == [id |-> id, key |-> view.stored, polled |-> polled]

\* The panel with the results.
ShowsResults(t) == Now(t).current # None

ShowsHistory(t) == Now(t).phase = "ready" /\ Now(t).history # {}

ViewHistory(t, s) ==
  /\ Step /\ ShowsHistory(t) /\ s \in Now(t).history
  /\ view' = Becomes(t, [Now(t) EXCEPT
       !.current = s, !.text = None,
       !.decrypts = IF s.completed /\ s.found THEN @ \cup {Decryption(s.id, FALSE)} ELSE @])
  /\ past' = Wanting(t, s.id)
  /\ UNCHANGED <<server, flight>>

RefreshHistory(t) ==
  /\ Step /\ ShowsHistory(t)
  /\ view' = Becomes(t, LoadHistory(Now(t), view.stored))
  /\ past' = Counted(past)
  /\ UNCHANGED <<server, flight>>

Close(t) ==
  /\ past.steps < MaxSteps /\ Now(t).phase = "ready"
  /\ view' = Becomes(t, Closed)
  /\ flight' = Orphaned(flight, t)
  /\ past' = Counted(past)
  /\ UNCHANGED server

-----------------------------------------------------------------------------
(* sp1d3r, with the banker and cityhall behind it. *)

\* internal_trial_status, on the first day of the trial.
TrialAvailable(trial) ==
  trial.started => trial.used < TrialMaxDays /\ trial.used < TrialDailyLimit

\* internal_trial_mark_used returns from inside the loop over get_session: the generator
\* is closed at its yield, commit is never reached and the session rolls back.
TrialMarked(trial) == trial

\* _check_search_authorization, when the calls in `failed` raise: a banker that cannot be
\* asked is like no subscription, a trial that cannot be read is none.
Authorisation(failed) ==
  CASE "banker" \notin failed /\ server.subscribed -> "subscription"
    [] ~("banker" \notin failed /\ server.subscribed)
         /\ "trial" \notin failed /\ TrialAvailable(server.trial) -> "trial"
    [] OTHER -> "none"

\* POST /v1/search, first half: who it is and whether they may search.
ServeCheck(i, failed) ==
  /\ i \in Waiting(flight, "search") /\ flight[i].data = {}
  /\ past.faults + Cardinality(failed) <= MaxFaults
  /\ past' = [past EXCEPT !.faults = @ + Cardinality(failed)]
  /\ flight' = CASE "user" \in failed -> Served(flight, i, "refused", {})
                 [] "user" \notin failed /\ Authorisation(failed) = "none" ->
                      Served(flight, i, "refused", {"paywall"})
                 [] OTHER -> Served(flight, i, "none", {Authorisation(failed)})
  /\ UNCHANGED <<server, view>>

\* Second half: the trial is marked and the search created by later requests and calls.
ServeCreate(i) ==
  LET reason == CHOOSE reason \in flight[i].data : TRUE
      search == [key |-> flight[i].arg.key, reason |-> reason,
                 crawl |-> "no", completed |-> FALSE]
  IN /\ i \in Waiting(flight, "search") /\ flight[i].data # {}
     /\ server' = [server EXCEPT
          !.searches = Append(@, search),
          !.trial = IF reason = "trial" THEN TrialMarked(@) ELSE @]
     /\ flight' = Served(flight, i, "ok", {Len(server.searches) + 1})
     /\ UNCHANGED <<view, past>>

\* A crawler hands in the task of search id.
Crawl(id, found) ==
  /\ server.searches[id].crawl = "no"
  /\ server' = [server EXCEPT !.searches[id].crawl = IF found THEN "found" ELSE "failed"]
  /\ UNCHANGED <<view, flight, past>>

\* Wrong variant: all() of the tasks that are not there yet.
CheckedTooSoon(search) == [search EXCEPT !.completed = TRUE]

\* check_completion, when a search is read.
Checked(search) == [search EXCEPT !.completed = search.crawl # "no"]

\* GET /v1/search/{id}
ServeGet(i) ==
  LET id == flight[i].arg.id
      search == Checked(server.searches[id])
  IN /\ i \in Waiting(flight, "get")
     /\ server' = [server EXCEPT !.searches[id] = search]
     /\ flight' = Served(flight, i, "ok",
          {[id |-> id, completed |-> search.completed, found |-> search.crawl = "found"]})
     /\ UNCHANGED <<view, past>>

Fail(i) ==
  /\ past.faults < MaxFaults
  /\ flight[i].outcome # "throws"
  /\ flight[i].outcome = "none" => flight[i].data = {}
  /\ flight' = Served(flight, i, "throws", {})
  /\ past' = [past EXCEPT !.faults = @ + 1]
  /\ UNCHANGED <<server, view>>

-----------------------------------------------------------------------------
(* What the handlers do with the answers. *)

Answer(i, op) == i \in Answers(flight, op) /\ flight[i].arg.tab # None

\* handleSearch has no catch: when its request throws the panel goes on searching.
HandleSearch(i) ==
  LET r == flight[i]
      t == r.arg.tab
      id == CHOOSE id \in r.data : TRUE
      shown == [Now(t) EXCEPT !.searching = FALSE,
                              !.current = [id |-> id, completed |-> FALSE, found |-> FALSE],
                              !.polls = @ \cup {[id |-> id, left |-> MaxPolls]}]
  IN /\ Answer(i, "search")
     /\ view' = CASE r.outcome = "ok" -> Becomes(t, shown)
                  [] r.outcome = "refused" /\ r.data = {} ->
                       Becomes(t, [Now(t) EXCEPT !.searching = FALSE])
                  [] r.outcome = "refused" /\ r.data # {} -> Becomes(t, Exhausted)
                  [] OTHER -> view
     /\ flight' = IF r.outcome = "refused" /\ r.data # {}
                  THEN Orphaned(Handled(flight, i), t) ELSE Handled(flight, i)
     /\ past' = IF r.outcome = "ok" /\ past.wanted[t] = None
                THEN [past EXCEPT !.wanted[t] = id] ELSE past
     /\ UNCHANGED server

\* One turn of the loop in pollSearch.
Poll(t, p) ==
  /\ p \in Now(t).polls /\ p.left > 0 /\ Len(flight) < MaxFlight
  /\ \A i \in DOMAIN flight :
       ~(flight[i].op = "get" /\ flight[i].arg = [tab |-> t, id |-> p.id])
  /\ view' = Becomes(t, [Now(t) EXCEPT !.polls = (@ \ {p}) \cup {[p EXCEPT !.left = @ - 1]}])
  /\ flight' = Append(flight, Request("get", [tab |-> t, id |-> p.id]))
  /\ UNCHANGED <<server, past>>

\* The answer is shown, whatever the panel shows by now.  A poll ends with its search,
\* after its last turn, or when a request throws.
HandlePoll(i) ==
  LET r == flight[i]
      t == r.arg.tab
      p == CHOOSE p \in Now(t).polls : p.id = r.arg.id
      s == CHOOSE s \in r.data : TRUE
      shown == [Now(t) EXCEPT !.current = s]
      ended == [shown EXCEPT !.polls = @ \ {p}]
  IN /\ Answer(i, "get")
     /\ view' = CASE r.outcome # "ok" -> Becomes(t, [Now(t) EXCEPT !.polls = @ \ {p}])
                  [] r.outcome = "ok" /\ ~s.completed ->
                       Becomes(t, IF p.left = 0 THEN ended ELSE shown)
                  [] r.outcome = "ok" /\ s.completed /\ s.found ->
                       Becomes(t, [ended EXCEPT !.decrypts = @ \cup {Decryption(s.id, TRUE)}])
                  [] OTHER -> Becomes(t, LoadHistory(ended, view.stored))
     /\ flight' = Handled(flight, i)
     /\ UNCHANGED <<server, past>>

\* decryptFinding needs the private key of the pair the search was encrypted for;
\* otherwise the panel says "[decryption failed]".
Decrypted(t, d) ==
  LET shown == [Now(t) EXCEPT
                  !.text = [of |-> d.id, plain |-> d.key = server.searches[d.id].key],
                  !.decrypts = @ \ {d}]
  IN /\ d \in Now(t).decrypts
     /\ view' = Becomes(t, IF d.polled THEN LoadHistory(shown, view.stored) ELSE shown)
     /\ UNCHANGED <<server, flight, past>>

\* GET /v1/searches, which completes nothing, and its answer.
HistoryLoaded(t, key) ==
  LET own == {id \in DOMAIN server.searches : server.searches[id].key = key}
  IN /\ key \in Now(t).asking
     /\ view' = Becomes(t, [Now(t) EXCEPT !.history = {Snapshot(id) : id \in own},
                                           !.asking = @ \ {key}])
     /\ UNCHANGED <<server, flight, past>>

HistoryFails(t, key) ==
  /\ past.faults < MaxFaults /\ key \in Now(t).asking
  /\ view' = Becomes(t, [Now(t) EXCEPT !.asking = @ \ {key}])
  /\ past' = [past EXCEPT !.faults = @ + 1]
  /\ UNCHANGED <<server, flight>>

Dropped(i) ==
  /\ flight[i].outcome # "none" /\ flight[i].arg.tab = None
  /\ flight' = Handled(flight, i)
  /\ UNCHANGED <<server, view, past>>

-----------------------------------------------------------------------------
(* The specification. *)

Init ==
  /\ server \in [searches : {<<>>}, subscribed : BOOLEAN, trial : {[started |-> FALSE, used |-> 0]}]
  /\ view \in [stored : {0}, webCrypto : BOOLEAN, profile : {0}, tabs : {[t \in Tabs |-> Closed]}]
  /\ flight = <<>>
  /\ past = [steps |-> 0, faults |-> 0, keys |-> 0, overlapped |-> FALSE,
             wanted |-> [t \in Tabs |-> None], crossed |-> [t \in Tabs |-> FALSE]]

Next ==
  \/ \E t \in Tabs :
       \/ Open(t) \/ KeyLoaded(t) \/ KeyGenerated(t) \/ KeyFails(t)
       \/ Search(t) \/ RefreshHistory(t) \/ Close(t)
       \/ \E s \in Now(t).history : ViewHistory(t, s)
       \/ \E p \in Now(t).polls : Poll(t, p)
       \/ \E d \in Now(t).decrypts : Decrypted(t, d)
       \/ \E key \in Now(t).asking : HistoryLoaded(t, key) \/ HistoryFails(t, key)
  \/ \E i \in DOMAIN flight :
       \/ \E failed \in SUBSET {"user", "banker", "trial"} : ServeCheck(i, failed)
       \/ ServeCreate(i) \/ ServeGet(i) \/ Fail(i)
       \/ HandleSearch(i) \/ HandlePoll(i) \/ Dropped(i)
  \/ \E id \in DOMAIN server.searches, found \in BOOLEAN : Crawl(id, found)

Spec == Init /\ [][Next]_vars

-----------------------------------------------------------------------------
(* Properties. *)

\* Keys, tabs, searches and requests keep their types; what a tab shows or polls exists.
TypeOK ==
  LET Ids == DOMAIN server.searches
      Snapshots == [id : Ids, completed : BOOLEAN, found : BOOLEAN]
  IN /\ \A id \in Ids : /\ server.searches[id].key \in 1 .. past.keys
                        /\ server.searches[id].crawl \in {"no", "found", "failed"}
                        /\ server.searches[id].completed => server.searches[id].crawl # "no"
     /\ view.stored \in 0 .. past.keys
     /\ \A t \in Tabs :
          /\ Now(t).phase \in {"closed", "loading", "ready", "paywall"}
          /\ Now(t).pub \in 0 .. past.keys
          /\ Now(t).current \in Snapshots \cup {None}
          /\ Now(t).text \in [of : Ids, plain : BOOLEAN] \cup {None}
          /\ Now(t).history \subseteq Snapshots /\ Now(t).asking \subseteq 1 .. past.keys
          /\ Now(t).polls \subseteq [id : Ids, left : 0 .. MaxPolls]
          /\ \A p, q \in Now(t).polls : p.id = q.id => p = q
     /\ \A i \in DOMAIN flight : IsRequest(flight[i], {"search", "get"})

\* A user can read every result of their searches, in whichever tab and however much later
\* they look at it, as long as no two tabs were opened at the same time.
ResultsAreReadable ==
  ~past.overlapped =>
    \A t \in Tabs : Now(t).text \in [of : DOMAIN server.searches, plain : {TRUE}] \cup {None}

\* A tab shows the search that its user asked for last, and the text of that search and not
\* of another, unless they asked for it while the tab was still busy with an earlier one.
ShowsWhatWasAsked ==
  \A t \in Tabs : ShowsResults(t) /\ ~past.crossed[t] =>
    /\ Now(t).current.id = past.wanted[t]
    /\ Now(t).text \in {None} \cup {[of |-> past.wanted[t], plain |-> b] : b \in BOOLEAN}

\* WHITEPAPER.md, Trial Mode: a user without a subscription gets one free search per day.
OneFreeSearchADay ==
  Cardinality({id \in DOMAIN server.searches : server.searches[id].reason = "trial"})
    <= TrialDailyLimit
=============================================================================
