-------------------------- MODULE WebPagesProofs ---------------------------
(***************************************************************************)
(* Proofs about the pages of the web console, continued: the pages of an   *)
(* administrator, and all pages together.  WebPages is a disjunction over  *)
(* its pages, so its invariant is the conjunction of one invariant for     *)
(* each page.                                                              *)
(***************************************************************************)
EXTENDS UserPagesProofs

-----------------------------------------------------------------------------
(* UsersPage: the list of users. *)

UsersOps == {"users", "put", "suspend", "unsuspend", "post", "delete"}

UsersChanges == {"put", "suspend", "unsuspend", "post", "delete"}

Queries == Names \cup {None}

\* What the handlers are about, with the query that they load with.
UsersAbouts == [about : Names \cup Users!Users, query : Queries]

UsersArgs == Queries \cup UsersAbouts

UsersData == SUBSET Users!Users

UsersAll == Requests(UsersOps, UsersArgs, UsersData)

UsersAsk(r) ==
  /\ r.op = "users" => r.arg \in Queries
  /\ r.op \in UsersChanges => r.arg \in UsersAbouts
  /\ r.op \in {"put", "post"} => r.arg.about \in Users!Users

UsersRequests == {r \in UsersAll : UsersAsk(r)}

\* What was changed and is not committed yet.
UsersOpen == [names : SUBSET Names, users : SUBSET Users!Users]

UsersServer(s) == s \in [users : SUBSET Users!Users, open : SUBSET UsersOpen]

UsersViews ==
  [shown : SUBSET Users!Users, of : Queries, query : Queries, selected : Users!Users \cup {None}]

UsersPasts == [stale : SUBSET {"users"}, steps : Nat, faults : Nat]

\* cityhall's answer to each query.
UsersNow(s) == [q \in Queries |-> IF q = None THEN s ELSE {u \in s : u.name = q}]

UsersTracks(fs, s, v, p) ==
  Tracks(fs, "users", UsersChanges, UsersNow(s.users), v.of, v.shown, p.stale)

UsersInv ==
  /\ UsersServer(server) /\ view \in UsersViews /\ past \in UsersPasts
  /\ flight \in Seq(UsersRequests) /\ UsersTracks(flight, server, view, past)

LEMMA UsersFetch ==
  /\ \A fs, i : Users!Handled(fs, i) = F!Handled(fs, i)
  /\ \A fs, i, o, d : Users!Served(fs, i, o, d) = F!Served(fs, i, o, d)
  /\ \A op, a : Users!Request(op, a) = F!Request(op, a)
  /\ \A fs, l : Users!Outdated(fs, l) = F!Outdated(fs, l)
  /\ \A fs, l : Users!Overtaken(fs, l) = F!Overtaken(fs, l)
  /\ \A st, fs, c, l : Users!StaleAfterCommit(st, fs, c, l) = F!StaleAfterCommit(st, fs, c, l)
  BY DEF Users!Handled, F!Handled, Users!Served, F!Served,
         Users!Request, F!Request, Users!Outdated, F!Outdated,
         Users!Overtaken, F!Overtaken, Users!StaleAfterCommit, F!StaleAfterCommit,
         Users!Reacting, F!Reacting

LEMMA UsersClosed ==
  /\ Closed(UsersRequests, UsersOps, UsersArgs, UsersData)
  /\ \A r \in UsersRequests :
       /\ r \in UsersAll /\ UsersAsk(r)
       /\ r.op \in UsersOps /\ r.outcome \in F!Outcomes /\ r.late \in BOOLEAN
       /\ r.data \in SUBSET Users!Users
  /\ {} \in UsersData
<1>1. \A r \in UsersAll : /\ r.op \in UsersOps /\ r.outcome \in F!Outcomes /\ r.late \in BOOLEAN
                          /\ r.data \in SUBSET Users!Users
  BY DEF UsersAll, Requests, UsersData
<1>2. \A r \in UsersAll, q \in UsersRequests : Alike(r, q) => r \in UsersRequests
  BY DEF UsersRequests, UsersAsk, Alike
<1> QED
  BY <1>1, <1>2 DEF Closed, UsersRequests, UsersAll, UsersData

LEMMA UsersFacts ==
  ASSUME UsersInv
  PROVE  /\ flight \in Seq(UsersAll)
         /\ \A i \in DOMAIN flight :
              /\ flight[i] \in UsersAll /\ UsersAsk(flight[i])
              /\ flight[i].op \in UsersOps /\ flight[i].outcome \in F!Outcomes
              /\ flight[i].late \in BOOLEAN /\ flight[i].data \in SUBSET Users!Users
<1>1. flight \in Seq(UsersRequests)
  BY DEF UsersInv
<1>2. \A r \in UsersRequests :
        /\ r \in UsersAll /\ UsersAsk(r) /\ r.data \in SUBSET Users!Users
        /\ r.op \in UsersOps /\ r.outcome \in F!Outcomes /\ r.late \in BOOLEAN
  BY UsersClosed
<1>3. \A i \in DOMAIN flight : flight[i] \in UsersRequests
  BY <1>1
<1>4. \A i \in DOMAIN flight : flight[i] \in UsersAll
  BY <1>2, <1>3
<1> QED
  BY <1>1, <1>2, <1>3, <1>4, LegalStill

\* A request was sent.
LEMMA UsersSent ==
  ASSUME UsersInv, NEW op \in UsersOps, NEW arg \in UsersArgs,
         flight' = Append(flight, Users!Request(op, arg)), UNCHANGED server,
         past' = [past EXCEPT !.steps = past.steps + 1],
         view' \in UsersViews, view'.shown = view.shown, view'.of = view.of,
         \A r \in UsersAll : r.op = op /\ r.arg = arg => UsersAsk(r)
  PROVE  UsersInv'
<1>1. flight' = Append(flight, F!Request(op, arg)) /\ flight \in Seq(UsersAll)
  BY UsersFetch, UsersFacts
<1>2. past' \in UsersPasts /\ past'.stale = past.stale
  BY DEF UsersInv, UsersPasts
<1>3. /\ \A r \in UsersAll : r.op = op /\ r.arg = arg => r \in UsersRequests
      /\ flight \in Seq(UsersRequests)
  BY DEF UsersRequests, UsersInv
<1>4. Closed(UsersRequests, UsersOps, UsersArgs, UsersData) /\ {} \in UsersData
  BY UsersClosed
<1>5. flight' \in Seq(UsersRequests)
  BY <1>1, <1>3, <1>4, SentIn DEF UsersAll
<1>6. Tracks(flight', "users", UsersChanges, UsersNow(server.users), view.of, view.shown, past.stale)
  BY <1>1, <1>4, SentTracks DEF UsersInv, UsersTracks, UsersAll
<1> QED
  BY <1>2, <1>5, <1>6 DEF UsersInv, UsersTracks

\* A handler was started.
LEMMA UsersAsked ==
  ASSUME UsersInv, NEW op \in UsersChanges, NEW about \in Names \cup Users!Users,
         Users!Ask(op, about), UNCHANGED <<server, view>>,
         op \in {"put", "post"} => about \in Users!Users
  PROVE  UsersInv'
<1> DEFINE arg == [about |-> about, query |-> view.query]
<1>1. view \in UsersViews
  BY DEF UsersInv
<1>2. arg \in UsersAbouts /\ arg \in UsersArgs /\ arg.about = about
  BY <1>1 DEF UsersAbouts, UsersViews, UsersArgs
<1>3. /\ flight' = Append(flight, Users!Request(op, arg))
      /\ past' = [past EXCEPT !.steps = past.steps + 1]
  BY DEF Users!Ask
<1> HIDE DEF arg
<1>4. op \in UsersOps /\ op # "users"
  BY DEF UsersOps, UsersChanges
<1>5. \A r \in UsersAll : r.op = op /\ r.arg = arg => UsersAsk(r)
  BY <1>2, <1>4 DEF UsersAsk
<1> QED
  BY <1>1, <1>2, <1>3, <1>4, <1>5, UsersSent

LEMMA UsersPage ==
  ASSUME UsersInv,
         \/ \E query \in Names \cup {None} : Users!Search(query)
         \/ \E u \in view.shown :
              Users!Suspend(u) \/ Users!Unsuspend(u) \/ Users!Delete(u) \/ Users!Edit(u)
         \/ \E role \in BOOLEAN : Users!SaveEdit(role)
         \/ Users!CancelEdit
         \/ \E name \in Names, role \in BOOLEAN : Users!Create(name, role)
  PROVE  UsersInv'
<1>1. view \in UsersViews
  BY DEF UsersInv
<1>2. ASSUME NEW query \in Names \cup {None}, Users!Search(query)
      PROVE  UsersInv'
  <2>1. /\ view' = [view EXCEPT !.query = query] /\ UNCHANGED server
        /\ flight' = Append(flight, Users!Request("users", query))
        /\ past' = [past EXCEPT !.steps = past.steps + 1]
    BY <1>2 DEF Users!Search, Users!Load
  <2>2. view' \in UsersViews /\ view'.shown = view.shown /\ view'.of = view.of
    BY <1>1, <2>1 DEF UsersViews, Queries
  <2>3. /\ \A r \in UsersAll : r.op = "users" /\ r.arg = query => UsersAsk(r)
        /\ "users" \in UsersOps /\ query \in UsersArgs
    BY DEF UsersAsk, UsersChanges, UsersOps, UsersArgs, Queries
  <2> QED
    BY <2>1, <2>2, <2>3, UsersSent
<1>3. ASSUME NEW u \in view.shown, Users!Suspend(u) \/ Users!Unsuspend(u) \/ Users!Delete(u)
      PROVE  UsersInv'
  <2>1. u.name \in Names
    BY <1>1 DEF UsersViews, Users!Users
  <2>2. PICK op \in {"suspend", "unsuspend", "delete"} :
          Users!Ask(op, u.name) /\ UNCHANGED <<server, view>>
    BY <1>3 DEF Users!Suspend, Users!Unsuspend, Users!Delete
  <2> QED
    BY <2>1, <2>2, UsersAsked DEF UsersChanges
<1>4. ASSUME NEW u \in view.shown, Users!Edit(u)
      PROVE  UsersInv'
  <2>1. view' = [view EXCEPT !.selected = u] /\ UNCHANGED <<server, flight, past>>
    BY <1>4 DEF Users!Edit
  <2>2. view' \in UsersViews /\ view'.shown = view.shown /\ view'.of = view.of
    BY <1>1, <2>1 DEF UsersViews
  <2> QED
    BY <2>1, <2>2 DEF UsersInv, UsersTracks
<1>5. ASSUME NEW role \in BOOLEAN, Users!SaveEdit(role)
      PROVE  UsersInv'
  <2> DEFINE u == [view.selected EXCEPT !.role = role]
  <2>1. Users!Ask("put", u) /\ UNCHANGED <<server, view>> /\ view.selected # None
    BY <1>5 DEF Users!SaveEdit
  <2>2. u \in Users!Users
    BY <1>1, <2>1 DEF UsersViews, Users!Users
  <2> HIDE DEF u
  <2> QED
    BY <2>1, <2>2, UsersAsked DEF UsersChanges
<1>6. ASSUME Users!CancelEdit
      PROVE  UsersInv'
  <2>1. view' = [view EXCEPT !.selected = None] /\ UNCHANGED <<server, flight, past>>
    BY <1>6 DEF Users!CancelEdit
  <2>2. view' \in UsersViews /\ view'.shown = view.shown /\ view'.of = view.of
    BY <1>1, <2>1 DEF UsersViews
  <2> QED
    BY <2>1, <2>2 DEF UsersInv, UsersTracks
<1>7. ASSUME NEW name \in Names, NEW role \in BOOLEAN, Users!Create(name, role)
      PROVE  UsersInv'
  <2> DEFINE u == Users!NewUser(name, role)
  <2>1. Users!Ask("post", u) /\ UNCHANGED <<server, view>>
    BY <1>7 DEF Users!Create
  <2>2. u \in Users!Users
    BY DEF Users!NewUser, Users!Users
  <2> HIDE DEF u
  <2> QED
    BY <2>1, <2>2, UsersAsked DEF UsersChanges
<1> QED
  BY <1>2, <1>3, <1>4, <1>5, <1>6, <1>7

\* A request was served, or failed.
LEMMA UsersAnswered ==
  ASSUME UsersInv, NEW i \in DOMAIN flight, NEW outcome \in {"ok", "refused", "throws"},
         NEW data \in UsersData, flight' = Users!Served(flight, i, outcome, data),
         UNCHANGED view, UsersServer(server'), server'.users = server.users,
         past' \in UsersPasts, past'.stale = past.stale,
         flight[i].op = "users" /\ outcome = "ok" => data = UsersNow(server.users)[flight[i].arg],
         flight[i].op \in UsersChanges => outcome # "refused" \/ flight[i].outcome = "none"
  PROVE  UsersInv'
<1> DEFINE r == flight[i]
<1>1. /\ flight' = F!Served(flight, i, outcome, data) /\ outcome \in F!Outcomes
      /\ UsersAsk(r) /\ flight \in Seq(UsersAll) /\ flight \in Seq(UsersRequests)
  BY UsersFetch, UsersFacts DEF F!Outcomes, UsersInv
<1>2. flight' \in Seq(UsersRequests)
  <2>1. \A q \in UsersAll : q.op = r.op /\ q.arg = r.arg => q \in UsersRequests
    BY <1>1 DEF UsersRequests, UsersAsk
  <2>2. Closed(UsersRequests, UsersOps, UsersArgs, UsersData)
    BY UsersClosed
  <2> HIDE DEF r
  <2> QED
    BY <1>1, <2>1, <2>2, ServedIn DEF UsersAll, r
<1>3. UsersTracks(flight', server', view, past)
  <2>1. Tracks(flight, "users", UsersChanges, UsersNow(server.users), view.of, view.shown, past.stale)
    BY DEF UsersInv, UsersTracks
  <2>2. /\ "users" \notin UsersChanges
        /\ r.op \in UsersChanges => outcome \in {"ok", "throws"} \/ r.outcome = "none"
        /\ UsersNow(server'.users) = UsersNow(server.users)
    BY DEF UsersChanges
  <2>3. r.op = "users" => outcome # "ok" \/ data = UsersNow(server.users)[r.arg]
    OBVIOUS
  <2> HIDE DEF r
  <2> QED
    BY <1>1, <2>1, <2>2, <2>3, ServedTracks DEF UsersTracks, UsersAll, r
<1> QED
  BY <1>2, <1>3 DEF UsersInv, UsersTracks

\* A handler of a change: it may leave an open one.
LEMMA UsersChanged ==
  ASSUME UsersInv, NEW i \in DOMAIN flight,
         flight[i].op \in UsersChanges, flight[i].outcome = "none",
         NEW outcome \in {"ok", "refused", "throws"},
         NEW changes \in SUBSET UsersOpen, Users!Answer(i, outcome, changes)
  PROVE  UsersInv'
<1> DEFINE open == server.open \cup changes
<1>1. UsersServer(server) /\ past \in UsersPasts /\ {} \in UsersData
  BY UsersClosed DEF UsersInv
<1>2. /\ flight' = Users!Served(flight, i, outcome, {}) /\ UNCHANGED <<view, past>>
      /\ server' = [server EXCEPT !.open = open]
  BY DEF Users!Answer
<1>3. open \in SUBSET UsersOpen
  BY <1>1 DEF UsersServer
<1> HIDE DEF open
<1>4. UsersServer(server') /\ server'.users = server.users
  BY <1>1, <1>2, <1>3 DEF UsersServer
<1>5. flight[i].op # "users" /\ past' \in UsersPasts /\ past'.stale = past.stale /\ UNCHANGED view
  BY <1>1, <1>2 DEF UsersChanges
<1> QED
  BY <1>1, <1>2, <1>4, <1>5, UsersAnswered

LEMMA UsersUpdates ==
  ASSUME UsersInv, NEW i \in DOMAIN flight,
         Users!ServePut(i) \/ Users!ServeSuspend(i) \/ Users!ServeUnsuspend(i)
  PROVE  UsersInv'
<1> DEFINE r == flight[i]
<1>1. UsersAsk(r) /\ \A name : Users!Named(name) \in SUBSET Users!Users
  BY UsersFacts DEF UsersInv, UsersServer, Users!Named
\* Nothing to change, or a change that is not committed yet.
<1>2. ASSUME NEW name \in Names, NEW after \in SUBSET Users!Users,
             r.op \in UsersChanges, r.outcome = "none",
             \/ \E outcome \in {"ok", "refused"} : Users!Answer(i, outcome, {})
             \/ Users!Answer(i, "ok", {Users!Change({name}, after)})
      PROVE  UsersInv'
  <2>1. {Users!Change({name}, after)} \in SUBSET UsersOpen
    BY DEF Users!Change, UsersOpen
  <2> QED
    BY <1>2, <2>1, UsersChanged
<1>3. CASE Users!ServePut(i)
  <2> DEFINE name == r.arg.about.name
             role == r.arg.about.role
             after == {[u EXCEPT !.role = role] : u \in Users!Named(name)}
  <2>1. /\ r.op = "put" /\ r.outcome = "none"
        /\ \/ \E outcome \in {"ok", "refused"} : Users!Answer(i, outcome, {})
           \/ Users!Answer(i, "ok", {Users!Change({name}, after)})
    BY <1>3 DEF Users!ServePut, Users!Updating, Users!Waiting
  <2>2. name \in Names /\ role \in BOOLEAN
    BY <1>1, <2>1 DEF UsersAsk, Users!Users
  <2> HIDE DEF role
  <2>3. \A u \in Users!Users : [u EXCEPT !.role = role] \in Users!Users
    BY <2>2 DEF Users!Users
  <2>4. after \in SUBSET Users!Users /\ r.op \in UsersChanges
    BY <1>1, <2>1, <2>3 DEF UsersChanges
  <2> HIDE DEF after, name
  <2> QED
    BY <1>2, <2>1, <2>2, <2>4
<1>4. CASE Users!ServeSuspend(i) \/ Users!ServeUnsuspend(i)
  <2> DEFINE name == r.arg.about
             After(b) == {[u EXCEPT !.suspended = b] : u \in Users!Named(name)}
  <2>1. /\ r.op \in {"suspend", "unsuspend"} /\ r.outcome = "none"
        /\ \/ \E outcome \in {"ok", "refused"} : Users!Answer(i, outcome, {})
           \/ \E b \in BOOLEAN :
                Users!Named(name) # {} /\ Users!Answer(i, "ok", {Users!Change({name}, After(b))})
    BY <1>4 DEF Users!ServeSuspend, Users!ServeUnsuspend, Users!Updating, Users!Waiting
  <2>2. \A b \in BOOLEAN, u \in Users!Users : [u EXCEPT !.suspended = b] \in Users!Users
    BY DEF Users!Users
  <2>3. \A b \in BOOLEAN : After(b) \in SUBSET Users!Users
    BY <1>1, <2>2
  <2>4. r.op \in UsersChanges
    BY <2>1 DEF UsersChanges
  <2> HIDE DEF After
  <2>5. CASE \E outcome \in {"ok", "refused"} : Users!Answer(i, outcome, {})
    BY <2>1, <2>4, <2>5, UsersChanged
  <2>6. ASSUME NEW b \in BOOLEAN, Users!Named(name) # {},
               Users!Answer(i, "ok", {Users!Change({name}, After(b))})
        PROVE  UsersInv'
    <3>1. name \in Names
      BY <1>1, <2>6 DEF Users!Named, Users!Users
    <3> QED
      BY <1>2, <2>1, <2>3, <2>4, <2>6, <3>1
  <2> QED
    BY <2>1, <2>5, <2>6
<1> QED
  BY <1>3, <1>4

LEMMA UsersServes ==
  ASSUME UsersInv, NEW i \in DOMAIN flight,
         Users!ServeList(i) \/ Users!ServePost(i) \/ Users!ServeDelete(i) \/ Users!Fail(i)
  PROVE  UsersInv'
<1> DEFINE r == flight[i]
<1>1. UsersServer(server) /\ past \in UsersPasts /\ UsersAsk(r) /\ {} \in UsersData
      /\ server.users \in SUBSET Users!Users
  BY UsersFacts, UsersClosed DEF UsersInv, UsersServer
<1>2. CASE Users!ServeList(i)
  <2> DEFINE data == Users!Matching(r.arg)
  <2>1. /\ r.op = "users" /\ flight' = Users!Served(flight, i, "ok", data)
        /\ UNCHANGED <<server, view, past>>
    BY <1>2 DEF Users!ServeList, Users!Waiting
  <2>2. r.arg \in Queries
    BY <1>1, <2>1 DEF UsersAsk
  <2>3. data \in UsersData /\ data = UsersNow(server.users)[r.arg]
    BY <1>1, <2>2 DEF UsersData, Users!Matching, Users!Named, UsersNow
  <2> HIDE DEF data
  <2> QED
    BY <1>1, <2>1, <2>3, UsersAnswered DEF UsersChanges
<1>3. CASE Users!ServePost(i)
  <2> DEFINE user == r.arg.about
             change == Users!Change({}, {user})
  <2>1. /\ r.op = "post" /\ r.outcome = "none" /\ user \in Users!Users
        /\ Users!Answer(i, "refused", {}) \/ Users!Answer(i, "ok", {change})
    BY <1>1, <1>3 DEF Users!ServePost, Users!Waiting, UsersAsk
  <2>2. {change} \in SUBSET UsersOpen /\ r.op \in UsersChanges
    BY <2>1 DEF Users!Change, UsersOpen, UsersChanges
  <2> HIDE DEF change, user
  <2> QED
    BY <2>1, <2>2, UsersChanged
<1>4. CASE Users!ServeDelete(i)
  <2> DEFINE name == r.arg.about
             change == Users!Change({name}, {})
  <2>1. /\ r.op = "delete" /\ r.outcome = "none"
        /\ \/ \E outcome \in {"refused", "throws"} : Users!Answer(i, outcome, {})
           \/ Users!Named(name) # {} /\ Users!Answer(i, "throws", {change})
    BY <1>4 DEF Users!ServeDelete, Users!Waiting
  <2>2. Users!Named(name) # {} => name \in Names
    BY <1>1 DEF Users!Named, Users!Users
  <2>3. name \in Names => {change} \in SUBSET UsersOpen
    BY DEF Users!Change, UsersOpen
  <2>4. r.op \in UsersChanges
    BY <2>1 DEF UsersChanges
  <2> HIDE DEF change, name
  <2> QED
    BY <2>1, <2>2, <2>3, <2>4, UsersChanged
<1>5. CASE Users!Fail(i)
  <2>1. /\ flight' = Users!Served(flight, i, "throws", {}) /\ UNCHANGED <<server, view>>
        /\ past' = [past EXCEPT !.faults = past.faults + 1]
    BY <1>5 DEF Users!Fail
  <2>2. past' \in UsersPasts /\ past'.stale = past.stale
    BY <1>1, <2>1 DEF UsersPasts
  <2> QED
    BY <1>1, <2>1, <2>2, UsersAnswered
<1> QED
  BY <1>2, <1>3, <1>4, <1>5

\* A change was committed: what was loaded before is late, and nobody may load again.
LEMMA UsersCommits ==
  ASSUME UsersInv, NEW change \in server.open, Users!Commit(change)
  PROVE  UsersInv'
<1> DEFINE users == {u \in server.users : u.name \notin change.names} \cup change.users
           open == server.open \ {change}
           stale == F!StaleAfterCommit(past.stale, flight, UsersChanges, {"users"})
<1>1. /\ UsersServer(server) /\ past \in UsersPasts /\ flight \in Seq(UsersRequests)
      /\ UsersTracks(flight, server, view, past)
  BY DEF UsersInv
<1>2. /\ server' = [server EXCEPT !.open = open, !.users = users] /\ UNCHANGED view
      /\ flight' = F!Overtaken(flight, {"users"})
      /\ past' = [past EXCEPT !.stale = stale]
  BY UsersFetch DEF Users!Commit, Users!Changes, UsersChanges
<1>3. users \in SUBSET Users!Users /\ open \in SUBSET UsersOpen
  BY <1>1 DEF UsersServer, UsersOpen
<1>4. stale \in SUBSET {"users"}
  BY <1>1 DEF F!StaleAfterCommit, UsersPasts
<1> HIDE DEF users, open
<1>5. UsersServer(server') /\ server'.users = users
  BY <1>1, <1>2, <1>3 DEF UsersServer
<1>6. flight' \in Seq(UsersRequests)
  BY <1>1, <1>2, UsersClosed, OvertakenIn
<1>7. past' \in UsersPasts /\ past'.stale = stale
  BY <1>1, <1>2, <1>4 DEF UsersPasts
<1>8. UsersTracks(flight', server', view, past')
  <2>1. flight \in Seq(UsersAll) /\ "users" \in {"users"}
    BY UsersFacts
  <2>2. Tracks(flight', "users", UsersChanges, UsersNow(users), view.of, view.shown, stale)
    BY <1>1, <1>2, <2>1, OvertakenTracks DEF UsersTracks, UsersAll
  <2> QED
    BY <1>5, <1>7, <2>2 DEF UsersTracks
<1> QED
  BY <1>1, <1>2, <1>5, <1>6, <1>7, <1>8 DEF UsersInv

\* The list was loaded.
LEMMA UsersLoaded ==
  ASSUME UsersInv, NEW i \in DOMAIN flight, Users!HandleList(i)
  PROVE  UsersInv'
<1> DEFINE r == flight[i]
           stale == Users!StaleAfterLoad(past.stale, r)
<1>1. /\ view \in UsersViews /\ past \in UsersPasts /\ UsersAsk(r)
      /\ flight \in Seq(UsersRequests) /\ UsersTracks(flight, server, view, past)
      /\ r.data \in SUBSET Users!Users
  BY UsersFacts DEF UsersInv
<1>2. /\ r.op = "users" /\ flight' = F!Handled(flight, i) /\ UNCHANGED server
      /\ view' = IF r.outcome = "ok" THEN [view EXCEPT !.shown = r.data, !.of = r.arg] ELSE view
      /\ past' = [past EXCEPT !.stale = stale]
  BY UsersFetch DEF Users!HandleList, Users!Answers
<1>3. /\ stale \in SUBSET {"users"}
      /\ "users" \in stale \/ (r.outcome = "ok" /\ ~r.late)
  BY <1>1, <1>2 DEF UsersPasts, Users!StaleAfterLoad
<1>4. r.arg \in Queries
  BY <1>1, <1>2 DEF UsersAsk
<1> HIDE DEF stale
<1>5. flight' \in Seq(UsersRequests)
  BY <1>1, <1>2, UsersClosed, HandledIn
<1>6. past' \in UsersPasts /\ past'.stale = stale
  BY <1>1, <1>2, <1>3 DEF UsersPasts
<1> HIDE DEF r
<1>7. /\ view' \in UsersViews
      /\ r.outcome = "ok" => view'.shown = r.data /\ view'.of = r.arg
  BY <1>1, <1>2, <1>4 DEF UsersViews
<1>8. UsersTracks(flight', server, view', past')
  <2>1. /\ r.op = "users" /\ "users" \notin UsersChanges /\ r.op \notin UsersChanges
        /\ "users" \in stale
           \/ (r.outcome = "ok" /\ ~r.late /\ view'.of = r.arg /\ view'.shown = r.data)
    BY <1>2, <1>3, <1>7 DEF UsersChanges
  <2> QED
    BY <1>1, <1>2, <1>6, <2>1, HandledTracks, UsersFacts DEF UsersTracks, UsersAll, r
<1> QED
  BY <1>2, <1>5, <1>6, <1>7, <1>8 DEF UsersInv

\* A change was answered: the list is loaded again if the answer was good.
LEMMA UsersContinues ==
  ASSUME UsersInv, NEW i \in DOMAIN flight, Users!HandleRow(i) \/ Users!HandleSaveEdit(i)
  PROVE  UsersInv'
<1> DEFINE r == flight[i]
           rest == F!Handled(flight, i)
<1>1. /\ view \in UsersViews /\ past \in UsersPasts /\ UsersAsk(r) /\ r.outcome \in F!Outcomes
      /\ flight \in Seq(UsersRequests) /\ flight \in Seq(UsersAll)
      /\ UsersTracks(flight, server, view, past)
  BY UsersFacts DEF UsersInv
<1>2. PICK v \in {view, [view EXCEPT !.selected = None]} :
        r.op \in UsersChanges /\ r.outcome # "none" /\ Users!Continued(i, v)
  BY DEF Users!HandleRow, Users!HandleSaveEdit, UsersChanges, Users!Answers
<1>3. v \in UsersViews /\ v.shown = view.shown /\ v.of = view.of
  BY <1>1, <1>2 DEF UsersViews
<1>4. /\ view' = (IF r.outcome = "ok" THEN v ELSE view) /\ UNCHANGED server
      /\ r.outcome = "ok" => flight' = Append(rest, F!Request("users", r.arg.query))
      /\ r.outcome = "throws" => flight' = F!Outdated(rest, {"users"})
      /\ r.outcome = "refused" => flight' = rest
      /\ past' = [past EXCEPT !.stale = IF r.outcome = "throws" THEN past.stale \cup {"users"}
                                        ELSE past.stale]
  BY <1>2, UsersFetch DEF Users!Continued, Users!Load
<1>5. /\ view' \in UsersViews /\ view'.shown = view.shown /\ view'.of = view.of
  BY <1>1, <1>3, <1>4
<1>6. /\ r.arg.query \in Queries /\ r.arg.query \in UsersArgs /\ "users" \in UsersOps
      /\ r.op # "users" /\ "users" \notin UsersChanges
      /\ Closed(UsersRequests, UsersOps, UsersArgs, UsersData) /\ {} \in UsersData
  BY <1>1, <1>2, UsersClosed DEF UsersAsk, UsersAbouts, UsersChanges, UsersArgs, UsersOps
<1>7. rest \in Seq(UsersRequests) /\ rest \in Seq(UsersAll)
  <2>1. rest \in Seq(UsersAll)
    BY <1>1, HandledFacts DEF UsersAll
  <2> QED
    BY <1>1, <1>6, <2>1, HandledIn
<1>8. CASE r.outcome = "ok"
  <2>1. flight' = Append(rest, F!Request("users", r.arg.query))
        /\ past' = [past EXCEPT !.stale = past.stale]
    BY <1>4, <1>8
  <2>2. past' = past
    BY <1>1, <2>1 DEF UsersPasts
  <2>3. \A q \in UsersAll : q.op = "users" /\ q.arg = r.arg.query => q \in UsersRequests
    BY <1>6 DEF UsersRequests, UsersAsk
  <2> HIDE DEF rest, r
  <2>4. flight' \in Seq(UsersRequests)
    BY <1>6, <1>7, <2>1, <2>3, SentIn DEF UsersAll
  <2>5. Tracks(flight', "users", UsersChanges, UsersNow(server.users), view.of, view.shown, past.stale)
    BY <1>6, <1>7, <2>1, SentTracks DEF UsersAll
  <2> QED
    BY <1>4, <1>5, <2>2, <2>4, <2>5, <1>1 DEF UsersInv, UsersTracks
<1>9. CASE r.outcome = "throws"
  <2> DEFINE stale == past.stale \cup {"users"}
  <2>1. flight' = F!Outdated(rest, {"users"}) /\ past' = [past EXCEPT !.stale = stale]
    BY <1>4, <1>9
  <2>2. stale \in SUBSET {"users"} /\ "users" \in stale
    BY <1>1 DEF UsersPasts
  <2> HIDE DEF stale, rest
  <2>3. past' \in UsersPasts /\ past'.stale = stale
    BY <1>1, <2>1, <2>2 DEF UsersPasts
  <2>4. flight' \in Seq(UsersRequests)
    BY <1>6, <1>7, <2>1, OutdatedIn
  <2>5. IF "users" \in {"users"} THEN "users" \in stale ELSE FALSE
    BY <2>2
  <2>6. Tracks(flight', "users", UsersChanges, UsersNow(server.users), view.of, view.shown, stale)
    BY <1>7, <2>1, <2>5, OutdatedTracks DEF UsersAll
  <2> QED
    BY <1>4, <1>5, <2>3, <2>4, <2>6, <1>1 DEF UsersInv, UsersTracks
<1>10. CASE r.outcome = "refused"
  <2>1. flight' = rest /\ past' = [past EXCEPT !.stale = past.stale]
    BY <1>4, <1>10
  <2>2. past' = past
    BY <1>1, <2>1 DEF UsersPasts
  <2>3. Tracks(rest, "users", UsersChanges, UsersNow(server.users), view.of, view.shown, past.stale)
    BY <1>1, <1>6, <1>10, HandledTracks DEF UsersTracks, UsersAll
  <2> HIDE DEF rest
  <2> QED
    BY <1>4, <1>5, <1>7, <2>1, <2>2, <2>3, <1>1 DEF UsersInv, UsersTracks
<1> QED
  BY <1>1, <1>2, <1>8, <1>9, <1>10 DEF F!Outcomes

LEMMA UsersInit == ASSUME Users!Init PROVE UsersInv
<1> DEFINE names == Names \ {CHOOSE name \in Names : TRUE}
<1>1. server = [users |-> {Users!NewUser(name, FALSE) : name \in names}, open |-> {}]
  BY DEF Users!Init
<1>2. \A name \in Names : Users!NewUser(name, FALSE) \in Users!Users
  BY DEF Users!NewUser, Users!Users
<1>3. {Users!NewUser(name, FALSE) : name \in names} \in SUBSET Users!Users
  BY <1>2
<1>4. UsersServer(server)
  BY <1>1, <1>3 DEF UsersServer
<1>5. /\ view = [shown |-> {}, of |-> None, query |-> None, selected |-> None]
      /\ flight = Append(<<>>, F!Request("users", None))
      /\ <<>> \in Seq(UsersRequests) /\ <<>> \in Seq(UsersAll)
      /\ past = [stale |-> {}, steps |-> 0, faults |-> 0]
  BY UsersFetch DEF Users!Init, Users!Load
<1>6. view \in UsersViews /\ past \in UsersPasts
  BY <1>5 DEF UsersViews, UsersPasts, Queries
<1>7. /\ \A q \in UsersAll : q.op = "users" /\ q.arg = None => q \in UsersRequests
      /\ "users" \in UsersOps /\ None \in UsersArgs
  BY DEF UsersRequests, UsersAsk, UsersChanges, UsersOps, UsersArgs, Queries
<1>8. Closed(UsersRequests, UsersOps, UsersArgs, UsersData) /\ {} \in UsersData
  BY UsersClosed
<1>9. flight \in Seq(UsersRequests)
  BY <1>5, <1>7, <1>8, SentIn DEF UsersAll
<1>10. UsersTracks(flight, server, view, past)
  BY <1>5, <1>7, <1>8, SentTracks DEF UsersTracks, UsersAll
<1> QED
  BY <1>4, <1>6, <1>9, <1>10 DEF UsersInv

LEMMA UsersNext ==
  ASSUME UsersInv, Users!Next
  PROVE  UsersInv'
  BY UsersPage, UsersUpdates, UsersServes, UsersCommits, UsersLoaded, UsersContinues DEF Users!Next

\* The properties of the page.
LEMMA UsersShows ==
  ASSUME UsersInv
  PROVE  Users!TypeOK /\ Users!ViewConverges
<1>1. UsersServer(server) /\ view \in UsersViews /\ UsersTracks(flight, server, view, past)
  BY DEF UsersInv
<1>2. Users!TypeOK
  <2>1. \A i \in DOMAIN flight :
          Users!IsRequest(flight[i], {"users", "put", "suspend", "unsuspend", "post", "delete"})
    BY UsersFacts DEF Users!IsRequest, Users!Outcomes, F!Outcomes, UsersOps
  <2> QED
    BY <1>1, <2>1 DEF Users!TypeOK, Users!Changes, UsersServer, UsersOpen, UsersViews
<1>3. Users!ViewConverges
  <2>1. ASSUME flight = <<>>, past.stale = {}
        PROVE  view.shown = Users!Matching(view.of)
    <3>1. view.shown = UsersNow(server.users)[view.of]
      BY <1>1, <2>1, TracksIdle DEF UsersTracks
    <3>2. view.of \in Queries
      BY <1>1 DEF UsersViews
    <3> QED
      BY <3>1, <3>2 DEF UsersNow, Users!Matching, Users!Named
  <2> QED
    BY <2>1 DEF Users!ViewConverges
<1> QED
  BY <1>2, <1>3

-----------------------------------------------------------------------------
(* BrokersPage: the list of data brokers, and files of them. *)

BrokersOps == {"brokers", "post", "put", "delete", "csv"}

BrokersChanges == {"post", "put", "delete", "csv"}

Searches == Names \cup {None}

Rows == [id : Nat, name : Names]

BrokersAbouts == [about : Rows \cup Brokers!Files, query : Searches]

BrokersArgs == Searches \cup BrokersAbouts

BrokersData == SUBSET Rows

BrokersAll == Requests(BrokersOps, BrokersArgs, BrokersData)

\* Ids of rows were given out before the next one.
Given(rows, next) == \A b \in rows : b.id \in 1..next - 1

BrokersAsk(r, next) ==
  /\ r.op = "brokers" => r.arg \in Searches
  /\ Given(r.data, next)
  /\ r.op \in BrokersChanges => r.arg \in BrokersAbouts
  /\ r.op \in {"post", "put", "delete"} => r.arg.about \in Rows
  /\ r.op = "csv" => r.arg.about \in Brokers!Files

BrokersRequests(next) == {r \in BrokersAll : BrokersAsk(r, next)}

\* What was changed and is not committed yet.
BrokersOpen(next) == {c \in [ids : SUBSET Nat, brokers : SUBSET Rows] : Given(c.brokers, next)}

BrokersServer(s) ==
  /\ s \in [brokers : SUBSET Rows, open : SUBSET BrokersOpen(s.next), next : Nat] /\ 0 < s.next
  /\ Given(s.brokers, s.next)

Csvs == [open : BOOLEAN, file : Brokers!Files \cup {None}, rows : Brokers!Files, results : BOOLEAN]

BrokersViews ==
  [shown : SUBSET Rows, of : Searches, search : Searches, dialog : {None} \cup [id : Nat],
   saving : BOOLEAN, csv : Csvs, readers : SUBSET Brokers!Files, importing : BOOLEAN]

BrokersPasts == [stale : SUBSET {"brokers"}, mixed : BOOLEAN, steps : Nat, faults : Nat]

\* cityhall's answer to each query.
BrokersNow(brokers) ==
  [q \in Searches |-> IF q = None THEN brokers ELSE {b \in brokers : b.name = q}]

BrokersTracks(fs, s, v, p) ==
  Tracks(fs, "brokers", BrokersChanges, BrokersNow(s.brokers), v.of, v.shown, p.stale)

\* The rows are those of the file that is named, unless its reader has yet to come.
BrokersNamed(v, p) ==
  v.csv.rows # {} /\ ~p.mixed => v.csv.rows = v.csv.file \/ v.readers # {}

BrokersInv ==
  /\ BrokersServer(server) /\ view \in BrokersViews /\ past \in BrokersPasts
  /\ Given(view.shown, server.next) /\ BrokersNamed(view, past)
  /\ flight \in Seq(BrokersRequests(server.next)) /\ BrokersTracks(flight, server, view, past)

LEMMA BrokersFetch ==
  /\ \A fs, i : Brokers!Handled(fs, i) = F!Handled(fs, i)
  /\ \A fs, i, o, d : Brokers!Served(fs, i, o, d) = F!Served(fs, i, o, d)
  /\ \A op, a : Brokers!Request(op, a) = F!Request(op, a)
  /\ \A fs, l : Brokers!Outdated(fs, l) = F!Outdated(fs, l)
  /\ \A fs, l : Brokers!Overtaken(fs, l) = F!Overtaken(fs, l)
  /\ \A st, fs, c, l : Brokers!StaleAfterCommit(st, fs, c, l) = F!StaleAfterCommit(st, fs, c, l)
  BY DEF Brokers!Handled, F!Handled, Brokers!Served, F!Served,
         Brokers!Request, F!Request, Brokers!Outdated, F!Outdated,
         Brokers!Overtaken, F!Overtaken, Brokers!StaleAfterCommit, F!StaleAfterCommit,
         Brokers!Reacting, F!Reacting

LEMMA BrokersClosed ==
  ASSUME NEW next
  PROVE  /\ Closed(BrokersRequests(next), BrokersOps, BrokersArgs, BrokersData)
         /\ \A r \in BrokersRequests(next) :
              /\ r \in BrokersAll /\ BrokersAsk(r, next)
              /\ r.op \in BrokersOps /\ r.outcome \in F!Outcomes /\ r.late \in BOOLEAN
              /\ r.data \in SUBSET Rows
         /\ {} \in BrokersData
<1>1. \A r \in BrokersAll : /\ r.op \in BrokersOps /\ r.outcome \in F!Outcomes /\ r.late \in BOOLEAN
                            /\ r.data \in SUBSET Rows
  BY DEF BrokersAll, Requests, BrokersData
<1>2. \A r \in BrokersAll, q \in BrokersRequests(next) :
        Alike(r, q) => r \in BrokersRequests(next)
  BY DEF BrokersRequests, BrokersAsk, Alike
<1> QED
  BY <1>1, <1>2 DEF Closed, BrokersRequests, BrokersAll, BrokersData

LEMMA BrokersFacts ==
  ASSUME BrokersInv
  PROVE  /\ flight \in Seq(BrokersAll)
         /\ \A i \in DOMAIN flight :
              /\ flight[i] \in BrokersAll /\ BrokersAsk(flight[i], server.next)
              /\ flight[i].op \in BrokersOps /\ flight[i].outcome \in F!Outcomes
              /\ flight[i].late \in BOOLEAN /\ flight[i].data \in SUBSET Rows
<1> DEFINE S == BrokersRequests(server.next)
<1>1. flight \in Seq(S)
  BY DEF BrokersInv
<1>2. \A r \in S : /\ r \in BrokersAll /\ BrokersAsk(r, server.next) /\ r.data \in SUBSET Rows
                   /\ r.op \in BrokersOps /\ r.outcome \in F!Outcomes /\ r.late \in BOOLEAN
  BY BrokersClosed
<1> HIDE DEF S
<1>3. \A i \in DOMAIN flight : flight[i] \in S
  BY <1>1
<1>4. \A i \in DOMAIN flight : flight[i] \in BrokersAll
  BY <1>2, <1>3
<1> QED
  BY <1>1, <1>2, <1>3, <1>4, LegalStill

\* A request was sent.
LEMMA BrokersSent ==
  ASSUME BrokersInv, NEW op \in BrokersOps, NEW arg \in BrokersArgs,
         flight' = Append(flight, Brokers!Request(op, arg)), UNCHANGED server,
         past' = [past EXCEPT !.steps = past.steps + 1],
         view' \in BrokersViews, view'.shown = view.shown, view'.of = view.of,
         view'.csv = view.csv, view'.readers = view.readers,
         op = "brokers" => arg \in Searches,
         op \in BrokersChanges => arg \in BrokersAbouts,
         op \in {"post", "put", "delete"} => arg.about \in Rows,
         op = "csv" => arg.about \in Brokers!Files
  PROVE  BrokersInv'
<1> DEFINE S == BrokersRequests(server.next)
<1>1. flight' = Append(flight, F!Request(op, arg)) /\ flight \in Seq(BrokersAll) /\ flight \in Seq(S)
  BY BrokersFetch, BrokersFacts DEF BrokersInv
<1>2. past' \in BrokersPasts /\ past'.stale = past.stale
  BY DEF BrokersInv, BrokersPasts
<1>3. past'.mixed = past.mixed
  BY DEF BrokersInv, BrokersPasts
<1>4. \A r \in Requests(BrokersOps, BrokersArgs, BrokersData) :
        r.op = op /\ r.arg = arg /\ r.outcome = "none" /\ r.data = {} => r \in S
  BY DEF BrokersRequests, BrokersAll, BrokersAsk, Given
<1>5. Closed(S, BrokersOps, BrokersArgs, BrokersData) /\ {} \in BrokersData
  BY BrokersClosed
<1> HIDE DEF S
<1>6. flight' \in Seq(S)
  <2>1. Append(flight, F!Request(op, arg)) \in Seq(S)
    BY <1>1, <1>4, <1>5, SentIn
  <2> QED
    BY <1>1, <2>1
<1>7. Tracks(flight', "brokers", BrokersChanges, BrokersNow(server.brokers), view.of, view.shown,
             past.stale)
  BY <1>1, <1>5, SentTracks DEF BrokersInv, BrokersTracks, BrokersAll
<1>8. BrokersNamed(view', past')
  BY <1>3 DEF BrokersInv, BrokersNamed
<1> QED
  BY <1>2, <1>6, <1>7, <1>8 DEF BrokersInv, BrokersTracks, S

\* A handler was started.
LEMMA BrokersAsked ==
  ASSUME BrokersInv, NEW op \in BrokersChanges, NEW about \in Rows \cup Brokers!Files,
         Brokers!Ask(op, about), UNCHANGED server,
         view' \in BrokersViews, view'.shown = view.shown, view'.of = view.of,
         view'.csv = view.csv, view'.readers = view.readers,
         op \in {"post", "put", "delete"} => about \in Rows,
         op = "csv" => about \in Brokers!Files
  PROVE  BrokersInv'
<1> DEFINE arg == [about |-> about, query |-> view.search]
<1>1. view \in BrokersViews
  BY DEF BrokersInv
<1>2. arg \in BrokersAbouts /\ arg \in BrokersArgs /\ arg.about = about
  BY <1>1 DEF BrokersAbouts, BrokersViews, BrokersArgs
<1>3. /\ flight' = Append(flight, Brokers!Request(op, arg))
      /\ past' = [past EXCEPT !.steps = past.steps + 1]
  BY DEF Brokers!Ask, Brokers!Acted
<1> HIDE DEF arg
<1>4. op \in BrokersOps /\ op # "brokers"
  BY DEF BrokersOps, BrokersChanges
<1> QED
  BY <1>1, <1>2, <1>3, <1>4, BrokersSent

\* Only the dialogs changed.
LEMMA BrokersShown ==
  ASSUME BrokersInv, UNCHANGED <<server, flight>>, view' \in BrokersViews,
         view'.shown = view.shown, view'.of = view.of,
         past' \in BrokersPasts, past'.stale = past.stale, BrokersNamed(view', past')
  PROVE  BrokersInv'
  BY DEF BrokersInv, BrokersTracks

LEMMA BrokersPage ==
  ASSUME BrokersInv,
         \/ \E query \in Names \cup {None} : Brokers!SearchSubmit(query)
         \/ Brokers!Refresh \/ Brokers!OpenAddDialog \/ Brokers!CloseDialog
         \/ \E b \in view.shown : Brokers!OpenEditDialog(b) \/ Brokers!DeleteBroker(b)
         \/ \E name \in Names : Brokers!SaveBroker(name)
         \/ Brokers!CsvImport
  PROVE  BrokersInv'
<1>1. view \in BrokersViews /\ past \in BrokersPasts /\ BrokersNamed(view, past)
      /\ view.search \in Searches /\ view.shown \in SUBSET Rows
  BY DEF BrokersInv, BrokersViews
<1>2. ASSUME NEW query \in Searches, Brokers!LoadBrokers(query) = Brokers!Request("brokers", query),
             flight' = Append(flight, Brokers!LoadBrokers(query)), past' = Brokers!Acted,
             UNCHANGED server, view' = [view EXCEPT !.search = query] \/ view' = view
      PROVE  BrokersInv'
  <2>1. /\ view' \in BrokersViews /\ view'.shown = view.shown /\ view'.of = view.of
        /\ view'.csv = view.csv /\ view'.readers = view.readers
    BY <1>1, <1>2 DEF BrokersViews
  <2>2. /\ past' = [past EXCEPT !.steps = past.steps + 1]
        /\ query \in BrokersArgs /\ "brokers" \in BrokersOps /\ "brokers" \notin BrokersChanges
    BY <1>2 DEF Brokers!Acted, BrokersArgs, BrokersOps, BrokersChanges
  <2> QED
    BY <1>2, <2>1, <2>2, BrokersSent
<1>3. ASSUME NEW query \in Names \cup {None}, Brokers!SearchSubmit(query)
      PROVE  BrokersInv'
  BY <1>2, <1>3 DEF Brokers!SearchSubmit, Brokers!LoadBrokers, Searches
<1>4. CASE Brokers!Refresh
  BY <1>1, <1>2, <1>4 DEF Brokers!Refresh, Brokers!LoadBrokers
<1>5. ASSUME NEW dialog \in {None} \cup [id : Nat], view' = [view EXCEPT !.dialog = dialog],
             UNCHANGED <<server, flight, past>>
      PROVE  BrokersInv'
  <2>1. /\ view' \in BrokersViews /\ view'.shown = view.shown /\ view'.of = view.of
        /\ view'.csv = view.csv /\ view'.readers = view.readers
    BY <1>1, <1>5 DEF BrokersViews
  <2> QED
    BY <1>1, <1>5, <2>1, BrokersShown DEF BrokersNamed
<1>6. CASE Brokers!OpenAddDialog
  BY <1>5, <1>6 DEF Brokers!OpenAddDialog
<1>7. CASE Brokers!CloseDialog
  BY <1>5, <1>7 DEF Brokers!CloseDialog
<1>8. ASSUME NEW b \in view.shown, Brokers!OpenEditDialog(b)
      PROVE  BrokersInv'
  <2>1. b.id \in Nat
    BY <1>1 DEF Rows
  <2> QED
    BY <1>5, <1>8, <2>1 DEF Brokers!OpenEditDialog
<1>9. ASSUME NEW b \in view.shown, Brokers!DeleteBroker(b)
      PROVE  BrokersInv'
  <2>1. Brokers!Ask("delete", b) /\ UNCHANGED <<server, view>> /\ b \in Rows /\ "delete" \in BrokersChanges
    BY <1>1, <1>9 DEF Brokers!DeleteBroker, BrokersChanges
  <2> QED
    BY <1>1, <2>1, BrokersAsked
<1>10. ASSUME NEW name \in Names, Brokers!SaveBroker(name)
       PROVE  BrokersInv'
  <2> DEFINE row == [id |-> view.dialog.id, name |-> name]
             op == IF view.dialog.id = 0 THEN "post" ELSE "put"
  <2>1. /\ Brokers!Ask(op, row) /\ view' = [view EXCEPT !.saving = TRUE] /\ UNCHANGED server
        /\ view.dialog # None
    BY <1>10 DEF Brokers!SaveBroker, Brokers!MaySave
  <2>2. row \in Rows
    BY <1>1, <2>1 DEF BrokersViews, Rows
  <2>3. op \in BrokersChanges /\ op \in {"post", "put"}
    BY DEF BrokersChanges
  <2>4. /\ view' \in BrokersViews /\ view'.shown = view.shown /\ view'.of = view.of
        /\ view'.csv = view.csv /\ view'.readers = view.readers
    BY <1>1, <2>1 DEF BrokersViews
  <2> HIDE DEF row, op
  <2> QED
    BY <2>1, <2>2, <2>3, <2>4, BrokersAsked
<1>11. CASE Brokers!CsvImport
  <2>1. /\ Brokers!Ask("csv", view.csv.rows) /\ view' = [view EXCEPT !.importing = TRUE]
        /\ UNCHANGED server
    BY <1>11 DEF Brokers!CsvImport
  <2>2. view.csv.rows \in Brokers!Files /\ "csv" \in BrokersChanges
    BY <1>1 DEF BrokersViews, Csvs, BrokersChanges
  <2>3. /\ view' \in BrokersViews /\ view'.shown = view.shown /\ view'.of = view.of
        /\ view'.csv = view.csv /\ view'.readers = view.readers
    BY <1>1, <2>1 DEF BrokersViews
  <2> QED
    BY <2>1, <2>2, <2>3, BrokersAsked
<1> QED
  BY <1>3, <1>4, <1>6, <1>7, <1>8, <1>9, <1>10, <1>11

\* The dialog for files, and their readers.
LEMMA BrokersReads ==
  ASSUME BrokersInv,
         \/ Brokers!OpenCsv \/ Brokers!CloseCsv
         \/ \E file \in Brokers!Files : Brokers!CsvFileChange(file) \/ Brokers!ReaderLoads(file)
  PROVE  BrokersInv'
<1>1. view \in BrokersViews /\ past \in BrokersPasts /\ BrokersNamed(view, past)
      /\ view.csv \in Csvs /\ view.readers \in SUBSET Brokers!Files
  BY DEF BrokersInv, BrokersViews
<1>2. {} \in Brokers!Files
  BY FS_EmptySet DEF Brokers!Files, Brokers!IsFiniteSet, IsFiniteSet
<1>3. ASSUME NEW csv \in Csvs, csv.rows = {}, view' = [view EXCEPT !.csv = csv],
             past' = [past EXCEPT !.mixed = FALSE], UNCHANGED <<server, flight>>
      PROVE  BrokersInv'
  <2>1. view' \in BrokersViews /\ view'.shown = view.shown /\ view'.of = view.of /\ view'.csv = csv
    BY <1>1, <1>3 DEF BrokersViews
  <2>2. past' \in BrokersPasts /\ past'.stale = past.stale
    BY <1>1, <1>3 DEF BrokersPasts
  <2> QED
    BY <1>3, <2>1, <2>2, BrokersShown DEF BrokersNamed
<1>4. CASE Brokers!OpenCsv
  <2> DEFINE csv == [Brokers!NoCsv EXCEPT !.open = TRUE]
  <2>1. /\ view' = [view EXCEPT !.csv = csv] /\ past' = [past EXCEPT !.mixed = FALSE]
        /\ UNCHANGED <<server, flight>>
    BY <1>4 DEF Brokers!OpenCsv
  <2>2. csv \in Csvs /\ csv.rows = {}
    BY <1>2 DEF Brokers!NoCsv, Csvs
  <2> HIDE DEF csv
  <2> QED
    BY <1>3, <2>1, <2>2
<1>5. CASE Brokers!CloseCsv
  <2> DEFINE csv == Brokers!NoCsv
  <2>1. /\ view' = [view EXCEPT !.csv = csv] /\ past' = [past EXCEPT !.mixed = FALSE]
        /\ UNCHANGED <<server, flight>>
    BY <1>5 DEF Brokers!CloseCsv, Brokers!ResetCsv
  <2>2. csv \in Csvs /\ csv.rows = {}
    BY <1>2 DEF Brokers!NoCsv, Csvs
  <2> HIDE DEF csv
  <2> QED
    BY <1>3, <2>1, <2>2
<1>6. ASSUME NEW file \in Brokers!Files, Brokers!CsvFileChange(file)
      PROVE  BrokersInv'
  <2> DEFINE csv == [view.csv EXCEPT !.file = file, !.results = FALSE]
             readers == view.readers \cup {file}
  <2>1. /\ view' = [view EXCEPT !.csv = csv, !.readers = readers]
        /\ past' = [past EXCEPT !.steps = past.steps + 1] /\ UNCHANGED <<server, flight>>
    BY <1>1, <1>6 DEF Brokers!CsvFileChange, Brokers!Acted, BrokersViews, Csvs
  <2>2. csv \in Csvs
    BY <1>1 DEF Csvs
  <2>3. readers \in SUBSET Brokers!Files /\ readers # {}
    BY <1>1
  <2> HIDE DEF csv, readers
  <2>4. view' \in BrokersViews /\ view'.shown = view.shown /\ view'.of = view.of
        /\ view'.readers = readers
    BY <1>1, <2>1, <2>2, <2>3 DEF BrokersViews
  <2>5. past' \in BrokersPasts /\ past'.stale = past.stale
    BY <1>1, <2>1 DEF BrokersPasts
  <2> QED
    BY <2>1, <2>3, <2>4, <2>5, BrokersShown DEF BrokersNamed
<1>7. ASSUME NEW file \in Brokers!Files, Brokers!ReaderLoads(file)
      PROVE  BrokersInv'
  <2> DEFINE csv == Brokers!Parsed(view.csv, file)
             readers == view.readers \ {file}
             mixed == file = {} \/ file # view.csv.file
  <2>1. /\ view' = [view EXCEPT !.csv = csv, !.readers = readers]
        /\ past' = [past EXCEPT !.mixed = mixed] /\ UNCHANGED <<server, flight>>
    BY <1>7 DEF Brokers!ReaderLoads
  <2>2. csv \in Csvs /\ (~mixed => csv.rows = csv.file)
    BY <1>1 DEF Csvs, Brokers!Parsed
  <2>3. readers \in SUBSET Brokers!Files /\ mixed \in BOOLEAN
    BY <1>1
  <2> HIDE DEF csv, readers, mixed
  <2>4. view' \in BrokersViews /\ view'.shown = view.shown /\ view'.of = view.of
        /\ view'.csv = csv
    BY <1>1, <2>1, <2>2, <2>3 DEF BrokersViews
  <2>5. past' \in BrokersPasts /\ past'.stale = past.stale /\ past'.mixed = mixed
    BY <1>1, <2>1, <2>3 DEF BrokersPasts
  <2> QED
    BY <2>1, <2>2, <2>4, <2>5, BrokersShown DEF BrokersNamed
<1> QED
  BY <1>4, <1>5, <1>6, <1>7

\* What serving a request may do to the brokers, and the answer that it may get.
BrokersAfter(r, outcome, data, after) ==
  /\ BrokersServer(after) /\ server.next <= after.next
  /\ outcome \in {"ok", "refused", "throws"} /\ data \in BrokersData /\ Given(data, server.next)
  /\ r.op = "brokers" /\ outcome = "ok" => data = BrokersNow(server.brokers)[r.arg]
  /\ r.op \in BrokersChanges => outcome # "refused" \/ r.outcome = "none"
  /\ after.brokers = server.brokers

\* A request was served, or failed.
LEMMA BrokersAnswered ==
  ASSUME BrokersInv, NEW i \in DOMAIN flight, NEW outcome, NEW data,
         BrokersAfter(flight[i], outcome, data, server'),
         flight' = Brokers!Served(flight, i, outcome, data),
         UNCHANGED view, past' \in BrokersPasts, past'.stale = past.stale,
         past'.mixed = past.mixed
  PROVE  BrokersInv'
<1> DEFINE S == BrokersRequests(server'.next)
           r == flight[i]
<1>1. /\ flight' = F!Served(flight, i, outcome, data) /\ outcome \in F!Outcomes
      /\ data \in BrokersData /\ flight \in Seq(BrokersAll) /\ BrokersAsk(r, server.next)
  BY BrokersFetch, BrokersFacts DEF F!Outcomes, BrokersAfter
<1>2. server.next \in Nat /\ server'.next \in Nat /\ server.next <= server'.next
  BY DEF BrokersInv, BrokersServer, BrokersAfter
<1>3. \A rows : Given(rows, server.next) => Given(rows, server'.next)
  <2>1. 1..server.next - 1 \subseteq 1..server'.next - 1
    BY <1>2
  <2> QED
    BY <2>1 DEF Given
<1>4. flight' \in Seq(S)
  <2>1. flight \in Seq(S)
    <3>1. \A j \in DOMAIN flight : BrokersAsk(flight[j], server'.next)
      BY <1>3, BrokersFacts DEF BrokersAsk
    <3>2. \A j \in DOMAIN flight : flight[j] \in S
      BY <3>1, BrokersFacts DEF BrokersRequests
    <3> QED
      BY <1>1, <3>2, LegalStill
  <2>2. Given(data, server'.next)
    BY <1>3 DEF BrokersAfter
  <2>3. \A q \in Requests(BrokersOps, BrokersArgs, BrokersData) :
          q.op = r.op /\ q.arg = r.arg /\ q.outcome = outcome /\ q.data = data => q \in S
    BY <1>1, <2>2 DEF BrokersRequests, BrokersAsk, BrokersAll
  <2>4. Closed(S, BrokersOps, BrokersArgs, BrokersData)
    BY BrokersClosed
  <2> HIDE DEF S, r
  <2> QED
    BY <1>1, <2>1, <2>3, <2>4, ServedIn DEF r
<1>5. BrokersTracks(flight', server', view, past)
  <2>1. Tracks(flight, "brokers", BrokersChanges, BrokersNow(server.brokers), view.of, view.shown,
               past.stale)
    BY DEF BrokersInv, BrokersTracks
  <2>2. /\ "brokers" \notin BrokersChanges
        /\ r.op \in BrokersChanges => outcome \in {"ok", "throws"} \/ r.outcome = "none"
        /\ BrokersNow(server'.brokers) = BrokersNow(server.brokers)
    BY DEF BrokersChanges, BrokersAfter
  <2>3. r.op = "brokers" => outcome # "ok" \/ data = BrokersNow(server.brokers)[r.arg]
    BY DEF BrokersAfter
  <2> HIDE DEF r
  <2> QED
    BY <1>1, <2>1, <2>2, <2>3, ServedTracks DEF BrokersTracks, BrokersAll, r
<1>6. Given(view.shown, server'.next) /\ BrokersNamed(view, past')
  BY <1>3 DEF BrokersInv, BrokersNamed
<1> QED
  BY <1>4, <1>5, <1>6 DEF BrokersInv, BrokersTracks, BrokersAfter

\* New rows get new ids.
LEMMA BrokersInserted ==
  ASSUME BrokersServer(server), NEW names \in Brokers!Files
  PROVE  /\ Brokers!Cardinality(names) \in Nat
         /\ [ids |-> {}, brokers |-> Brokers!NewRows(names)]
              \in BrokersOpen(server.next + Brokers!Cardinality(names))
<1> DEFINE n == Brokers!Cardinality(names)
           row == CHOOSE f \in Brokers!Bijection(1..n, names) : TRUE
           new == {[id |-> server.next + k - 1, name |-> row[k]] : k \in 1..n}
<1>1. server.next \in Nat /\ 0 < server.next
  BY DEF BrokersServer
<1>2. names \subseteq Names /\ IsFiniteSet(names) /\ n = Cardinality(names)
  BY DEF Brokers!Files, Brokers!IsFiniteSet, IsFiniteSet, Brokers!Cardinality, Cardinality
<1>3. n \in Nat /\ Brokers!Bijection(1..n, names) # {}
  <2>1. Cardinality(names) \in Nat /\ ExistsBijection(1..Cardinality(names), names)
    BY <1>2, FS_CardinalityType
  <2>2. PICK f \in Bijection(1..n, names) : TRUE
    BY <1>2, <2>1 DEF ExistsBijection
  <2>3. /\ f \in [1..n -> names] /\ \A a, b \in 1..n : f[a] = f[b] => a = b
        /\ \A t \in names : \E s \in 1..n : f[s] = t
    BY <2>2 DEF Bijection, Injection, Surjection, IsInjective
  <2>4. f \in Brokers!Bijection(1..n, names)
    BY <2>3 DEF Brokers!Bijection, Brokers!Injection, Brokers!Surjection, Brokers!IsInjective
  <2> QED
    BY <1>2, <2>1, <2>4
<1>4. row \in [1..n -> names]
  <2>1. row \in Brokers!Bijection(1..n, names)
    BY <1>3
  <2> HIDE DEF row, n
  <2> QED
    BY <2>1 DEF Brokers!Bijection, Brokers!Injection
<1>5. Brokers!NewRows(names) = new
  BY DEF Brokers!NewRows
<1>6. \A b \in new : \E k \in 1..n : b = [id |-> server.next + k - 1, name |-> row[k]]
  OBVIOUS
<1> HIDE DEF n, row, new
<1>7. ASSUME NEW b \in new
      PROVE  b \in Rows /\ b.id \in 1..(server.next + n) - 1
  <2>1. PICK k \in 1..n : b = [id |-> server.next + k - 1, name |-> row[k]]
    BY <1>6
  <2>2. server.next + k - 1 \in 1..(server.next + n) - 1
    BY <1>1, <1>3
  <2>3. row[k] \in Names
    BY <1>2, <1>4
  <2> QED
    BY <2>1, <2>2, <2>3 DEF Rows
<1>8. new \in SUBSET Rows /\ Given(new, server.next + n)
  BY <1>7 DEF Given
<1> QED
  BY <1>3, <1>5, <1>8 DEF BrokersOpen, n

LEMMA BrokersServes ==
  ASSUME BrokersInv, NEW i \in DOMAIN flight,
         \/ Brokers!ServeList(i) \/ Brokers!ServePost(i) \/ Brokers!ServePut(i)
         \/ Brokers!ServeDelete(i) \/ Brokers!ServeCsv(i) \/ Brokers!Fail(i)
  PROVE  BrokersInv'
<1> DEFINE r == flight[i]
           n == server.next
<1>1. /\ BrokersServer(server) /\ past \in BrokersPasts /\ BrokersAsk(r, n)
      /\ {} \in BrokersData /\ Given({}, n) /\ n <= n
      /\ server.brokers \in SUBSET Rows /\ n \in Nat /\ 0 < n
      /\ server.open \in SUBSET BrokersOpen(n) /\ Given(server.brokers, n)
  BY BrokersFacts, BrokersClosed DEF BrokersInv, BrokersServer, Given
<1>2. CASE Brokers!ServeList(i)
  <2> DEFINE data == Brokers!Found(r.arg)
  <2>1. /\ r.op = "brokers" /\ flight' = Brokers!Served(flight, i, "ok", data)
        /\ UNCHANGED <<server, view, past>>
    BY <1>2 DEF Brokers!ServeList, Brokers!Waiting
  <2>2. r.arg \in Searches
    BY <1>1, <2>1 DEF BrokersAsk
  <2>3. /\ data \in BrokersData /\ Given(data, n)
        /\ data = BrokersNow(server.brokers)[r.arg]
    BY <1>1, <2>2 DEF BrokersData, Brokers!Found, BrokersNow, Given
  <2> HIDE DEF data
  <2>4. BrokersAfter(r, "ok", data, server')
    BY <1>1, <2>1, <2>3 DEF BrokersAfter, BrokersChanges
  <2> QED
    BY <1>1, <2>1, <2>4, BrokersAnswered
\* A handler of a change: it may leave an open one, and give out ids.
<1>3. ASSUME NEW outcome \in {"ok", "refused", "throws"}, NEW next \in Nat, n <= next,
             NEW changes \in SUBSET BrokersOpen(next),
             r.op \in BrokersChanges, r.outcome = "none", UNCHANGED <<view, past>>,
             flight' = Brokers!Served(flight, i, outcome, {}),
             server' = [brokers |-> server.brokers, open |-> server.open \cup changes, next |-> next]
      PROVE  BrokersInv'
  <2> DEFINE open == server.open \cup changes
  <2>1. \A rows : Given(rows, n) => Given(rows, next)
    <3>1. 1..n - 1 \subseteq 1..next - 1
      BY <1>1, <1>3
    <3> QED
      BY <3>1 DEF Given
  <2>2. open \in SUBSET BrokersOpen(next)
    BY <1>1, <2>1 DEF BrokersOpen
  <2> HIDE DEF open
  <2>3. server' = [brokers |-> server.brokers, open |-> open, next |-> next]
    BY <1>3 DEF open
  <2>4. BrokersServer(server') /\ server.next <= server'.next /\ server'.brokers = server.brokers
    BY <1>1, <1>3, <2>1, <2>2, <2>3 DEF BrokersServer
  <2>5. BrokersAfter(r, outcome, {}, server')
    BY <1>1, <1>3, <2>4 DEF BrokersAfter, BrokersChanges
  <2> QED
    BY <1>1, <1>3, <2>5, BrokersAnswered
<1>4. ASSUME NEW outcome \in {"ok", "refused", "throws"}, NEW changes \in SUBSET BrokersOpen(n),
             r.op \in BrokersChanges, r.outcome = "none", Brokers!Answer(i, outcome, changes)
      PROVE  BrokersInv'
  <2> DEFINE open == server.open \cup changes
  <2>1. /\ UNCHANGED <<view, past>> /\ flight' = Brokers!Served(flight, i, outcome, {})
        /\ server' = [server EXCEPT !.open = open]
    BY <1>4 DEF Brokers!Answer
  <2> HIDE DEF open
  <2>2. server' = [brokers |-> server.brokers, open |-> open, next |-> n]
    BY <1>1, <2>1 DEF BrokersServer
  <2> HIDE DEF r, n
  <2> QED
    BY <1>1, <1>3, <1>4, <2>1, <2>2 DEF open
<1>5. ASSUME NEW names \in Brokers!Files, r.op \in BrokersChanges, r.outcome = "none",
             Brokers!Inserting(i, names)
      PROVE  BrokersInv'
  <2> DEFINE m == Brokers!Cardinality(names)
             change == [ids |-> {}, brokers |-> Brokers!NewRows(names)]
             open == server.open \cup {change}
  <2>1. /\ UNCHANGED <<view, past>> /\ flight' = Brokers!Served(flight, i, "ok", {})
        /\ server' = [server EXCEPT !.open = open, !.next = n + m]
    BY <1>5 DEF Brokers!Inserting, Brokers!Change
  <2>2. m \in Nat /\ {change} \in SUBSET BrokersOpen(n + m)
    BY <1>1, BrokersInserted
  <2> HIDE DEF m, change, open
  <2>3. n + m \in Nat /\ n <= n + m
    BY <1>1, <2>2
  <2>4. server' = [brokers |-> server.brokers, open |-> open, next |-> n + m]
    BY <1>1, <2>1 DEF BrokersServer
  <2> HIDE DEF r, n
  <2> QED
    BY <1>3, <1>5, <2>1, <2>2, <2>3, <2>4 DEF open
<1>6. CASE Brokers!ServePost(i)
  <2> DEFINE names == {r.arg.about.name}
  <2>1. /\ r.op = "post" /\ r.outcome = "none" /\ r.op \in BrokersChanges
        /\ Brokers!Answer(i, "refused", {}) \/ Brokers!Inserting(i, names)
    BY <1>6 DEF Brokers!ServePost, Brokers!Waiting, BrokersChanges
  <2>2. r.arg.about.name \in Names
    BY <1>1, <2>1 DEF BrokersAsk, Rows
  <2>3. names \in Brokers!Files
    BY <2>2, FS_Singleton DEF Brokers!Files, Brokers!IsFiniteSet, IsFiniteSet
  <2> HIDE DEF names
  <2> QED
    BY <1>4, <1>5, <2>1, <2>3
<1>7. CASE Brokers!ServePut(i)
  <2> DEFINE b == r.arg.about
             change == [ids |-> {b.id}, brokers |-> {b}]
  <2>1. /\ r.op = "put" /\ r.outcome = "none" /\ r.op \in BrokersChanges
        /\ \/ \E outcome \in {"ok", "refused", "throws"} : Brokers!Answer(i, outcome, {})
           \/ Brokers!WithId(b.id) # {} /\ Brokers!Answer(i, "ok", {change})
    BY <1>7 DEF Brokers!ServePut, Brokers!Waiting, Brokers!Change, BrokersChanges
  <2>2. b \in Rows
    BY <1>1, <2>1 DEF BrokersAsk
  <2>3. Brokers!WithId(b.id) # {} => Given({b}, n)
    BY <1>1 DEF Brokers!WithId, Given
  <2>4. Brokers!WithId(b.id) # {} => {change} \in SUBSET BrokersOpen(n)
    BY <2>2, <2>3 DEF BrokersOpen, Rows
  <2> HIDE DEF b, change
  <2> QED
    BY <1>4, <2>1, <2>4
<1>8. CASE Brokers!ServeDelete(i)
  <2> DEFINE id == r.arg.about.id
             change == [ids |-> {id}, brokers |-> {}]
  <2>1. /\ r.op = "delete" /\ r.outcome = "none" /\ r.op \in BrokersChanges
        /\ Brokers!Answer(i, "refused", {}) \/ Brokers!Answer(i, "throws", {change})
    BY <1>8 DEF Brokers!ServeDelete, Brokers!Waiting, Brokers!Change, BrokersChanges
  <2>2. id \in Nat
    BY <1>1, <2>1 DEF BrokersAsk, Rows
  <2>3. {change} \in SUBSET BrokersOpen(n)
    BY <1>1, <2>2 DEF BrokersOpen
  <2> HIDE DEF id, change
  <2> QED
    BY <1>4, <2>1, <2>3
<1>9. CASE Brokers!ServeCsv(i)
  <2> DEFINE names == {name \in r.arg.about : ~Brokers!Taken(name)}
  <2>1. /\ r.op = "csv" /\ r.outcome = "none" /\ r.op \in BrokersChanges
        /\ Brokers!Answer(i, "ok", {}) \/ Brokers!Inserting(i, names)
    BY <1>9 DEF Brokers!ServeCsv, Brokers!Waiting, BrokersChanges
  <2>2. r.arg.about \in Brokers!Files
    BY <1>1, <2>1 DEF BrokersAsk
  <2>3. names \in Brokers!Files
    <3>1. names \subseteq r.arg.about
      OBVIOUS
    <3>2. r.arg.about \subseteq Names /\ IsFiniteSet(r.arg.about)
      BY <2>2 DEF Brokers!Files, Brokers!IsFiniteSet, IsFiniteSet
    <3> HIDE DEF names
    <3>3. IsFiniteSet(names)
      BY ONLY <3>1, <3>2, FS_Subset
    <3> QED
      BY <3>1, <3>2, <3>3 DEF Brokers!Files, Brokers!IsFiniteSet, IsFiniteSet
  <2> HIDE DEF names
  <2> QED
    BY <1>4, <1>5, <2>1, <2>3
<1>10. CASE Brokers!Fail(i)
  <2>1. /\ flight' = Brokers!Served(flight, i, "throws", {}) /\ UNCHANGED <<server, view>>
        /\ past' = [past EXCEPT !.faults = past.faults + 1]
    BY <1>10 DEF Brokers!Fail
  <2>2. past' \in BrokersPasts /\ past'.stale = past.stale /\ past'.mixed = past.mixed
    BY <1>1, <2>1 DEF BrokersPasts
  <2>3. BrokersAfter(r, "throws", {}, server')
    BY <1>1, <2>1 DEF BrokersAfter
  <2> QED
    BY <1>1, <2>1, <2>2, <2>3, BrokersAnswered
<1> QED
  BY <1>2, <1>6, <1>7, <1>8, <1>9, <1>10

\* A change was committed: what was loaded before is late, and nobody may load again.
LEMMA BrokersCommits ==
  ASSUME BrokersInv, NEW change \in server.open, Brokers!Commit(change)
  PROVE  BrokersInv'
<1> DEFINE S == BrokersRequests(server.next)
           n == server.next
           brokers == {b \in server.brokers : b.id \notin change.ids} \cup change.brokers
           open == server.open \ {change}
           stale == F!StaleAfterCommit(past.stale, flight, BrokersChanges, {"brokers"})
<1>1. /\ BrokersServer(server) /\ past \in BrokersPasts /\ flight \in Seq(S)
      /\ BrokersTracks(flight, server, view, past)
  BY DEF BrokersInv
<1>2. /\ server' = [server EXCEPT !.open = open, !.brokers = brokers] /\ UNCHANGED view
      /\ flight' = F!Overtaken(flight, {"brokers"})
      /\ past' = [past EXCEPT !.stale = stale]
  BY BrokersFetch DEF Brokers!Commit, Brokers!Changes, BrokersChanges
<1>3. brokers \in SUBSET Rows /\ Given(brokers, n) /\ open \in SUBSET BrokersOpen(n)
  BY <1>1 DEF BrokersServer, BrokersOpen, Given
<1>4. stale \in SUBSET {"brokers"}
  BY <1>1 DEF F!StaleAfterCommit, BrokersPasts
<1>5. Closed(S, BrokersOps, BrokersArgs, BrokersData)
  BY BrokersClosed
<1> HIDE DEF brokers, open, S, n
<1>6. server' = [brokers |-> brokers, open |-> open, next |-> n]
  BY <1>1, <1>2 DEF BrokersServer, n
<1>7. BrokersServer(server') /\ server'.brokers = brokers /\ server'.next = server.next
  BY <1>1, <1>3, <1>6 DEF BrokersServer, n
<1>8. flight' \in Seq(S)
  BY <1>1, <1>2, <1>5, OvertakenIn
<1>9. past' \in BrokersPasts /\ past'.stale = stale /\ past'.mixed = past.mixed
  BY <1>1, <1>2, <1>4 DEF BrokersPasts
<1>10. BrokersTracks(flight', server', view, past')
  <2>1. flight \in Seq(BrokersAll) /\ "brokers" \in {"brokers"}
    BY BrokersFacts
  <2>2. Tracks(flight', "brokers", BrokersChanges, BrokersNow(brokers), view.of, view.shown, stale)
    BY <1>1, <1>2, <2>1, OvertakenTracks DEF BrokersTracks, BrokersAll
  <2> QED
    BY <1>7, <1>9, <2>2 DEF BrokersTracks
<1>11. Given(view.shown, server.next) /\ BrokersNamed(view, past')
  BY <1>9 DEF BrokersInv, BrokersNamed
<1> QED
  BY <1>1, <1>2, <1>7, <1>8, <1>9, <1>10, <1>11 DEF BrokersInv, S

\* The list was loaded.
LEMMA BrokersLoaded ==
  ASSUME BrokersInv, NEW i \in DOMAIN flight, Brokers!HandleList(i)
  PROVE  BrokersInv'
<1> DEFINE r == flight[i]
           S == BrokersRequests(server.next)
           stale == Brokers!StaleAfterLoad(past.stale, r)
<1>1. /\ view \in BrokersViews /\ past \in BrokersPasts /\ BrokersAsk(r, server.next)
      /\ flight \in Seq(S) /\ flight \in Seq(BrokersAll)
      /\ BrokersTracks(flight, server, view, past)
      /\ r.data \in SUBSET Rows
  BY BrokersFacts DEF BrokersInv
<1>2. /\ r.op = "brokers" /\ flight' = F!Handled(flight, i) /\ UNCHANGED server
      /\ view' = IF r.outcome = "ok" THEN [view EXCEPT !.shown = r.data, !.of = r.arg] ELSE view
      /\ past' = [past EXCEPT !.stale = stale]
  BY BrokersFetch DEF Brokers!HandleList, Brokers!Answers
<1>3. /\ stale \in SUBSET {"brokers"}
      /\ "brokers" \in stale \/ (r.outcome = "ok" /\ ~r.late)
  BY <1>1, <1>2 DEF BrokersPasts, Brokers!StaleAfterLoad
<1>4. r.arg \in Searches /\ Given(r.data, server.next)
  BY <1>1, <1>2 DEF BrokersAsk
<1>5. Closed(S, BrokersOps, BrokersArgs, BrokersData)
  BY BrokersClosed
<1> HIDE DEF stale, S
<1>6. flight' \in Seq(S)
  BY <1>1, <1>2, <1>5, HandledIn
<1>7. past' \in BrokersPasts /\ past'.stale = stale /\ past'.mixed = past.mixed
  BY <1>1, <1>2, <1>3 DEF BrokersPasts
<1> HIDE DEF r
<1>8. /\ view' \in BrokersViews
      /\ view'.csv = view.csv /\ view'.readers = view.readers
      /\ r.outcome = "ok" => view'.shown = r.data /\ view'.of = r.arg
      /\ view'.shown \in {r.data, view.shown}
  BY <1>1, <1>2, <1>4 DEF BrokersViews
<1>9. BrokersTracks(flight', server, view', past')
  <2>1. /\ r.op = "brokers" /\ "brokers" \notin BrokersChanges /\ r.op \notin BrokersChanges
        /\ "brokers" \in stale
           \/ (r.outcome = "ok" /\ ~r.late /\ view'.of = r.arg /\ view'.shown = r.data)
    BY <1>2, <1>3, <1>8 DEF BrokersChanges
  <2> QED
    BY <1>1, <1>2, <1>7, <2>1, HandledTracks DEF BrokersTracks, BrokersAll, r
<1>10. Given(view'.shown, server.next) /\ BrokersNamed(view', past')
  BY <1>4, <1>7, <1>8 DEF BrokersInv, BrokersNamed
<1> QED
  BY <1>2, <1>6, <1>7, <1>8, <1>9, <1>10 DEF BrokersInv, S

\* A change was answered: the list is loaded again if the answer was good.
LEMMA BrokersContinues ==
  ASSUME BrokersInv, NEW i \in DOMAIN flight, NEW v, Brokers!Continued(i, v),
         flight[i].op \in BrokersChanges, flight[i].outcome # "none",
         v \in BrokersViews, v.shown = view.shown, v.of = view.of,
         v.csv.rows = view.csv.rows, v.csv.file = view.csv.file, v.readers = view.readers
  PROVE  BrokersInv'
<1> DEFINE r == flight[i]
           S == BrokersRequests(server.next)
           rest == F!Handled(flight, i)
<1>1. /\ view \in BrokersViews /\ past \in BrokersPasts /\ BrokersAsk(r, server.next)
      /\ r.outcome \in F!Outcomes /\ flight \in Seq(S) /\ flight \in Seq(BrokersAll)
      /\ BrokersTracks(flight, server, view, past)
  BY BrokersFacts DEF BrokersInv
<1>2. /\ view' = (IF r.outcome = "throws" THEN view ELSE v) /\ UNCHANGED server
      /\ r.outcome = "ok" => flight' = Append(rest, F!Request("brokers", r.arg.query))
      /\ r.outcome = "throws" => flight' = F!Outdated(rest, {"brokers"})
      /\ r.outcome = "refused" => flight' = rest
      /\ past' = [past EXCEPT !.stale = IF r.outcome = "throws" THEN past.stale \cup {"brokers"}
                                        ELSE past.stale]
  BY BrokersFetch DEF Brokers!Continued, Brokers!Reloaded, Brokers!LoadBrokers
<1>3. /\ view' \in BrokersViews /\ view'.shown = view.shown /\ view'.of = view.of
      /\ view'.csv.rows = view.csv.rows /\ view'.csv.file = view.csv.file
      /\ view'.readers = view.readers
  BY <1>1, <1>2
<1>4. /\ r.arg.query \in Searches /\ r.arg.query \in BrokersArgs /\ "brokers" \in BrokersOps
      /\ r.op # "brokers" /\ "brokers" \notin BrokersChanges
  BY <1>1 DEF BrokersAsk, BrokersAbouts, BrokersChanges, BrokersArgs, BrokersOps
<1>5. Closed(S, BrokersOps, BrokersArgs, BrokersData) /\ {} \in BrokersData
  BY BrokersClosed
<1>6. rest \in Seq(S) /\ rest \in Seq(BrokersAll)
  <2>1. rest \in Seq(BrokersAll)
    BY <1>1, HandledFacts DEF BrokersAll
  <2> HIDE DEF S
  <2> QED
    BY <1>1, <1>5, <2>1, HandledIn
<1>7. ASSUME flight' \in Seq(S), past' \in BrokersPasts, past'.mixed = past.mixed,
             Tracks(flight', "brokers", BrokersChanges, BrokersNow(server.brokers), view.of,
                    view.shown, past'.stale)
      PROVE  BrokersInv'
  <2>1. Given(view'.shown, server.next) /\ BrokersNamed(view', past')
    BY <1>3, <1>7 DEF BrokersInv, BrokersNamed
  <2> QED
    BY <1>2, <1>3, <1>7, <2>1 DEF BrokersInv, BrokersTracks
<1>8. CASE r.outcome = "ok"
  <2>1. /\ flight' = Append(rest, F!Request("brokers", r.arg.query))
        /\ past' = [past EXCEPT !.stale = past.stale]
    BY <1>2, <1>8
  <2>2. past' = past
    BY <1>1, <2>1 DEF BrokersPasts
  <2>3. \A q \in Requests(BrokersOps, BrokersArgs, BrokersData) :
          q.op = "brokers" /\ q.arg = r.arg.query /\ q.outcome = "none" /\ q.data = {} => q \in S
    BY <1>4 DEF BrokersRequests, BrokersAll, BrokersAsk, Given
  <2> HIDE DEF rest, r, S
  <2>4. flight' \in Seq(S)
    <3>1. Append(rest, F!Request("brokers", r.arg.query)) \in Seq(S)
      BY <1>4, <1>5, <1>6, <2>3, SentIn
    <3> QED
      BY <2>1, <3>1
  <2>5. Tracks(flight', "brokers", BrokersChanges, BrokersNow(server.brokers), view.of, view.shown,
               past.stale)
    BY <1>4, <1>5, <1>6, <2>1, SentTracks DEF BrokersAll
  <2> QED
    BY <1>1, <1>7, <2>2, <2>4, <2>5
<1>9. CASE r.outcome = "throws"
  <2> DEFINE stale == past.stale \cup {"brokers"}
  <2>1. flight' = F!Outdated(rest, {"brokers"}) /\ past' = [past EXCEPT !.stale = stale]
    BY <1>2, <1>9
  <2>2. stale \in SUBSET {"brokers"} /\ "brokers" \in stale
    BY <1>1 DEF BrokersPasts
  <2> HIDE DEF stale, rest, S
  <2>3. past' \in BrokersPasts /\ past'.stale = stale /\ past'.mixed = past.mixed
    BY <1>1, <2>1, <2>2 DEF BrokersPasts
  <2>4. flight' \in Seq(S)
    BY <1>5, <1>6, <2>1, OutdatedIn
  <2>5. IF "brokers" \in {"brokers"} THEN "brokers" \in stale ELSE FALSE
    BY <2>2
  <2>6. Tracks(flight', "brokers", BrokersChanges, BrokersNow(server.brokers), view.of, view.shown,
               stale)
    BY <1>6, <2>1, <2>5, OutdatedTracks DEF BrokersAll
  <2> QED
    BY <1>7, <2>3, <2>4, <2>6
<1>10. CASE r.outcome = "refused"
  <2>1. flight' = rest /\ past' = [past EXCEPT !.stale = past.stale]
    BY <1>2, <1>10
  <2>2. past' = past
    BY <1>1, <2>1 DEF BrokersPasts
  <2>3. Tracks(rest, "brokers", BrokersChanges, BrokersNow(server.brokers), view.of, view.shown,
               past.stale)
    BY <1>1, <1>4, <1>10, HandledTracks DEF BrokersTracks, BrokersAll
  <2> HIDE DEF rest, S
  <2> QED
    BY <1>1, <1>6, <1>7, <2>1, <2>2, <2>3
<1> QED
  BY <1>1, <1>8, <1>9, <1>10 DEF F!Outcomes

LEMMA BrokersHandles ==
  ASSUME BrokersInv, NEW i \in DOMAIN flight,
         \/ Brokers!HandleSaveBroker(i) \/ Brokers!HandleDeleteBroker(i)
         \/ Brokers!HandleCsvImport(i)
  PROVE  BrokersInv'
<1> DEFINE r == flight[i]
<1>1. view \in BrokersViews /\ view.csv \in Csvs
  BY DEF BrokersInv, BrokersViews
<1>2. CASE Brokers!HandleSaveBroker(i)
  <2> DEFINE dialog == IF r.outcome = "ok" THEN None ELSE view.dialog
             v == [view EXCEPT !.saving = FALSE, !.dialog = dialog]
  <2>1. Brokers!Continued(i, v) /\ r.op \in BrokersChanges /\ r.outcome # "none"
    BY <1>2 DEF Brokers!HandleSaveBroker, BrokersChanges, Brokers!Answers
  <2>2. dialog \in {None} \cup [id : Nat]
    BY <1>1 DEF BrokersViews
  <2> HIDE DEF dialog
  <2>3. /\ v \in BrokersViews /\ v.shown = view.shown /\ v.of = view.of
        /\ v.csv = view.csv /\ v.readers = view.readers
    BY <1>1, <2>2 DEF BrokersViews
  <2> HIDE DEF v
  <2> QED
    BY <2>1, <2>3, BrokersContinues
<1>3. CASE Brokers!HandleDeleteBroker(i)
  <2>1. Brokers!Continued(i, view) /\ r.op \in BrokersChanges /\ r.outcome # "none"
    BY <1>3 DEF Brokers!HandleDeleteBroker, BrokersChanges, Brokers!Answers
  <2> QED
    BY <1>1, <2>1, BrokersContinues
<1>4. CASE Brokers!HandleCsvImport(i)
  <2> DEFINE results == view.csv.results \/ r.outcome = "ok"
             csv == [view.csv EXCEPT !.results = results]
             v == [view EXCEPT !.importing = FALSE, !.csv = csv]
  <2>1. r.op \in BrokersChanges /\ r.outcome # "none"
    BY <1>4 DEF Brokers!HandleCsvImport, BrokersChanges, Brokers!Answers
  <2>2. Brokers!Continued(i, v)
    BY <1>1, <1>4 DEF Brokers!HandleCsvImport, BrokersViews, Csvs
  <2>3. results \in BOOLEAN
    OBVIOUS
  <2> HIDE DEF results
  <2>4. csv \in Csvs /\ csv.rows = view.csv.rows /\ csv.file = view.csv.file
    BY <1>1, <2>3 DEF Csvs
  <2> HIDE DEF csv
  <2>5. /\ v \in BrokersViews /\ v.shown = view.shown /\ v.of = view.of
        /\ v.csv = csv /\ v.readers = view.readers
    BY <1>1, <2>4 DEF BrokersViews
  <2> HIDE DEF v
  <2> QED
    BY <2>1, <2>2, <2>4, <2>5, BrokersContinues
<1> QED
  BY <1>2, <1>3, <1>4

LEMMA BrokersInit == ASSUME Brokers!Init PROVE BrokersInv
<1>1. PICK name \in Names :
        server = [brokers |-> {[id |-> 1, name |-> name]}, open |-> {}, next |-> 2]
  BY DEF Brokers!Init
<1>2. BrokersServer(server) /\ server.next = 2
  BY <1>1 DEF BrokersServer, Rows, Given
<1> DEFINE S == BrokersRequests(server.next)
<1>3. {} \in Brokers!Files
  BY FS_EmptySet DEF Brokers!Files, Brokers!IsFiniteSet, IsFiniteSet
<1>4. /\ view = [shown |-> {}, of |-> None, search |-> None, dialog |-> None, saving |-> FALSE,
                 csv |-> Brokers!NoCsv, readers |-> {}, importing |-> FALSE]
      /\ past = [stale |-> {}, mixed |-> FALSE, steps |-> 0, faults |-> 0]
      /\ flight = Append(<<>>, F!Request("brokers", None))
  BY BrokersFetch DEF Brokers!Init, Brokers!LoadBrokers
<1>5. Brokers!NoCsv \in Csvs /\ Brokers!NoCsv.rows = {}
  BY <1>3 DEF Csvs, Brokers!NoCsv
<1>6. /\ view \in BrokersViews /\ past \in BrokersPasts /\ BrokersNamed(view, past)
      /\ Given(view.shown, server.next)
  BY <1>4, <1>5 DEF BrokersViews, BrokersPasts, Searches, BrokersNamed, Given
<1>7. /\ \A q \in Requests(BrokersOps, BrokersArgs, BrokersData) :
           q.op = "brokers" /\ q.arg = None /\ q.outcome = "none" /\ q.data = {} => q \in S
      /\ "brokers" \in BrokersOps /\ None \in BrokersArgs
      /\ <<>> \in Seq(S) /\ <<>> \in Seq(BrokersAll)
  BY DEF BrokersRequests, BrokersAll, BrokersAsk, Given, BrokersChanges, BrokersOps, BrokersArgs,
         Searches
<1>8. Closed(S, BrokersOps, BrokersArgs, BrokersData) /\ {} \in BrokersData
  BY BrokersClosed
<1> HIDE DEF S
<1>9. flight \in Seq(S)
  <2>1. Append(<<>>, F!Request("brokers", None)) \in Seq(S)
    BY <1>7, <1>8, SentIn
  <2> QED
    BY <1>4, <2>1
<1>10. BrokersTracks(flight, server, view, past)
  BY <1>4, <1>7, <1>8, SentTracks DEF BrokersTracks, BrokersAll
<1> QED
  BY <1>2, <1>6, <1>9, <1>10 DEF BrokersInv, S

LEMMA BrokersNext ==
  ASSUME BrokersInv, Brokers!Next
  PROVE  BrokersInv'
  BY BrokersPage, BrokersReads, BrokersServes, BrokersCommits, BrokersLoaded, BrokersHandles
  DEF Brokers!Next

\* The properties of the page.
LEMMA BrokersShows ==
  ASSUME BrokersInv
  PROVE  Brokers!TypeOK /\ Brokers!ViewConverges /\ Brokers!ImportIsOfNamedFile
<1>1. /\ BrokersServer(server) /\ view \in BrokersViews
      /\ BrokersTracks(flight, server, view, past)
      /\ Given(view.shown, server.next) /\ Given(server.brokers, server.next)
      /\ view.shown \in SUBSET Rows /\ server.brokers \in SUBSET Rows
  BY DEF BrokersInv, BrokersServer, BrokersViews
<1>2. Brokers!TypeOK
  <2>1. \A i \in DOMAIN flight :
          Brokers!IsRequest(flight[i], {"brokers", "post", "put", "delete", "csv"})
    BY BrokersFacts DEF Brokers!IsRequest, Brokers!Outcomes, F!Outcomes, BrokersOps
  <2>2. \A b \in UNION ({server.brokers, view.shown}
                       \cup {change.brokers : change \in server.open}) :
          b.id \in 1..server.next - 1 /\ b.name \in Names
    <3>1. \A change \in server.open : change.brokers \in SUBSET Rows /\ Given(change.brokers, server.next)
      BY <1>1 DEF BrokersServer, BrokersOpen
    <3> QED
      BY <1>1, <3>1 DEF Given, Rows
  <2>3. /\ view.csv.rows \in Brokers!Files /\ view.readers \subseteq Brokers!Files
        /\ view.saving \in BOOLEAN /\ view.importing \in BOOLEAN
    BY <1>1 DEF BrokersViews, Csvs
  <2> QED
    BY <1>1, <2>1, <2>2, <2>3 DEF Brokers!TypeOK, Brokers!Changes, BrokersServer
<1>3. Brokers!ViewConverges
  <2>1. ASSUME flight = <<>>, past.stale = {}
        PROVE  view.shown = Brokers!Found(view.of)
    <3>1. view.shown = BrokersNow(server.brokers)[view.of]
      BY <1>1, <2>1, TracksIdle DEF BrokersTracks
    <3>2. view.of \in Searches
      BY <1>1 DEF BrokersViews
    <3> QED
      BY <3>1, <3>2 DEF BrokersNow, Brokers!Found
  <2> QED
    BY <2>1 DEF Brokers!ViewConverges
<1>4. Brokers!ImportIsOfNamedFile
  BY DEF BrokersInv, BrokersNamed, Brokers!ImportIsOfNamedFile
<1> QED
  BY <1>2, <1>3, <1>4

-----------------------------------------------------------------------------
(* NodesPage: which addresses are on the blacklist. *)

NodesOps == Nodes!Lists \cup Nodes!Edits \cup {"search", "grant", "revoke", "task"}

Blacklists == {b \in SUBSET Nodes!Entries : IsFiniteSet(b)}

Snapshots == {{b} : b \in Blacklists}

NodesData == Blacklists \cup (SUBSET Names) \cup Nat \cup Snapshots

NodesArgs == {None} \cup Names \cup Nat

NodesRequests == Requests(NodesOps, NodesArgs, NodesData)

\* What a request is about and what its answer carries.
NodesAsk(op, arg, outcome, data, tasks) ==
  /\ op \in Nodes!Lists => arg = None
  /\ op \in {"add", "search", "grant", "revoke"} => arg \in Names
  /\ op \in Nodes!Edits /\ outcome = "none" => data = {} \/ data \in Snapshots
  /\ op = "blacklist" /\ outcome = "ok" => data \in Blacklists
  /\ op \in {"operators", "search"} /\ outcome = "ok" => data \in SUBSET Names
  /\ op = "tasks" /\ outcome = "ok" => data \in 0..tasks

NodesFlight(fs, tasks) ==
  /\ fs \in Seq(NodesRequests)
  /\ \A i \in DOMAIN fs : NodesAsk(fs[i].op, fs[i].arg, fs[i].outcome, fs[i].data, tasks)

NodesServer(s) ==
  s \in [blacklist : Blacklists, given : Nat, operators : SUBSET Names, tasks : Nat,
         open : SUBSET [name : Names, on : BOOLEAN], heartbeat : {None} \cup Snapshots]

NodesView(v, tasks) ==
  v \in [shown : [blacklist : Blacklists, operators : SUBSET Names, tasks : 0..tasks],
         dialog : {"none", "operator", "task"}, found : SUBSET Names,
         selected : Names \cup {None}, creating : BOOLEAN]

NodesPast(p) ==
  p \in [stale : SUBSET Nodes!Lists, added : SUBSET Nodes!Entries, asked : SUBSET Nat,
         overlap : BOOLEAN, steps : {p.steps}, faults : {p.faults}]

\* A thread of the director has read the store and will write it.
Works(r) == r.op \in Nodes!Edits /\ r.outcome = "none" /\ r.data # {}

\* At most one thread is at work, with the store as it is.
Alone(fs, s) ==
  /\ \A i \in DOMAIN fs : Works(fs[i]) => fs[i].data = {s.blacklist} /\ s.heartbeat = None
  /\ \A i, j \in DOMAIN fs : Works(fs[i]) /\ Works(fs[j]) => i = j
  /\ s.heartbeat # None => s.heartbeat = {s.blacklist}

\* What was added is on the list until somebody asks for the removal of its id.
StillListed(s, p) == {e \in p.added : e.id \notin p.asked} \subseteq s.blacklist

NodesCore(fs, s, p) ==
  /\ NodesFlight(fs, s.tasks)
  /\ \A i \in DOMAIN fs : fs[i].op = "remove" => fs[i].arg \in p.asked
  /\ ~p.overlap => Alone(fs, s) /\ StillListed(s, p)

Follow(fs, list, changes, now, shown, p) ==
  Tracks(fs, list, changes, Now(None, now), None, shown, p.stale)

NodesTracks(fs, s, v, p) ==
  /\ ~p.overlap =>
       Follow(fs, "blacklist", {"add", "remove"}, s.blacklist, v.shown.blacklist, p)
  /\ Follow(fs, "operators", {"grant", "revoke"}, s.operators, v.shown.operators, p)
  /\ Follow(fs, "tasks", {"task"}, s.tasks, v.shown.tasks, p)

NodesInv ==
  /\ NodesServer(server) /\ NodesView(view, server.tasks) /\ NodesPast(past)
  /\ NodesCore(flight, server, past)
  /\ NodesTracks(flight, server, view, past)

LEMMA NodesFetch ==
  /\ \A fs, i : Nodes!Handled(fs, i) = F!Handled(fs, i)
  /\ \A fs, i, o, d : Nodes!Served(fs, i, o, d) = F!Served(fs, i, o, d)
  /\ \A op, a : Nodes!Request(op, a) = F!Request(op, a)
  /\ \A fs, l : Nodes!Outdated(fs, l) = F!Outdated(fs, l)
  /\ \A fs, l : Nodes!Overtaken(fs, l) = F!Overtaken(fs, l)
  /\ \A stale, fs, c, l :
       Nodes!StaleAfterCommit(stale, fs, c, l) = F!StaleAfterCommit(stale, fs, c, l)
  BY DEF Nodes!Handled, F!Handled, Nodes!Served, F!Served,
         Nodes!Request, F!Request, Nodes!Outdated, F!Outdated,
         Nodes!Overtaken, F!Overtaken, Nodes!StaleAfterCommit, F!StaleAfterCommit,
         Nodes!Reacting, F!Reacting

\* Fewer requests, or the same ones: the core stays.
LEMMA NodesFewer ==
  ASSUME NEW fs, NEW s, NEW p, NodesCore(fs, s, p),
         NEW gs \in Seq(NodesRequests), NEW at,
         \A k \in DOMAIN gs : at[k] \in DOMAIN fs /\ Alike(gs[k], fs[at[k]]),
         \A k, l \in DOMAIN gs : at[k] = at[l] => k = l
  PROVE  NodesCore(gs, s, p)
<1>1. NodesFlight(gs, s.tasks)
  BY DEF NodesCore, NodesFlight, Alike
<1>2. \A k \in DOMAIN gs : Works(gs[k]) => Works(fs[at[k]])
  BY DEF Works, Alike
<1>3. ~p.overlap => Alone(gs, s)
  <2> SUFFICES ASSUME ~p.overlap
               PROVE  Alone(gs, s)
    OBVIOUS
  <2>1. Alone(fs, s)
    BY DEF NodesCore
  <2> QED
    BY <1>2, <2>1 DEF Alone, Alike
<1>4. \A k \in DOMAIN gs : gs[k].op = "remove" => gs[k].arg \in p.asked
  BY DEF NodesCore, Alike
<1>5. ~p.overlap => StillListed(s, p)
  BY DEF NodesCore
<1> QED
  BY <1>1, <1>3, <1>4, <1>5 DEF NodesCore

LEMMA NodesHandled ==
  ASSUME NEW fs, NEW s, NEW p, NodesCore(fs, s, p), NEW i \in DOMAIN fs
  PROVE  NodesCore(Nodes!Handled(fs, i), s, p)
<1> DEFINE h == F!Handled(fs, i)
           at == [k \in 1..(Len(fs) - 1) |-> Skip(i, k)]
<1>1. fs \in Seq(NodesRequests)
  BY DEF NodesCore, NodesFlight
<1>2. /\ h \in Seq(NodesRequests) /\ DOMAIN h = 1..(Len(fs) - 1)
      /\ \A k \in 1..(Len(fs) - 1) : Skip(i, k) \in DOMAIN fs \ {i} /\ Alike(h[k], fs[Skip(i, k)])
  BY <1>1, HandledFacts DEF NodesRequests
<1> HIDE DEF h
<1>3. \A k \in DOMAIN h : at[k] = Skip(i, k)
  BY <1>2
<1>4. \A k, l \in DOMAIN h : Skip(i, k) = Skip(i, l) => k = l
  BY <1>1, <1>2 DEF Skip
<1> HIDE DEF at
<1>5. NodesCore(h, s, p)
  BY SMTT(30), <1>2, <1>3, <1>4, NodesFewer
<1> QED
  BY <1>5, NodesFetch DEF h

LEMMA NodesOutdated ==
  ASSUME NEW fs, NEW s, NEW p, NodesCore(fs, s, p), NEW loads
  PROVE  NodesCore(Nodes!Outdated(fs, loads), s, p)
<1> DEFINE h == F!Outdated(fs, loads)
           at == [k \in DOMAIN fs |-> k]
<1>1. fs \in Seq(NodesRequests)
  BY DEF NodesCore, NodesFlight
<1>2. h \in Seq(NodesRequests) /\ DOMAIN h = DOMAIN fs /\ \A j \in DOMAIN fs : Alike(h[j], fs[j])
  BY <1>1, OutdatedFacts DEF NodesRequests
<1> HIDE DEF h
<1>3. \A k \in DOMAIN h : at[k] = k
  BY <1>2
<1> HIDE DEF at
<1>4. NodesCore(h, s, p)
  BY <1>2, <1>3, NodesFewer
<1> QED
  BY <1>4, NodesFetch DEF h

\* One request more.
LEMMA NodesSent ==
  ASSUME NEW fs, NEW s, NEW p, NodesCore(fs, s, p),
         NEW op \in NodesOps, NEW arg \in NodesArgs, NodesAsk(op, arg, "none", {}, s.tasks),
         op = "remove" => arg \in p.asked
  PROVE  NodesCore(Append(fs, Nodes!Request(op, arg)), s, p)
<1> DEFINE r == F!Request(op, arg)
           gs == Append(fs, r)
           n == Len(fs)
<1>1. fs \in Seq(NodesRequests)
  BY DEF NodesCore, NodesFlight
<1>2. n \in Nat /\ DOMAIN fs = 1..n
  BY <1>1
<1>3. {} \in NodesData
  BY FS_EmptySet DEF NodesData, Blacklists
<1>4. /\ gs \in Seq(NodesRequests) /\ DOMAIN gs = 1..(n + 1)
      /\ (\A j \in DOMAIN fs : gs[j] = fs[j]) /\ gs[n + 1] = r
  BY <1>1, <1>3, SentFacts DEF NodesRequests
<1>5. r.op = op /\ r.arg = arg /\ r.outcome = "none" /\ r.data = {}
  BY DEF F!Request
<1> HIDE DEF r, gs, n
<1>6. \A j \in DOMAIN gs : j \in DOMAIN fs \/ j = n + 1
  BY <1>2, <1>4
<1>7. NodesFlight(gs, s.tasks)
  BY <1>4, <1>5, <1>6 DEF NodesCore, NodesFlight
<1>8. ~Works(gs[n + 1]) /\ \A j \in DOMAIN fs : gs[j] = fs[j]
  BY <1>4, <1>5 DEF Works
<1>9. ~p.overlap => Alone(gs, s)
  BY <1>6, <1>8 DEF NodesCore, Alone
<1>10. \A k \in DOMAIN gs : gs[k].op = "remove" => gs[k].arg \in p.asked
  BY <1>4, <1>5, <1>6 DEF NodesCore
<1>11. NodesCore(gs, s, p)
  BY <1>7, <1>9, <1>10 DEF NodesCore, StillListed
<1> QED
  BY <1>11, NodesFetch DEF gs, r

\* An answer that leaves the blacklist alone.
LEMMA NodesServed ==
  ASSUME NEW fs, NEW s, NEW p, NodesCore(fs, s, p), NEW i \in DOMAIN fs,
         NEW outcome \in F!Outcomes \ {"none"}, NEW data \in NodesData,
         NodesAsk(fs[i].op, fs[i].arg, outcome, data, s.tasks)
  PROVE  NodesCore(Nodes!Served(fs, i, outcome, data), s, p)
<1> DEFINE gs == F!Served(fs, i, outcome, data)
<1>1. fs \in Seq(NodesRequests)
  BY DEF NodesCore, NodesFlight
<1>2. /\ gs \in Seq(NodesRequests) /\ DOMAIN gs = DOMAIN fs
      /\ \A j \in DOMAIN fs \ {i} : gs[j] = fs[j]
      /\ gs[i].op = fs[i].op /\ gs[i].arg = fs[i].arg
      /\ gs[i].outcome = outcome /\ gs[i].data = data
  BY <1>1, ServedFacts DEF NodesRequests
<1> HIDE DEF gs
<1>3. NodesFlight(gs, s.tasks)
  BY <1>2 DEF NodesCore, NodesFlight
<1>4. \A j \in DOMAIN gs : Works(gs[j]) => j \in DOMAIN fs \ {i}
  BY <1>2 DEF Works
<1>5. ~p.overlap => Alone(gs, s)
  BY <1>2, <1>4 DEF NodesCore, Alone
<1>6. \A k \in DOMAIN gs : gs[k].op = "remove" => gs[k].arg \in p.asked
  BY <1>2 DEF NodesCore
<1>7. NodesCore(gs, s, p)
  BY <1>3, <1>5, <1>6 DEF NodesCore
<1> QED
  BY <1>7, NodesFetch DEF gs

\* Other parts of the services and of the page's history change.
LEMMA NodesKept ==
  ASSUME NEW fs, NEW s, NEW p, NodesCore(fs, s, p), NEW t, NEW q,
         t.blacklist = s.blacklist, t.heartbeat = s.heartbeat,
         t.tasks = s.tasks \/ (s.tasks \in Nat /\ t.tasks = s.tasks + 1),
         q.added = p.added, p.asked \subseteq q.asked, p.overlap => q.overlap
  PROVE  NodesCore(fs, t, q)
<1>1. NodesFlight(fs, t.tasks)
  <2>1. NodesFlight(fs, s.tasks)
    BY DEF NodesCore
  <2>2. s.tasks \in Nat /\ t.tasks = s.tasks + 1 => 0..s.tasks \subseteq 0..t.tasks
    OBVIOUS
  <2> QED
    BY <2>1, <2>2 DEF NodesFlight, NodesAsk
<1>2. ~q.overlap => Alone(fs, t)
  BY DEF NodesCore, Alone
<1>3. ~q.overlap => StillListed(t, q)
  BY DEF NodesCore, StillListed
<1> QED
  BY <1>1, <1>2, <1>3 DEF NodesCore

\* The three lists.
LEMMA NodesSentTracks ==
  ASSUME NEW fs, NEW s, NEW v, NEW p, NodesFlight(fs, s.tasks), NodesTracks(fs, s, v, p),
         NEW op \in NodesOps, NEW arg \in NodesArgs
  PROVE  NodesTracks(Append(fs, Nodes!Request(op, arg)), s, v, p)
<1>1. fs \in Seq(NodesRequests) /\ {} \in NodesData
  BY FS_EmptySet DEF NodesFlight, NodesData, Blacklists
<1>2. \A list, changes, now, shown :
        Follow(fs, list, changes, now, shown, p) =>
          Follow(Append(fs, F!Request(op, arg)), list, changes, now, shown, p)
  BY <1>1, SentTracks DEF Follow, NodesRequests
<1> QED
  BY <1>2, NodesFetch DEF NodesTracks

LEMMA NodesServedTracks ==
  ASSUME NEW fs, NEW s, NEW v, NEW p, NodesFlight(fs, s.tasks), NodesTracks(fs, s, v, p),
         NEW i \in DOMAIN fs, NEW outcome \in {"ok", "throws"}, NEW data \in NodesData, NEW t,
         t.blacklist = s.blacklist \/ fs[i].op \in {"add", "remove"},
         t.operators = s.operators,
         t.tasks = s.tasks \/ fs[i].op = "task",
         fs[i].op = "blacklist" /\ outcome = "ok" => data = s.blacklist,
         fs[i].op = "operators" /\ outcome = "ok" => data = s.operators,
         fs[i].op = "tasks" /\ outcome = "ok" => data = s.tasks
  PROVE  NodesTracks(Nodes!Served(fs, i, outcome, data), t, v, p)
<1>1. fs \in Seq(NodesRequests) /\ outcome \in F!Outcomes
  BY DEF NodesFlight, F!Outcomes
<1>2. \A list \in Nodes!Lists : fs[i].op = list => fs[i].arg = None
  BY DEF NodesFlight, NodesAsk
<1>3. ASSUME NEW list \in Nodes!Lists, NEW changes, NEW now, NEW next, NEW shown,
             Follow(fs, list, changes, now, shown, p), list \notin changes,
             fs[i].op = list /\ outcome = "ok" => data = now,
             next = now \/ fs[i].op \in changes
      PROVE  Follow(F!Served(fs, i, outcome, data), list, changes, next, shown, p)
  <2>1. Now(None, now)[None] = now
    BY NowIs
  <2>2. Now(None, next) = Now(None, now) \/ (fs[i].op \in changes /\ outcome \in {"ok", "throws"})
    BY <1>3
  <2>3. fs[i].op = list => outcome # "ok" \/ data = Now(None, now)[fs[i].arg]
    BY <1>2, <1>3, <2>1
  <2> QED
    BY <1>1, <1>3, <2>2, <2>3, ServedTracks DEF Follow, NodesRequests
<1>4. /\ "blacklist" \notin {"add", "remove"} /\ "operators" \notin {"grant", "revoke"}
      /\ "tasks" \notin {"task"}
      /\ "blacklist" \in Nodes!Lists /\ "operators" \in Nodes!Lists /\ "tasks" \in Nodes!Lists
  BY DEF Nodes!Lists
<1>5. ~p.overlap => Follow(F!Served(fs, i, outcome, data), "blacklist", {"add", "remove"},
                           t.blacklist, v.shown.blacklist, p)
  BY <1>3, <1>4 DEF NodesTracks
<1>6. Follow(F!Served(fs, i, outcome, data), "operators", {"grant", "revoke"},
             t.operators, v.shown.operators, p)
  BY <1>3, <1>4 DEF NodesTracks
<1>7. Follow(F!Served(fs, i, outcome, data), "tasks", {"task"}, t.tasks, v.shown.tasks, p)
  BY <1>3, <1>4 DEF NodesTracks
<1> QED
  BY <1>5, <1>6, <1>7, NodesFetch DEF NodesTracks

\* Only what the lists depend on matters.
LEMMA NodesSameTracks ==
  ASSUME NEW fs, NEW s, NEW v, NEW p, NodesTracks(fs, s, v, p), NEW t, NEW w, NEW q,
         t.blacklist = s.blacklist, t.operators = s.operators, t.tasks = s.tasks,
         w.shown = v.shown, q.stale = p.stale, p.overlap => q.overlap
  PROVE  NodesTracks(fs, t, w, q)
  BY DEF NodesTracks, Follow

\* A step of the page that sends nothing.
LEMMA NodesQuiet ==
  ASSUME NodesInv, NodesView(view', server.tasks), view'.shown = view.shown,
         UNCHANGED <<server, flight, past>>
  PROVE  NodesInv'
<1>1. NodesTracks(flight', server', view', past')
  BY NodesSameTracks DEF NodesInv
<1>2. NodesCore(flight', server', past')
  BY NodesKept DEF NodesInv
<1> QED
  BY <1>1, <1>2 DEF NodesInv

\* A step of the page that asks for something.
LEMMA NodesAsking ==
  ASSUME NodesInv, NEW op \in NodesOps, NEW arg \in NodesArgs,
         NodesAsk(op, arg, "none", {}, server.tasks),
         op = "remove" => arg \in past'.asked,
         flight' = Append(flight, Nodes!Request(op, arg)),
         NodesView(view', server.tasks), view'.shown = view.shown, UNCHANGED server,
         NodesPast(past'), past'.stale = past.stale, past'.added = past.added,
         past.asked \subseteq past'.asked, past'.overlap = past.overlap
  PROVE  NodesInv'
<1>1. NodesCore(flight, server, past')
  BY NodesKept DEF NodesInv
<1>2. NodesTracks(flight, server, view', past')
  BY NodesSameTracks DEF NodesInv
<1>3. NodesCore(flight', server, past')
  BY <1>1, NodesSent
<1>4. NodesTracks(flight', server, view', past')
  BY <1>1, <1>2, NodesSentTracks DEF NodesCore
<1> QED
  BY <1>3, <1>4 DEF NodesInv

LEMMA NodesActed ==
  ASSUME NodesPast(past)
  PROVE  LET p == Nodes!Acted
         IN /\ NodesPast(p)
            /\ p.stale = past.stale /\ p.added = past.added
            /\ p.asked = past.asked /\ p.overlap = past.overlap
<1>1. Nodes!Acted = [past EXCEPT !.steps = past.steps + 1]
  BY DEF Nodes!Acted
<1> QED
  BY <1>1 DEF NodesPast

\* The typical button.
LEMMA NodesAsked ==
  ASSUME NodesInv, NEW op \in NodesOps \ {"remove"}, NEW arg \in NodesArgs,
         NodesAsk(op, arg, "none", {}, server.tasks), Nodes!Ask(op, arg),
         NodesView(view', server.tasks), view'.shown = view.shown
  PROVE  NodesInv'
<1>1. /\ flight' = Append(flight, Nodes!Request(op, arg)) /\ past' = Nodes!Acted
      /\ UNCHANGED server
  BY DEF Nodes!Ask
<1> QED
  BY <1>1, NodesActed, NodesAsking DEF NodesInv

LEMMA NodesInit == ASSUME Nodes!Init PROVE NodesInv
<1> DEFINE site == CHOOSE ip \in Names : TRUE
           first == {[id |-> 1, ip |-> site, nr |-> 0]}
<1>1. site \in Names
  BY NamesAssumption
<1>2. first \in Blacklists /\ {} \in SUBSET Names
  <2>1. [id |-> 1, ip |-> site, nr |-> 0] \in Nodes!Entries
    BY <1>1 DEF Nodes!Entries
  <2>2. IsFiniteSet(first)
    BY FS_Singleton
  <2> QED
    BY <2>1, <2>2 DEF Blacklists
<1>3. /\ server = [blacklist |-> first, given |-> 1, operators |-> {}, tasks |-> 0,
                   open |-> {}, heartbeat |-> None]
      /\ view = [shown |-> [blacklist |-> first, operators |-> {}, tasks |-> 0],
                 dialog |-> "none", found |-> {}, selected |-> None, creating |-> FALSE]
      /\ flight = <<>>
      /\ past = [stale |-> {}, added |-> first, asked |-> {}, overlap |-> FALSE,
                 steps |-> 0, faults |-> 0]
  BY DEF Nodes!Init
<1> HIDE DEF first
<1>6. NodesServer(server)
  BY <1>2, <1>3 DEF NodesServer
<1>7. NodesView(view, server.tasks)
  BY <1>2, <1>3 DEF NodesView
<1>8. NodesPast(past)
  BY <1>2, <1>3 DEF NodesPast, Blacklists
<1>9. NodesFlight(flight, server.tasks)
  BY <1>3 DEF NodesFlight
<1>10. Alone(flight, server)
  BY <1>3 DEF Alone
<1>11. StillListed(server, past) /\ \A i \in DOMAIN flight : FALSE
  BY <1>3 DEF StillListed
<1>12. NodesTracks(flight, server, view, past)
  <2>1. \A now, list : Fresh(flight, list, {"add", "remove"}, now)
                    /\ Fresh(flight, list, {"grant", "revoke"}, now)
                    /\ Fresh(flight, list, {"task"}, now)
    BY <1>3 DEF Fresh
  <2> QED
    BY <1>3, <2>1, NowIs DEF NodesTracks, Follow, Tracks
<1> QED
  BY <1>6, <1>7, <1>8, <1>9, <1>10, <1>11, <1>12 DEF NodesInv, NodesCore

\* Three loads.
LEMMA NodesRefreshAll == ASSUME NodesInv, Nodes!RefreshAll PROVE NodesInv'
<1> DEFINE a == Nodes!Request("blacklist", None)
           b == Nodes!Request("operators", None)
           c == Nodes!Request("tasks", None)
           f1 == Append(flight, a)
           f2 == Append(f1, b)
           f3 == Append(f2, c)
<1>1. /\ flight' = flight \o <<a, b, c>> /\ past' = Nodes!Acted /\ UNCHANGED <<server, view>>
  BY DEF Nodes!RefreshAll, Nodes!Load
<1>2. \A x, y, z : flight \o <<x, y, z>> = Append(Append(Append(flight, x), y), z)
  <2>1. flight \in Seq(NodesRequests)
    BY DEF NodesInv, NodesCore, NodesFlight
  <2> QED
    BY <2>1
<1>3. flight' = f3
  BY <1>1, <1>2
<1>4. /\ NodesCore(flight, server, past') /\ NodesPast(past')
  BY <1>1, NodesActed, NodesKept DEF NodesInv
<1>5. NodesTracks(flight, server, view, past')
  BY <1>1, NodesActed, NodesSameTracks DEF NodesInv
<1>6. ASSUME NEW fs, NodesCore(fs, server, past'), NodesTracks(fs, server, view, past'),
             NEW op \in Nodes!Lists
      PROVE  LET gs == Append(fs, Nodes!Request(op, None))
             IN NodesCore(gs, server, past') /\ NodesTracks(gs, server, view, past')
  <2>1. op \in NodesOps /\ None \in NodesArgs
    BY DEF NodesOps, NodesArgs
  <2>2. NodesAsk(op, None, "none", {}, server.tasks) /\ op # "remove"
    BY DEF NodesAsk, Nodes!Lists, Nodes!Edits
  <2> QED
    BY <1>6, <2>1, <2>2, NodesSent, NodesSentTracks DEF NodesCore
<1>7. "blacklist" \in Nodes!Lists /\ "operators" \in Nodes!Lists /\ "tasks" \in Nodes!Lists
  BY DEF Nodes!Lists
<1>8. NodesCore(f1, server, past') /\ NodesTracks(f1, server, view, past')
  BY <1>4, <1>5, <1>6, <1>7
<1>9. NodesCore(f2, server, past') /\ NodesTracks(f2, server, view, past')
  BY <1>6, <1>7, <1>8
<1>10. NodesCore(f3, server, past') /\ NodesTracks(f3, server, view, past')
  BY <1>6, <1>7, <1>9
<1> QED
  BY <1>1, <1>3, <1>4, <1>10 DEF NodesInv

\* What the user of the page does.
LEMMA NodesPage ==
  ASSUME NodesInv,
         \/ Nodes!RefreshAll \/ Nodes!OpenAddNodeOp \/ Nodes!OpenCreateTask \/ Nodes!Cancel
         \/ Nodes!CloseDialog \/ Nodes!ClearSearch \/ Nodes!AddNodeOp \/ Nodes!CreateTask
         \/ \E name \in Names : Nodes!AddBlacklist(name) \/ Nodes!SearchUsers(name)
                                \/ Nodes!SelectUser(name) \/ Nodes!RemoveNodeOp(name)
         \/ \E e \in view.shown.blacklist : Nodes!DeleteBlacklist(e)
  PROVE  NodesInv'
<1>1. NodesView(view, server.tasks) /\ NodesPast(past)
  BY DEF NodesInv
<1>2. None \in NodesArgs /\ Names \subseteq NodesArgs /\ Nat \subseteq NodesArgs
  BY DEF NodesArgs
<1>3. /\ "add" \in NodesOps \ {"remove"} /\ "search" \in NodesOps \ {"remove"}
      /\ "grant" \in NodesOps \ {"remove"} /\ "revoke" \in NodesOps \ {"remove"}
      /\ "task" \in NodesOps \ {"remove"}
      /\ "remove" \in NodesOps
  BY DEF NodesOps, Nodes!Edits
<1>4. \A name \in Names : \A op \in {"add", "search", "grant", "revoke"} :
        NodesAsk(op, name, "none", {}, server.tasks)
  BY DEF NodesAsk, Nodes!Lists
<1>5. NodesAsk("task", None, "none", {}, server.tasks)
  BY DEF NodesAsk, Nodes!Lists, Nodes!Edits
<1>6. CASE Nodes!RefreshAll
  BY <1>6, NodesRefreshAll
<1>7. CASE Nodes!OpenAddNodeOp \/ Nodes!OpenCreateTask
  <2>1. \/ view' = [view EXCEPT !.dialog = "operator"]
        \/ view' = [view EXCEPT !.dialog = "task"]
    BY <1>7 DEF Nodes!OpenAddNodeOp, Nodes!OpenCreateTask
  <2>2. NodesView(view', server.tasks) /\ view'.shown = view.shown
    BY <1>1, <2>1 DEF NodesView
  <2> QED
    BY <1>7, <2>2, NodesQuiet DEF Nodes!OpenAddNodeOp, Nodes!OpenCreateTask
<1>8. CASE Nodes!Cancel \/ Nodes!CloseDialog \/ Nodes!ClearSearch
  <2>1. /\ \/ view' = [view EXCEPT !.dialog = IF @ = "operator" THEN "none" ELSE @,
                                     !.found = {}, !.selected = None]
           \/ view' = [view EXCEPT !.dialog = "none"]
           \/ view' = [view EXCEPT !.found = {}]
        /\ UNCHANGED <<server, flight, past>>
    BY <1>8 DEF Nodes!Cancel, Nodes!NoOperator, Nodes!CloseDialog, Nodes!ClearSearch
  <2>2. NodesView(view', server.tasks) /\ view'.shown = view.shown
    BY <1>1, <2>1 DEF NodesView
  <2> QED
    BY <2>1, <2>2, NodesQuiet
<1>9. CASE Nodes!AddNodeOp
  <2>1. view.selected \in Names
    BY <1>1, <1>9 DEF Nodes!AddNodeOp, NodesView
  <2>2. view' = view /\ Nodes!Ask("grant", view.selected)
    BY <1>9 DEF Nodes!AddNodeOp
  <2> QED
    BY <1>1, <1>2, <1>3, <1>4, <2>1, <2>2, NodesAsked
<1>10. CASE Nodes!CreateTask
  <2>1. view' = [view EXCEPT !.creating = TRUE] /\ Nodes!Ask("task", None)
    BY <1>10 DEF Nodes!CreateTask
  <2>2. NodesView(view', server.tasks) /\ view'.shown = view.shown
    BY <1>1, <2>1 DEF NodesView
  <2> QED
    BY <1>2, <1>3, <1>5, <2>1, <2>2, NodesAsked
<1>11. ASSUME NEW name \in Names, Nodes!AddBlacklist(name) \/ Nodes!SearchUsers(name)
                                  \/ Nodes!RemoveNodeOp(name)
       PROVE  NodesInv'
  <2>1. view' = view /\ \E op \in {"add", "search", "revoke"} : Nodes!Ask(op, name)
    BY <1>11 DEF Nodes!AddBlacklist, Nodes!SearchUsers, Nodes!RemoveNodeOp
  <2> QED
    BY <1>1, <1>2, <1>3, <1>4, <2>1, NodesAsked
<1>12. ASSUME NEW name \in Names, Nodes!SelectUser(name)
       PROVE  NodesInv'
  <2>1. view' = [view EXCEPT !.selected = name]
    BY <1>12 DEF Nodes!SelectUser
  <2>2. NodesView(view', server.tasks) /\ view'.shown = view.shown
    BY <1>1, <2>1 DEF NodesView
  <2> QED
    BY <1>12, <2>2, NodesQuiet DEF Nodes!SelectUser
<1>13. ASSUME NEW e \in view.shown.blacklist, Nodes!DeleteBlacklist(e)
       PROVE  NodesInv'
  <2>1. e \in Nodes!Entries
    BY <1>1 DEF NodesView, Blacklists
  <2>2. e.id \in Nat
    BY <2>1 DEF Nodes!Entries
  <2>3. /\ flight' = Append(flight, Nodes!Request("remove", e.id))
        /\ past' = [Nodes!Acted EXCEPT !.asked = @ \cup {e.id}]
        /\ UNCHANGED <<server, view>>
    BY <1>13 DEF Nodes!DeleteBlacklist
  <2>4. /\ NodesPast(past') /\ past'.stale = past.stale /\ past'.added = past.added
        /\ past'.asked = past.asked \cup {e.id} /\ past'.overlap = past.overlap
    BY <1>1, <2>2, <2>3, NodesActed DEF NodesPast
  <2>5. NodesAsk("remove", e.id, "none", {}, server.tasks)
    BY DEF NodesAsk, Nodes!Lists
  <2> QED
    BY <1>1, <1>2, <1>3, <2>2, <2>3, <2>4, <2>5, NodesAsking
<1> QED
  BY <1>6, <1>7, <1>8, <1>9, <1>10, <1>11, <1>12, <1>13

\* The snapshot of a thread that has read.
LEMMA SnapshotIs ==
  ASSUME NEW b
  PROVE  (CHOOSE x \in {b} : TRUE) = b
  OBVIOUS

\* The pages that count bring their own FiniteSets.
LEMMA NodesCardinality == \A S : Nodes!Cardinality(S) = Cardinality(S)
  BY DEF Nodes!Cardinality, Cardinality

\* A thread of the director reads the store.
LEMMA NodesReads ==
  ASSUME NodesInv, NEW i \in DOMAIN flight, Nodes!Reads(i)
  PROVE  NodesInv'
<1> DEFINE data == {server.blacklist}
           gs == F!Served(flight, i, "none", data)
<1>1. /\ flight[i].op \in Nodes!Edits /\ flight[i].outcome = "none" /\ flight[i].data = {}
      /\ flight' = gs
      /\ UNCHANGED <<server, view>>
  BY NodesFetch DEF Nodes!Reads
<1>2. data \in Snapshots /\ data = {server.blacklist}
  BY DEF NodesInv, NodesServer, Snapshots
<1>3. data \in NodesData
  BY <1>2 DEF NodesData
<1> HIDE DEF data
<1>4. flight \in Seq(NodesRequests) /\ "none" \in F!Outcomes
  BY DEF NodesInv, NodesCore, NodesFlight, F!Outcomes
<1>5. /\ gs \in Seq(NodesRequests) /\ DOMAIN gs = DOMAIN flight
      /\ \A j \in DOMAIN flight \ {i} : gs[j] = flight[j]
      /\ gs[i].op = flight[i].op /\ gs[i].arg = flight[i].arg
      /\ gs[i].outcome = "none" /\ gs[i].data = data
  BY <1>3, <1>4, ServedFacts DEF NodesRequests
<1>6. /\ NodesPast(past') /\ past'.stale = past.stale /\ past'.added = past.added
      /\ past'.asked = past.asked
      /\ ~past'.overlap => ~past.overlap /\ ~Nodes!AtWork
  <2>1. (past.overlap \/ Nodes!AtWork) \in BOOLEAN
    OBVIOUS
  <2>2. past' = [past EXCEPT !.overlap = past.overlap \/ Nodes!AtWork]
    BY DEF Nodes!Reads
  <2> QED
    BY <2>1, <2>2 DEF NodesInv, NodesPast
<1>7. NodesTracks(flight', server', view', past')
  <2>1. NodesTracks(flight, server, view, past)
    BY DEF NodesInv
  <2>2. \A list, changes, now, shown :
          list \in Nodes!Lists /\ list \notin changes
          /\ Follow(flight, list, changes, now, shown, past) =>
            Follow(gs, list, changes, now, shown, past)
    <3>1. \A list \in Nodes!Lists : flight[i].op # list
      BY <1>1 DEF Nodes!Lists, Nodes!Edits
    <3> QED
      BY <1>1, <1>3, <1>4, <3>1, ServedTracks DEF Follow, NodesRequests
  <2>3. /\ "blacklist" \notin {"add", "remove"} /\ "operators" \notin {"grant", "revoke"}
        /\ "tasks" \notin {"task"}
        /\ "blacklist" \in Nodes!Lists /\ "operators" \in Nodes!Lists /\ "tasks" \in Nodes!Lists
    BY DEF Nodes!Lists
  <2>4. NodesTracks(gs, server, view, past)
    BY <2>1, <2>2, <2>3 DEF NodesTracks
  <2> QED
    BY <1>1, <1>6, <2>4, NodesSameTracks
<1> HIDE DEF gs
<1>8. NodesFlight(gs, server.tasks)
  <2>1. NodesFlight(flight, server.tasks)
    BY DEF NodesInv, NodesCore
  <2>2. NodesAsk(flight[i].op, flight[i].arg, "none", data, server.tasks)
    BY <1>1, <1>2, <2>1 DEF NodesFlight, NodesAsk
  <2> QED
    BY <1>5, <2>1, <2>2 DEF NodesFlight
<1>9. ASSUME ~past'.overlap
      PROVE  Alone(gs, server)
  <2>1. server.heartbeat = None /\ \A j \in DOMAIN flight : ~Works(flight[j])
    BY <1>6, <1>9 DEF Nodes!AtWork, Nodes!Threads, Works
  <2>2. \A j \in DOMAIN gs : Works(gs[j]) => j = i
    BY <1>5, <2>1
  <2>3. \A j \in DOMAIN gs : Works(gs[j]) => gs[j].data = {server.blacklist}
    BY <1>2, <1>5, <2>2
  <2> QED
    BY <2>1, <2>2, <2>3 DEF Alone
<1>10. /\ ~past'.overlap => StillListed(server, past')
       /\ \A k \in DOMAIN gs : gs[k].op = "remove" => gs[k].arg \in past'.asked
  BY <1>5, <1>6 DEF NodesInv, NodesCore, StillListed
<1>11. NodesCore(gs, server, past')
  BY <1>8, <1>9, <1>10 DEF NodesCore
<1> QED
  BY <1>1, <1>6, <1>7, <1>11 DEF NodesInv

\* A thread of the director writes what it has made of its copy.
LEMMA NodesWrites ==
  ASSUME NodesInv, NEW i \in DOMAIN flight, Nodes!Writes(i)
  PROVE  NodesInv'
<1> DEFINE b == CHOOSE x \in flight[i].data : TRUE
           add == flight[i].op = "add"
           new == [id |-> Nodes!NewId(b), ip |-> flight[i].arg, nr |-> server.given]
           news == IF add THEN {new} ELSE {}
           after == IF add THEN b \cup news ELSE {e \in b : e.id # flight[i].arg}
           gs == F!Served(flight, i, "ok", {})
<1>1. /\ i \in Nodes!Threads /\ flight' = gs
      /\ server' = [server EXCEPT !.blacklist = after,
                                  !.given = server.given + Nodes!Cardinality(news)]
      /\ past' = [past EXCEPT !.added = past.added \cup news]
      /\ UNCHANGED view
  BY NodesFetch DEF Nodes!Writes, Nodes!NewEntry, Nodes!Removed
<1>2. /\ flight[i].op \in Nodes!Edits /\ flight[i].outcome = "none" /\ flight[i].data # {}
      /\ Works(flight[i])
  BY <1>1 DEF Nodes!Threads, Works
<1>3. NodesFlight(flight, server.tasks) /\ NodesServer(server) /\ NodesPast(past)
  BY DEF NodesInv, NodesCore
<1>4. b \in Blacklists /\ flight[i].data = {b}
  <2>1. flight[i].data \in Snapshots
    BY <1>2, <1>3 DEF NodesFlight, NodesAsk
  <2>2. PICK x \in Blacklists : flight[i].data = {x}
    BY <2>1 DEF Snapshots
  <2> QED
    BY <2>2, SnapshotIs
<1>5. ~past.overlap => Alone(flight, server) /\ b = server.blacklist
  <2>1. ~past.overlap => Alone(flight, server)
    BY DEF NodesInv, NodesCore
  <2> QED
    BY <1>2, <1>4, <2>1 DEF Alone
<1>6. add => flight[i].arg \in Names
  BY <1>3 DEF NodesFlight, NodesAsk
<1> HIDE DEF b
<1>7. Nodes!NewId(b) \in Nat
  <2>1. IsFiniteSet(b)
    BY <1>4 DEF Blacklists
  <2>2. Cardinality(b) \in Nat
    BY <2>1, FS_CardinalityType
  <2> QED
    BY <2>2, NodesCardinality DEF Nodes!NewId
<1>8. after \in Blacklists /\ news \subseteq Nodes!Entries /\ Nodes!Cardinality(news) \in Nat
  <2>1. CASE add
    <3>1. new \in Nodes!Entries
      BY <1>3, <1>6, <1>7, <2>1 DEF Nodes!Entries, NodesServer
    <3>2. IsFiniteSet(b \cup {new})
      BY <1>4, FS_AddElement DEF Blacklists
    <3>3. Cardinality({new}) = 1
      BY FS_Singleton
    <3> QED
      BY <1>4, <2>1, <3>1, <3>2, <3>3, NodesCardinality DEF Blacklists
  <2>2. CASE ~add
    <3>1. IsFiniteSet({e \in b : e.id # flight[i].arg})
      BY <1>4, FS_Subset DEF Blacklists
    <3>2. Cardinality({}) = 0
      BY FS_EmptySet
    <3> QED
      BY <1>4, <2>2, <3>1, <3>2, NodesCardinality DEF Blacklists
  <2> QED
    BY <2>1, <2>2
<1>kept. StillListed(server, past) /\ b = server.blacklist
       /\ (flight[i].op = "remove" => flight[i].arg \in past.asked) =>
         {e \in past.added \cup news : e.id \notin past.asked} \subseteq after
  BY <1>2 DEF StillListed, Nodes!Edits
<1> HIDE DEF news
<1> HIDE DEF after
<1>9. /\ NodesServer(server') /\ server'.blacklist = after
      /\ server'.operators = server.operators /\ server'.tasks = server.tasks
      /\ server'.heartbeat = server.heartbeat
  <2>1. server.given + Nodes!Cardinality(news) \in Nat
    BY <1>3, <1>8 DEF NodesServer
  <2> QED
    BY <1>1, <1>3, <1>8, <2>1 DEF NodesServer
<1>10. /\ NodesPast(past') /\ past'.stale = past.stale /\ past'.overlap = past.overlap
       /\ past'.asked = past.asked /\ past'.added = past.added \cup news
  BY <1>1, <1>3, <1>8 DEF NodesPast
<1>11. {} \in NodesData /\ flight \in Seq(NodesRequests) /\ "ok" \in F!Outcomes
  BY <1>3, FS_EmptySet DEF NodesData, Blacklists, NodesFlight, F!Outcomes
<1>12. /\ gs \in Seq(NodesRequests) /\ DOMAIN gs = DOMAIN flight
       /\ \A j \in DOMAIN flight \ {i} : gs[j] = flight[j]
       /\ gs[i].op = flight[i].op /\ gs[i].arg = flight[i].arg
       /\ gs[i].outcome = "ok" /\ gs[i].data = {}
  BY <1>11, ServedFacts DEF NodesRequests
<1>13. NodesTracks(gs, server', view, past')
  <2>1. NodesTracks(flight, server, view, past)
    BY DEF NodesInv
  <2>2. flight[i].op \in {"add", "remove"}
    BY <1>2 DEF Nodes!Edits
  <2>3. NodesTracks(gs, server', view, past)
    BY <1>3, <1>9, <1>11, <2>1, <2>2, NodesServedTracks, NodesFetch
  <2> QED
    BY <1>10, <2>3, NodesSameTracks
<1> HIDE DEF gs
<1>14. NodesFlight(gs, server'.tasks)
  <2>1. NodesAsk(flight[i].op, flight[i].arg, "ok", {}, server.tasks)
    BY <1>2, <1>3 DEF NodesFlight, NodesAsk, Nodes!Edits, Nodes!Lists
  <2> QED
    BY <1>3, <1>9, <1>12, <2>1 DEF NodesFlight
<1>15. ASSUME ~past'.overlap
       PROVE  Alone(gs, server')
  <2>1. Alone(flight, server)
    BY <1>5, <1>10, <1>15
  <2>2. server.heartbeat = None /\ \A j \in DOMAIN flight \ {i} : ~Works(flight[j])
    BY <1>2, <2>1 DEF Alone
  <2>3. \A j \in DOMAIN gs : ~Works(gs[j])
    BY <1>12, <2>2 DEF Works
  <2> QED
    BY <1>9, <2>2, <2>3 DEF Alone
<1>16. \A k \in DOMAIN flight : flight[k].op = "remove" => flight[k].arg \in past.asked
  BY DEF NodesInv, NodesCore
<1>17. \A k \in DOMAIN gs : gs[k].op = "remove" => gs[k].arg \in past'.asked
  BY <1>10, <1>12, <1>16
<1>18. ASSUME ~past'.overlap
       PROVE  StillListed(server', past')
  <2>1. StillListed(server, past) /\ b = server.blacklist
    BY <1>5, <1>10, <1>18 DEF NodesInv, NodesCore
  <2> QED
    BY <1>kept, <1>9, <1>10, <1>16, <2>1 DEF StillListed
<1>19. NodesCore(gs, server', past')
  BY <1>14, <1>15, <1>17, <1>18 DEF NodesCore
<1>20. NodesView(view, server'.tasks)
  BY <1>9 DEF NodesInv
<1> QED
  BY <1>1, <1>9, <1>10, <1>13, <1>19, <1>20 DEF NodesInv

\* A heartbeat of another service reads the store.
LEMMA NodesHeartbeatReads == ASSUME NodesInv, Nodes!HeartbeatReads PROVE NodesInv'
<1> DEFINE data == {server.blacklist}
<1>1. /\ server.heartbeat = None /\ server' = [server EXCEPT !.heartbeat = data]
      /\ UNCHANGED <<view, flight>>
  BY DEF Nodes!HeartbeatReads
<1>2. NodesServer(server) /\ NodesPast(past) /\ data \in Snapshots
  BY DEF NodesInv, NodesServer, Snapshots
<1> HIDE DEF data
<1>3. /\ NodesServer(server') /\ server'.blacklist = server.blacklist
      /\ server'.operators = server.operators /\ server'.tasks = server.tasks
      /\ server'.heartbeat = data
  BY <1>1, <1>2 DEF NodesServer
<1>4. /\ NodesPast(past') /\ past'.stale = past.stale /\ past'.added = past.added
      /\ past'.asked = past.asked
      /\ ~past'.overlap => ~past.overlap /\ ~Nodes!AtWork
  <2>1. (Nodes!Acted.overlap \/ Nodes!AtWork) \in BOOLEAN
    OBVIOUS
  <2>2. past' = [Nodes!Acted EXCEPT !.overlap = Nodes!Acted.overlap \/ Nodes!AtWork]
    BY DEF Nodes!HeartbeatReads
  <2> QED
    BY <1>2, <2>1, <2>2, NodesActed DEF NodesPast
<1>5. NodesTracks(flight, server', view, past')
  BY <1>3, <1>4, NodesSameTracks DEF NodesInv
<1>6. ASSUME ~past'.overlap
      PROVE  Alone(flight, server')
  <2>1. \A j \in DOMAIN flight : ~Works(flight[j])
    BY <1>4, <1>6 DEF Nodes!AtWork, Nodes!Threads, Works
  <2> QED
    BY <1>3, <2>1 DEF Alone, data
<1>7. /\ ~past'.overlap => StillListed(server', past')
      /\ \A k \in DOMAIN flight : flight[k].op = "remove" => flight[k].arg \in past'.asked
  BY <1>3, <1>4 DEF NodesInv, NodesCore, StillListed
<1>8. NodesFlight(flight, server'.tasks) /\ NodesView(view, server'.tasks)
  BY <1>3 DEF NodesInv, NodesCore
<1> QED
  BY <1>1, <1>3, <1>4, <1>5, <1>6, <1>7, <1>8 DEF NodesInv, NodesCore

\* It writes the store as it has read it.
LEMMA NodesHeartbeatWrites == ASSUME NodesInv, Nodes!HeartbeatWrites PROVE NodesInv'
<1> DEFINE b == CHOOSE x \in server.heartbeat : TRUE
<1>1. /\ server.heartbeat # None
      /\ server' = [server EXCEPT !.heartbeat = None, !.blacklist = b]
      /\ UNCHANGED <<view, flight, past>>
  BY DEF Nodes!HeartbeatWrites
<1>2. NodesServer(server)
  BY DEF NodesInv
<1>3. b \in Blacklists /\ server.heartbeat = {b}
  <2>1. server.heartbeat \in Snapshots
    BY <1>1, <1>2 DEF NodesServer
  <2>2. PICK x \in Blacklists : server.heartbeat = {x}
    BY <2>1 DEF Snapshots
  <2> QED
    BY <2>2, SnapshotIs
<1> HIDE DEF b
<1>4. /\ NodesServer(server') /\ server'.blacklist = b
      /\ server'.operators = server.operators /\ server'.tasks = server.tasks
      /\ server'.heartbeat = None
  BY <1>1, <1>2, <1>3 DEF NodesServer
<1>5. ASSUME ~past.overlap
      PROVE  b = server.blacklist /\ Alone(flight, server')
  <2>1. Alone(flight, server)
    BY <1>5 DEF NodesInv, NodesCore
  <2> QED
    BY <1>1, <1>3, <1>4, <2>1 DEF Alone
<1>6. NodesTracks(flight, server', view, past)
  BY <1>4, <1>5 DEF NodesInv, NodesTracks
<1>7. /\ ~past.overlap => StillListed(server', past)
      /\ \A k \in DOMAIN flight : flight[k].op = "remove" => flight[k].arg \in past.asked
  BY <1>4, <1>5 DEF NodesInv, NodesCore, StillListed
<1>8. NodesFlight(flight, server'.tasks) /\ NodesView(view, server'.tasks)
  BY <1>4 DEF NodesInv, NodesCore
<1> QED
  BY <1>1, <1>4, <1>5, <1>6, <1>7, <1>8 DEF NodesInv, NodesCore

\* Any other answer: the blacklist stays, and if something changes it is a list that its
\* handler loads again.
LEMMA NodesAnswered ==
  ASSUME NodesInv, NEW i \in DOMAIN flight, NEW outcome \in {"ok", "throws"},
         NEW data \in NodesData, flight' = Nodes!Served(flight, i, outcome, data),
         NodesAsk(flight[i].op, flight[i].arg, outcome, data, server.tasks),
         NodesServer(server'), server'.blacklist = server.blacklist,
         server'.heartbeat = server.heartbeat,
         server'.operators = server.operators,
         server'.tasks = server.tasks \/ flight[i].op = "task",
         server'.tasks = server.tasks \/ server'.tasks = server.tasks + 1,
         flight[i].op = "blacklist" /\ outcome = "ok" => data = server.blacklist,
         flight[i].op = "operators" /\ outcome = "ok" => data = server.operators,
         flight[i].op = "tasks" /\ outcome = "ok" => data = server.tasks,
         NodesPast(past'), past'.stale = past.stale, past'.added = past.added,
         past'.asked = past.asked, past'.overlap = past.overlap, UNCHANGED view
  PROVE  NodesInv'
<1>1. NodesFlight(flight, server.tasks) /\ server.tasks \in Nat /\ NodesView(view, server.tasks)
  BY DEF NodesInv, NodesCore, NodesServer
<1>2. outcome \in F!Outcomes \ {"none"}
  BY DEF F!Outcomes
<1>3. NodesCore(flight', server, past)
  BY <1>2, NodesServed DEF NodesInv
<1>4. NodesCore(flight', server', past')
  BY <1>1, <1>3, NodesKept
<1>5. NodesTracks(flight', server', view, past)
  BY <1>1, NodesServedTracks DEF NodesInv
<1>6. NodesTracks(flight', server', view, past')
  BY <1>5, NodesSameTracks
<1>7. NodesView(view, server'.tasks)
  <2>1. 0..server.tasks \subseteq 0..server'.tasks
    BY <1>1
  <2> QED
    BY <1>1, <2>1 DEF NodesView
<1> QED
  BY <1>4, <1>6, <1>7 DEF NodesInv

\* What cityhall, sp1d3r and the lists do.
LEMMA NodesServes ==
  ASSUME NodesInv, NEW i \in DOMAIN flight,
         \/ Nodes!ServeList(i) \/ Nodes!ServeSearch(i) \/ Nodes!ServeGrant(i)
         \/ Nodes!ServeRevoke(i) \/ Nodes!ServeTask(i) \/ Nodes!Fail(i)
  PROVE  NodesInv'
<1>1. /\ NodesServer(server) /\ NodesPast(past)
      /\ NodesAsk(flight[i].op, flight[i].arg, flight[i].outcome, flight[i].data, server.tasks)
  BY DEF NodesInv, NodesCore, NodesFlight
<1>2. /\ server.blacklist \in Blacklists /\ server.operators \in SUBSET Names
      /\ server.tasks \in 0..server.tasks /\ server.tasks \in Nat
  BY <1>1 DEF NodesServer
<1>3. {} \in NodesData /\ Blacklists \subseteq NodesData /\ SUBSET Names \subseteq NodesData
      /\ Nat \subseteq NodesData
  BY FS_EmptySet DEF NodesData, Blacklists
<1>4. CASE Nodes!ServeList(i)
  <2>1. /\ flight[i].op \in Nodes!Lists
        /\ flight' = Nodes!Served(flight, i, "ok", server[flight[i].op])
        /\ UNCHANGED <<server, view, past>>
    BY <1>4 DEF Nodes!ServeList
  <2>2. CASE flight[i].op = "blacklist"
    <3>1. NodesAsk("blacklist", flight[i].arg, "ok", server.blacklist, server.tasks)
      BY <1>1, <1>2, <2>2 DEF NodesAsk, Nodes!Edits
    <3> QED
      BY <1>1, <1>2, <1>3, <2>1, <2>2, <3>1, NodesAnswered
  <2>3. CASE flight[i].op = "operators"
    <3>1. NodesAsk("operators", flight[i].arg, "ok", server.operators, server.tasks)
      BY <1>1, <1>2, <2>3 DEF NodesAsk, Nodes!Edits
    <3> QED
      BY <1>1, <1>2, <1>3, <2>1, <2>3, <3>1, NodesAnswered
  <2>4. CASE flight[i].op = "tasks"
    <3>1. NodesAsk("tasks", flight[i].arg, "ok", server.tasks, server.tasks)
      BY <1>1, <1>2, <2>4 DEF NodesAsk, Nodes!Edits
    <3> QED
      BY <1>1, <1>2, <1>3, <2>1, <2>4, <3>1, NodesAnswered
  <2> QED
    BY <2>1, <2>2, <2>3, <2>4 DEF Nodes!Lists
<1>5. CASE Nodes!ServeSearch(i)
  <2>1. /\ flight[i].op = "search" /\ flight' = Nodes!Served(flight, i, "ok", {flight[i].arg})
        /\ UNCHANGED <<server, view, past>>
    BY <1>5 DEF Nodes!ServeSearch, Nodes!Waiting
  <2>2. {flight[i].arg} \in SUBSET Names
    BY <1>1, <2>1 DEF NodesAsk
  <2>3. NodesAsk("search", flight[i].arg, "ok", {flight[i].arg}, server.tasks)
    BY <1>1, <2>1, <2>2 DEF NodesAsk, Nodes!Lists, Nodes!Edits
  <2> HIDE DEF NodesAsk
  <2> QED
    BY <1>1, <1>3, <2>1, <2>2, <2>3, NodesAnswered
<1>6. ASSUME NEW op \in {"grant", "revoke", "task"}, flight[i].op = op,
             flight' = Nodes!Served(flight, i, "ok", {}), UNCHANGED <<view, past>>,
             NodesServer(server'), server'.blacklist = server.blacklist,
             server'.heartbeat = server.heartbeat,
             server'.operators = server.operators,
             server'.tasks = server.tasks \/ flight[i].op = "task",
             server'.tasks = server.tasks \/ server'.tasks = server.tasks + 1
      PROVE  NodesInv'
  <2>1. NodesAsk(op, flight[i].arg, "ok", {}, server.tasks)
    BY <1>1, <1>6 DEF NodesAsk, Nodes!Lists, Nodes!Edits
  <2> QED
    BY <1>1, <1>3, <1>6, <2>1, NodesAnswered
<1>7. CASE Nodes!ServeGrant(i) \/ Nodes!ServeRevoke(i)
  <2>1. PICK op \in {"grant", "revoke"}, on \in BOOLEAN : Nodes!Setting(i, op, on)
    BY <1>7 DEF Nodes!ServeGrant, Nodes!ServeRevoke
  <2> DEFINE change == [name |-> flight[i].arg, on |-> on]
             changes == IF (flight[i].arg \in server.operators) = on THEN {} ELSE {change}
             open == server.open \cup changes
  <2>2. /\ flight[i].op = op /\ flight' = Nodes!Served(flight, i, "ok", {})
        /\ server' = [server EXCEPT !.open = open]
        /\ UNCHANGED <<view, past>>
    BY <2>1 DEF Nodes!Setting, Nodes!Waiting
  <2>3. flight[i].arg \in Names
    BY <1>1, <2>2 DEF NodesAsk
  <2>4. open \in SUBSET [name : Names, on : BOOLEAN]
    BY <1>1, <2>3 DEF NodesServer
  <2> HIDE DEF open
  <2>5. /\ NodesServer(server') /\ server'.blacklist = server.blacklist
        /\ server'.heartbeat = server.heartbeat /\ server'.tasks = server.tasks
        /\ server'.operators = server.operators
    BY <1>1, <2>2, <2>4 DEF NodesServer
  <2> QED
    BY <1>6, <2>2, <2>5
<1>8. CASE Nodes!ServeTask(i)
  <2>1. /\ flight[i].op = "task" /\ flight' = Nodes!Served(flight, i, "ok", {})
        /\ server' = [server EXCEPT !.tasks = @ + 1]
        /\ UNCHANGED <<view, past>>
    BY <1>8 DEF Nodes!ServeTask, Nodes!Waiting
  <2>2. /\ NodesServer(server') /\ server'.blacklist = server.blacklist
        /\ server'.heartbeat = server.heartbeat /\ server'.tasks = server.tasks + 1
        /\ server'.operators = server.operators
    BY <1>1, <2>1 DEF NodesServer
  <2> QED
    BY <1>6, <2>1, <2>2
<1>9. CASE Nodes!Fail(i)
  <2>1. /\ flight' = Nodes!Served(flight, i, "throws", {})
        /\ past' = [past EXCEPT !.faults = @ + 1] /\ UNCHANGED <<server, view>>
    BY <1>9 DEF Nodes!Fail
  <2>2. /\ NodesPast(past') /\ past'.stale = past.stale /\ past'.added = past.added
        /\ past'.asked = past.asked /\ past'.overlap = past.overlap
    BY <1>1, <2>1 DEF NodesPast
  <2>3. NodesAsk(flight[i].op, flight[i].arg, "throws", {}, server.tasks)
    BY <1>1 DEF NodesAsk
  <2> QED
    BY <1>1, <1>3, <2>1, <2>2, <2>3, NodesAnswered
<1> QED
  BY <1>4, <1>5, <1>7, <1>8, <1>9

\* A commit overtakes the loads of operators.
LEMMA NodesCommits ==
  ASSUME NodesInv, NEW change \in server.open, Nodes!Commit(change)
  PROVE  NodesInv'
<1> DEFINE operators == (server.operators \ {change.name})
                        \cup IF change.on THEN {change.name} ELSE {}
           open == server.open \ {change}
           stale == F!StaleAfterCommit(past.stale, flight, {"grant", "revoke"}, {"operators"})
           gs == F!Overtaken(flight, {"operators"})
           at == [k \in DOMAIN flight |-> k]
<1>1. /\ NodesServer(server) /\ NodesPast(past) /\ NodesView(view, server.tasks)
      /\ NodesCore(flight, server, past) /\ NodesTracks(flight, server, view, past)
      /\ flight \in Seq(NodesRequests)
  BY DEF NodesInv, NodesCore, NodesFlight
<1>2. /\ server' = [server EXCEPT !.open = open, !.operators = operators]
      /\ flight' = gs /\ past' = [past EXCEPT !.stale = stale] /\ UNCHANGED view
  BY NodesFetch DEF Nodes!Commit
<1>3. operators \in SUBSET Names /\ open \in SUBSET [name : Names, on : BOOLEAN]
  <2>1. change.name \in Names
    BY <1>1 DEF NodesServer
  <2> QED
    BY <1>1, <2>1 DEF NodesServer
<1>4. stale \in SUBSET Nodes!Lists /\ \A list \in past.stale : list \in stale
  BY <1>1 DEF F!StaleAfterCommit, NodesPast, Nodes!Lists
<1> HIDE DEF operators, open
<1>5. /\ NodesServer(server') /\ server'.blacklist = server.blacklist
      /\ server'.operators = operators /\ server'.tasks = server.tasks
      /\ server'.heartbeat = server.heartbeat
  BY <1>1, <1>2, <1>3 DEF NodesServer
<1>6. /\ NodesPast(past') /\ past'.stale = stale /\ past'.added = past.added
      /\ past'.asked = past.asked /\ past'.overlap = past.overlap
  <2> HIDE DEF stale
  <2> QED
    BY <1>1, <1>2, <1>4 DEF NodesPast
<1>7. NodesTracks(flight', server', view, past')
  <2>1. Follow(gs, "operators", {"grant", "revoke"}, operators, view.shown.operators, past')
    BY <1>1, <1>6, OvertakenTracks DEF NodesTracks, Follow, NodesRequests
  <2>2. ASSUME NEW list \in Nodes!Lists \ {"operators"}, NEW changes, NEW now, NEW shown,
               Follow(flight, list, changes, now, shown, past)
        PROVE  Follow(gs, list, changes, now, shown, past')
    <3>1. list \notin {"operators"} /\ (list \in past.stale => list \in stale)
      BY <1>4
    <3> HIDE DEF stale
    <3> QED
      BY <1>1, <1>6, <2>2, <3>1, OvertakenOthers DEF Follow, NodesRequests
  <2>3. "blacklist" \in Nodes!Lists \ {"operators"} /\ "tasks" \in Nodes!Lists \ {"operators"}
    BY DEF Nodes!Lists
  <2> HIDE DEF gs
  <2> QED
    BY <1>1, <1>2, <1>5, <1>6, <2>1, <2>2, <2>3 DEF NodesTracks
<1>8. NodesCore(flight', server', past')
  <2>1. gs \in Seq(NodesRequests) /\ DOMAIN gs = DOMAIN flight
        /\ \A j \in DOMAIN flight : Alike(gs[j], flight[j])
    BY <1>1, OvertakenFacts DEF NodesRequests
  <2> HIDE DEF gs
  <2>2. \A k \in DOMAIN gs : at[k] = k
    BY <2>1
  <2> HIDE DEF at
  <2>3. NodesCore(gs, server, past)
    BY <1>1, <2>1, <2>2, NodesFewer
  <2> QED
    BY <1>2, <1>5, <1>6, <2>3, NodesKept
<1> QED
  BY <1>1, <1>2, <1>5, <1>6, <1>7, <1>8 DEF NodesInv

\* A handler loads its list again, or leaves it outdated.
LEMMA NodesFollowed ==
  ASSUME NEW fs, NEW s, NEW v, NEW p, NodesFlight(fs, s.tasks), NodesTracks(fs, s, v, p),
         NEW i \in DOMAIN fs, NEW list, NEW changes,
         \/ list = "blacklist" /\ changes = {"add", "remove"}
         \/ list = "operators" /\ changes = {"grant", "revoke"}
         \/ list = "tasks" /\ changes = {"task"},
         fs[i].op \in changes
  PROVE  /\ NodesTracks(Append(Nodes!Handled(fs, i), Nodes!Load(list)), s, v, p)
         /\ \A q : q.stale = p.stale \cup {list} /\ (p.overlap => q.overlap) =>
              NodesTracks(Nodes!Outdated(Nodes!Handled(fs, i), {list}), s, v, q)
<1>1. /\ fs \in Seq(NodesRequests) /\ {} \in NodesData /\ None \in NodesArgs
      /\ Nodes!Lists \subseteq NodesOps /\ list \in Nodes!Lists
  BY FS_EmptySet DEF NodesFlight, NodesData, Blacklists, NodesArgs, NodesOps, Nodes!Lists
<1> DEFINE gs == Append(F!Handled(fs, i), F!Request(list, None))
           hs == F!Outdated(F!Handled(fs, i), {list})
<1>2. ASSUME NEW other \in Nodes!Lists, NEW mine, NEW now, NEW shown,
             Follow(fs, other, mine, now, shown, p), other \notin mine,
             other # list => fs[i].op # other /\ fs[i].op \notin mine
      PROVE  /\ Follow(gs, other, mine, now, shown, p)
             /\ \A q : q.stale = p.stale \cup {list} => Follow(hs, other, mine, now, shown, q)
  <2>1. Follow(gs, other, mine, now, shown, p)
    BY <1>1, <1>2, FollowedTracks DEF Follow, NodesRequests
  <2>2. ASSUME NEW q, q.stale = p.stale \cup {list}
        PROVE  Follow(hs, other, mine, now, shown, q)
    BY <1>1, <1>2, <2>2, MissedTracks DEF Follow, NodesRequests
  <2> QED
    BY <2>1, <2>2
<1>3. gs = Append(Nodes!Handled(fs, i), Nodes!Load(list))
      /\ hs = Nodes!Outdated(Nodes!Handled(fs, i), {list})
  BY NodesFetch DEF Nodes!Load
<1> HIDE DEF gs, hs
<1>4. /\ "blacklist" \in Nodes!Lists /\ "operators" \in Nodes!Lists /\ "tasks" \in Nodes!Lists
      /\ "blacklist" \notin {"add", "remove"} /\ "operators" \notin {"grant", "revoke"}
      /\ "tasks" \notin {"task"}
  BY DEF Nodes!Lists
<1>5. ~p.overlap =>
        /\ Follow(gs, "blacklist", {"add", "remove"}, s.blacklist, v.shown.blacklist, p)
        /\ \A q : q.stale = p.stale \cup {list} =>
             Follow(hs, "blacklist", {"add", "remove"}, s.blacklist, v.shown.blacklist, q)
  <2>1. "blacklist" # list => fs[i].op # "blacklist" /\ fs[i].op \notin {"add", "remove"}
    OBVIOUS
  <2> QED
    BY <1>2, <1>4, <2>1 DEF NodesTracks
<1>6. /\ Follow(gs, "operators", {"grant", "revoke"}, s.operators, v.shown.operators, p)
      /\ \A q : q.stale = p.stale \cup {list} =>
           Follow(hs, "operators", {"grant", "revoke"}, s.operators, v.shown.operators, q)
  <2>1. "operators" # list => fs[i].op # "operators" /\ fs[i].op \notin {"grant", "revoke"}
    OBVIOUS
  <2> QED
    BY <1>2, <1>4, <2>1 DEF NodesTracks
<1>7. /\ Follow(gs, "tasks", {"task"}, s.tasks, v.shown.tasks, p)
      /\ \A q : q.stale = p.stale \cup {list} =>
           Follow(hs, "tasks", {"task"}, s.tasks, v.shown.tasks, q)
  <2>1. "tasks" # list => fs[i].op # "tasks" /\ fs[i].op \notin {"task"}
    OBVIOUS
  <2> QED
    BY <1>2, <1>4, <2>1 DEF NodesTracks
<1>8. NodesTracks(gs, s, v, p)
  BY <1>5, <1>6, <1>7 DEF NodesTracks
<1>9. \A q : q.stale = p.stale \cup {list} /\ (p.overlap => q.overlap) => NodesTracks(hs, s, v, q)
  BY <1>5, <1>6, <1>7 DEF NodesTracks
<1> QED
  BY <1>3, <1>8, <1>9

LEMMA NodesContinued ==
  ASSUME NodesInv, NEW i \in DOMAIN flight, NEW list, NEW changes,
         \/ list = "blacklist" /\ changes = {"add", "remove"}
         \/ list = "operators" /\ changes = {"grant", "revoke"}
         \/ list = "tasks" /\ changes = {"task"},
         flight[i].op \in changes, NEW v, Nodes!Continued(i, list, v),
         NodesView(v, server.tasks), v.shown = view.shown
  PROVE  NodesInv'
<1>1. /\ NodesServer(server) /\ NodesPast(past) /\ NodesView(view, server.tasks)
      /\ NodesCore(flight, server, past) /\ NodesFlight(flight, server.tasks)
      /\ NodesTracks(flight, server, view, past)
  BY DEF NodesInv, NodesCore
<1>2. list \in Nodes!Lists
  BY DEF Nodes!Lists
<1>3. NodesView(view', server.tasks) /\ view'.shown = view.shown /\ UNCHANGED server
  BY <1>1 DEF Nodes!Continued
<1>4. NodesCore(Nodes!Handled(flight, i), server, past)
  BY <1>1, <1>3, NodesHandled, NodesKept DEF NodesServer
<1>5. CASE flight[i].outcome = "throws"
  <2>1. /\ flight' = Nodes!Outdated(Nodes!Handled(flight, i), {list})
        /\ past' = [past EXCEPT !.stale = past.stale \cup {list}]
    BY <1>5 DEF Nodes!Continued
  <2>2. /\ NodesPast(past') /\ past'.stale = past.stale \cup {list} /\ past'.added = past.added
        /\ past'.asked = past.asked /\ past'.overlap = past.overlap
    BY <1>1, <1>2, <2>1 DEF NodesPast
  <2>3. NodesTracks(flight', server, view, past')
    BY <1>1, <2>1, <2>2, NodesFollowed
  <2>4. NodesTracks(flight', server', view', past')
    BY <1>3, <2>3, NodesSameTracks
  <2>5. NodesCore(flight', server, past)
    BY <1>4, <2>1, NodesOutdated
  <2>6. NodesCore(flight', server', past')
    BY <1>1, <1>3, <2>2, <2>5, NodesKept DEF NodesServer
  <2> QED
    BY <1>1, <1>3, <2>2, <2>4, <2>6 DEF NodesInv
<1>6. CASE flight[i].outcome # "throws"
  <2>1. /\ flight' = Append(Nodes!Handled(flight, i), Nodes!Load(list))
        /\ past' = [past EXCEPT !.stale = past.stale]
    BY <1>6 DEF Nodes!Continued
  <2>2. /\ NodesPast(past') /\ past'.stale = past.stale /\ past'.added = past.added
        /\ past'.asked = past.asked /\ past'.overlap = past.overlap
    BY <1>1, <2>1 DEF NodesPast
  <2>3. NodesTracks(flight', server, view, past)
    BY <1>1, <2>1, NodesFollowed
  <2>4. NodesTracks(flight', server', view', past')
    BY <1>3, <2>2, <2>3, NodesSameTracks
  <2>5. NodesCore(flight', server, past)
    <3>1. /\ list \in NodesOps /\ None \in NodesArgs /\ list # "remove"
          /\ NodesAsk(list, None, "none", {}, server.tasks)
      BY <1>2 DEF NodesOps, NodesArgs, NodesAsk, Nodes!Lists, Nodes!Edits
    <3> QED
      BY <1>4, <2>1, <3>1, NodesSent DEF Nodes!Load
  <2>6. NodesCore(flight', server', past')
    BY <1>1, <1>3, <2>2, <2>5, NodesKept DEF NodesServer
  <2> QED
    BY <1>1, <1>3, <2>2, <2>4, <2>6 DEF NodesInv
<1> QED
  BY <1>5, <1>6

\* The handlers of the changes.
LEMMA NodesHandles ==
  ASSUME NodesInv, NEW i \in DOMAIN flight,
         \/ Nodes!HandleBlacklist(i) \/ Nodes!HandleAddNodeOp(i)
         \/ Nodes!HandleRemoveNodeOp(i) \/ Nodes!HandleCreateTask(i)
  PROVE  NodesInv'
<1>1. NodesView(view, server.tasks)
  BY DEF NodesInv
<1>2. CASE Nodes!HandleBlacklist(i)
  BY <1>1, <1>2, NodesContinued DEF Nodes!HandleBlacklist, Nodes!Edits
<1>3. CASE Nodes!HandleAddNodeOp(i)
  <2>1. NodesView(Nodes!NoOperator(view), server.tasks)
        /\ Nodes!NoOperator(view).shown = view.shown
    BY <1>1 DEF NodesView, Nodes!NoOperator
  <2> QED
    BY <1>1, <1>3, <2>1, NodesContinued DEF Nodes!HandleAddNodeOp
<1>4. CASE Nodes!HandleRemoveNodeOp(i)
  BY <1>1, <1>4, NodesContinued DEF Nodes!HandleRemoveNodeOp
<1>5. CASE Nodes!HandleCreateTask(i)
  <2> DEFINE v == [view EXCEPT !.creating = FALSE,
                               !.dialog = IF @ = "task" THEN "none" ELSE @]
  <2>1. NodesView(v, server.tasks) /\ v.shown = view.shown
    BY <1>1 DEF NodesView
  <2>2. flight[i].op = "task" /\ Nodes!Continued(i, "tasks", v)
    BY <1>5 DEF Nodes!HandleCreateTask
  <2> HIDE DEF v
  <2> QED
    BY <2>1, <2>2, NodesContinued
<1> QED
  BY <1>2, <1>3, <1>4, <1>5

LEMMA NodesHandleList ==
  ASSUME NodesInv, NEW i \in DOMAIN flight, Nodes!HandleList(i)
  PROVE  NodesInv'
<1> DEFINE r == flight[i]
<1>1. /\ NodesServer(server) /\ NodesPast(past) /\ NodesView(view, server.tasks)
      /\ NodesCore(flight, server, past) /\ NodesTracks(flight, server, view, past)
      /\ flight \in Seq(NodesRequests)
      /\ NodesAsk(r.op, r.arg, r.outcome, r.data, server.tasks)
  BY DEF NodesInv, NodesCore, NodesFlight
<1>2. /\ r.op \in Nodes!Lists /\ flight' = F!Handled(flight, i) /\ UNCHANGED server
      /\ view' = IF r.outcome = "ok" THEN [view EXCEPT !.shown[r.op] = r.data] ELSE view
      /\ past' = [past EXCEPT !.stale = Nodes!StaleAfterLoad(past.stale, r)]
  BY NodesFetch DEF Nodes!HandleList
<1>3. /\ past'.stale = Nodes!StaleAfterLoad(past.stale, r) /\ past'.added = past.added
      /\ past'.asked = past.asked /\ past'.overlap = past.overlap
      /\ NodesPast(past')
  <2>1. Nodes!StaleAfterLoad(past.stale, r) \in SUBSET Nodes!Lists
    BY <1>1, <1>2 DEF NodesPast, Nodes!StaleAfterLoad
  <2> QED
    BY <1>1, <1>2, <2>1 DEF NodesPast
<1> HIDE DEF r
<1>4. /\ NodesView(view', server.tasks)
      /\ \A list \in Nodes!Lists \ {r.op} : view'.shown[list] = view.shown[list]
      /\ r.outcome = "ok" => view'.shown[r.op] = r.data
      /\ r.outcome # "ok" => view' = view
  <2>1. CASE r.outcome # "ok"
    BY <1>1, <1>2, <2>1
  <2>2. CASE r.outcome = "ok"
    <3> DEFINE shown == [view.shown EXCEPT ![r.op] = r.data]
    <3>1. view' = [view EXCEPT !.shown = shown]
      BY <1>2, <2>2
    <3>2. view.shown \in [blacklist : Blacklists, operators : SUBSET Names, tasks : 0..server.tasks]
      BY <1>1 DEF NodesView
    <3>3. /\ shown \in [blacklist : Blacklists, operators : SUBSET Names, tasks : 0..server.tasks]
          /\ \A list \in Nodes!Lists \ {r.op} : shown[list] = view.shown[list]
          /\ shown[r.op] = r.data
      <4>1. CASE r.op = "blacklist"
        <5>1. r.data \in Blacklists
          BY <1>1, <2>2, <4>1 DEF NodesAsk
        <5> QED
          BY <3>2, <4>1, <5>1 DEF Nodes!Lists
      <4>2. CASE r.op = "operators"
        <5>1. r.data \in SUBSET Names
          BY <1>1, <2>2, <4>2 DEF NodesAsk
        <5> QED
          BY <3>2, <4>2, <5>1 DEF Nodes!Lists
      <4>3. CASE r.op = "tasks"
        <5>1. r.data \in 0..server.tasks
          BY <1>1, <2>2, <4>3 DEF NodesAsk
        <5> QED
          BY <3>2, <4>3, <5>1 DEF Nodes!Lists
      <4> QED
        BY <1>2, <4>1, <4>2, <4>3 DEF Nodes!Lists
    <3> HIDE DEF shown
    <3> QED
      BY <1>1, <2>2, <3>1, <3>3 DEF NodesView
  <2> QED
    BY <2>1, <2>2
<1>5. NodesCore(flight', server', past')
  <2>1. NodesCore(flight, server, past')
    BY <1>1, <1>3, NodesKept DEF NodesServer
  <2> QED
    BY <1>2, <2>1, NodesHandled, NodesFetch
<1>6. ASSUME NEW list \in Nodes!Lists, NEW changes, NEW now,
             Follow(flight, list, changes, now, view.shown[list], past), list \notin changes,
             \A other \in Nodes!Lists : other \notin changes
      PROVE  Follow(flight', list, changes, now, view'.shown[list], past')
  <2>1. r.op = list => \/ list \in past'.stale
                       \/ /\ r.outcome = "ok" /\ ~r.late
                          /\ None = r.arg /\ view'.shown[list] = r.data
    BY <1>1, <1>3, <1>4 DEF Nodes!StaleAfterLoad, NodesAsk
  <2>2. r.op # list => view'.shown[list] = view.shown[list]
                       /\ (list \in past.stale => list \in past'.stale)
    BY <1>3, <1>4 DEF Nodes!StaleAfterLoad
  <2>3. r.op \notin changes
    BY <1>2, <1>6
  <2> QED
    BY <1>1, <1>2, <1>6, <2>1, <2>2, <2>3, HandledTracks DEF Follow, r, NodesRequests
<1>7. NodesTracks(flight', server', view', past')
  <2>1. /\ "blacklist" \in Nodes!Lists /\ "operators" \in Nodes!Lists /\ "tasks" \in Nodes!Lists
        /\ \A list \in Nodes!Lists :
             list \notin {"add", "remove"} /\ list \notin {"grant", "revoke"} /\ list \notin {"task"}
    BY DEF Nodes!Lists
  <2>2. /\ view.shown.blacklist = view.shown["blacklist"]
        /\ view.shown.operators = view.shown["operators"] /\ view.shown.tasks = view.shown["tasks"]
        /\ view'.shown.blacklist = view'.shown["blacklist"]
        /\ view'.shown.operators = view'.shown["operators"] /\ view'.shown.tasks = view'.shown["tasks"]
    OBVIOUS
  <2>3. ~past'.overlap => Follow(flight', "blacklist", {"add", "remove"}, server'.blacklist,
                                 view'.shown.blacklist, past')
    BY <1>1, <1>2, <1>3, <1>6, <2>1, <2>2 DEF NodesTracks
  <2>4. Follow(flight', "operators", {"grant", "revoke"}, server'.operators,
               view'.shown.operators, past')
    BY <1>1, <1>2, <1>6, <2>1, <2>2 DEF NodesTracks
  <2>5. Follow(flight', "tasks", {"task"}, server'.tasks, view'.shown.tasks, past')
    BY <1>1, <1>2, <1>6, <2>1, <2>2 DEF NodesTracks
  <2> QED
    BY <2>3, <2>4, <2>5 DEF NodesTracks
<1> QED
  BY <1>1, <1>2, <1>3, <1>4, <1>5, <1>7 DEF NodesInv

LEMMA NodesHandleSearch ==
  ASSUME NodesInv, NEW i \in DOMAIN flight, Nodes!HandleSearch(i)
  PROVE  NodesInv'
<1> DEFINE r == flight[i]
<1>1. /\ NodesServer(server) /\ NodesPast(past) /\ NodesView(view, server.tasks)
      /\ NodesCore(flight, server, past) /\ NodesTracks(flight, server, view, past)
      /\ flight \in Seq(NodesRequests)
      /\ NodesAsk(r.op, r.arg, r.outcome, r.data, server.tasks)
  BY DEF NodesInv, NodesCore, NodesFlight
<1>2. /\ r.op = "search" /\ flight' = F!Handled(flight, i) /\ UNCHANGED <<server, past>>
      /\ view' = IF r.outcome = "ok"
                 THEN [view EXCEPT !.found = r.data] ELSE view
  BY NodesFetch DEF Nodes!HandleSearch, Nodes!Answers
<1>3. NodesView(view', server.tasks) /\ view'.shown = view.shown
  <2>1. r.outcome = "ok" => r.data \in SUBSET Names
    BY <1>1, <1>2 DEF NodesAsk
  <2> HIDE DEF r
  <2> QED
    BY <1>1, <1>2, <2>1 DEF NodesView
<1>4. NodesCore(flight', server', past')
  <2>1. NodesCore(flight, server, past)
    BY <1>1, <1>3, NodesKept DEF NodesServer
  <2> QED
    BY <1>2, <2>1, NodesHandled, NodesFetch
<1>5. NodesTracks(flight', server, view, past)
  <2>1. ASSUME NEW list \in Nodes!Lists, NEW changes, NEW now, NEW shown,
               Follow(flight, list, changes, now, shown, past), list \notin changes,
               "search" \notin changes
        PROVE  Follow(flight', list, changes, now, shown, past)
    <3>1. list # "search"
      BY DEF Nodes!Lists
    <3> QED
      BY <1>1, <1>2, <2>1, <3>1, HandledTracks DEF Follow, NodesRequests
  <2> HIDE DEF r
  <2>2. /\ "blacklist" \in Nodes!Lists /\ "operators" \in Nodes!Lists /\ "tasks" \in Nodes!Lists
    BY DEF Nodes!Lists
  <2>3. ~past.overlap => Follow(flight', "blacklist", {"add", "remove"}, server.blacklist,
                                view.shown.blacklist, past)
    BY <1>1, <2>1, <2>2 DEF NodesTracks
  <2>4. Follow(flight', "operators", {"grant", "revoke"}, server.operators,
               view.shown.operators, past)
    BY <1>1, <2>1, <2>2 DEF NodesTracks
  <2>5. Follow(flight', "tasks", {"task"}, server.tasks, view.shown.tasks, past)
    BY <1>1, <2>1, <2>2 DEF NodesTracks
  <2> QED
    BY <2>3, <2>4, <2>5 DEF NodesTracks
<1>6. NodesTracks(flight', server', view', past')
  BY <1>2, <1>3, <1>5, NodesSameTracks
<1> QED
  BY <1>1, <1>2, <1>3, <1>4, <1>6 DEF NodesInv

LEMMA NodesNext ==
  ASSUME NodesInv, Nodes!Next
  PROVE  NodesInv'
<1>1. CASE \E i \in DOMAIN flight :
             \/ Nodes!Reads(i) \/ Nodes!Writes(i) \/ Nodes!ServeList(i) \/ Nodes!ServeSearch(i)
             \/ Nodes!ServeGrant(i) \/ Nodes!ServeRevoke(i) \/ Nodes!ServeTask(i) \/ Nodes!Fail(i)
             \/ Nodes!HandleList(i) \/ Nodes!HandleSearch(i) \/ Nodes!HandleBlacklist(i)
             \/ Nodes!HandleAddNodeOp(i) \/ Nodes!HandleRemoveNodeOp(i)
             \/ Nodes!HandleCreateTask(i)
  BY <1>1, NodesReads, NodesWrites, NodesServes, NodesHandles, NodesHandleList, NodesHandleSearch
<1> QED
  BY <1>1, NodesPage, NodesHeartbeatReads, NodesHeartbeatWrites, NodesCommits DEF Nodes!Next

\* The properties of the page.
LEMMA NodesShows ==
  ASSUME NodesInv
  PROVE  Nodes!TypeOK /\ Nodes!ViewConverges /\ Nodes!RemovedAsAsked
<1>1. /\ NodesServer(server) /\ NodesView(view, server.tasks)
      /\ NodesCore(flight, server, past) /\ NodesTracks(flight, server, view, past)
      /\ flight \in Seq(NodesRequests)
  BY DEF NodesInv, NodesCore, NodesFlight
<1>2. Nodes!TypeOK
  <2>1. /\ server.blacklist \cup view.shown.blacklist \subseteq Nodes!Entries
        /\ server.operators \cup view.shown.operators \subseteq Names
        /\ view.shown.tasks \in 0..server.tasks
        /\ view.dialog \in {"none", "operator", "task"} /\ view.found \subseteq Names
        /\ view.selected \in Names \cup {None}
    BY <1>1 DEF NodesServer, NodesView, Blacklists
  <2>2. \A i \in DOMAIN flight : flight[i] \in NodesRequests
    BY <1>1
  <2>3. \A i \in DOMAIN flight : Nodes!IsRequest(flight[i], NodesOps)
    BY <2>2 DEF NodesRequests, Requests, Nodes!IsRequest, Nodes!Outcomes, F!Outcomes
  <2> QED
    BY <2>1, <2>3 DEF Nodes!TypeOK, NodesOps
<1>3. Nodes!ViewConverges
  <2> SUFFICES ASSUME flight = <<>>, NEW list \in Nodes!Lists \ past.stale
               PROVE  \/ list = "blacklist" /\ past.overlap
                      \/ view.shown[list] = server[list]
    BY DEF Nodes!ViewConverges
  <2>1. CASE list = "blacklist"
    BY <1>1, <2>1, TracksIdle, NowIs DEF NodesTracks, Follow
  <2>2. CASE list = "operators"
    BY <1>1, <2>2, TracksIdle, NowIs DEF NodesTracks, Follow
  <2>3. CASE list = "tasks"
    BY <1>1, <2>3, TracksIdle, NowIs DEF NodesTracks, Follow
  <2> QED
    BY <2>1, <2>2, <2>3 DEF Nodes!Lists
<1>4. Nodes!RemovedAsAsked
  BY <1>1 DEF NodesCore, StillListed, Nodes!RemovedAsAsked
<1> QED
  BY <1>2, <1>3, <1>4

-----------------------------------------------------------------------------
(* TemplatesPage: whose text is stored under a name. *)

TemplatesOps == {"templates", "preview", "edit", "post", "put", "delete"}

TemplatesChanges == {"post", "put", "delete"}

\* What a save sends: the text was written for the name.
Posts == {r \in [name : Names, text : Templates!Texts] : r.text.of = r.name}

TemplatesArgs == {None} \cup Names \cup Posts

\* What is stored under a name was written for it.
Stores ==
  {s \in UNION {[names -> Templates!Texts] : names \in SUBSET Names} :
     \A name \in DOMAIN s : s[name].of = name}

TemplatesData == {{}} \cup (SUBSET Names) \cup Templates!Texts \cup {{s} : s \in Stores}

TemplatesAll == Requests(TemplatesOps, TemplatesArgs, TemplatesData)

TemplatesAsk(r) ==
  /\ r.op = "templates" => r.arg = None /\ (r.outcome = "ok" => r.data \in SUBSET Names)
  /\ r.op \in {"preview", "edit"} =>
       r.arg \in Names /\ (r.outcome = "ok" => r.data \in Templates!Texts /\ r.data.of = r.arg)
  /\ r.op \in {"post", "put"} => r.arg \in Posts
  /\ r.op = "delete" => r.arg \in Names
  /\ r.op \in TemplatesChanges /\ r.outcome = "none" => \A s \in r.data : s \in Stores

TemplatesRequests == {r \in TemplatesAll : TemplatesAsk(r)}

LEMMA StoresFacts ==
  /\ \A s \in Stores :
       /\ DOMAIN s \in SUBSET Names
       /\ \A name \in DOMAIN s : s[name] \in Templates!Texts /\ s[name].of = name
  /\ \A names \in SUBSET Names : \A s \in [names -> Templates!Texts] :
       (\A name \in names : s[name].of = name) => s \in Stores
  BY DEF Stores

\* The text of an open dialog was written for the name that Save will send.
TemplatesView(v) ==
  /\ v \in [shown : SUBSET Names, open : SUBSET Templates!Dialogs,
            active : Names \cup {None}, text : Templates!Texts \cup {None}]
  /\ v.open \cap {"preview", "edit"} # {} => v.text \in Templates!Texts /\ v.text.of = v.active

TemplatesPast(p) == p \in [stale : SUBSET {"templates"}, steps : Nat, faults : {p.faults}]

TemplatesTracks(fs, s, v, p) ==
  Tracks(fs, "templates", TemplatesChanges, Now(None, DOMAIN s), None, v.shown, p.stale)

TemplatesInv ==
  /\ server \in Stores /\ TemplatesView(view) /\ TemplatesPast(past)
  /\ flight \in Seq(TemplatesRequests)
  /\ TemplatesTracks(flight, server, view, past)

LEMMA TemplatesFetch ==
  /\ \A fs, i : Templates!Handled(fs, i) = F!Handled(fs, i)
  /\ \A fs, i, o, d : Templates!Served(fs, i, o, d) = F!Served(fs, i, o, d)
  /\ \A op, a : Templates!Request(op, a) = F!Request(op, a)
  /\ \A fs, l : Templates!Outdated(fs, l) = F!Outdated(fs, l)
  /\ \A fs, l : Templates!Overtaken(fs, l) = F!Overtaken(fs, l)
  /\ \A st, fs, c, l : Templates!StaleAfterCommit(st, fs, c, l) = F!StaleAfterCommit(st, fs, c, l)
  BY DEF Templates!Handled, F!Handled, Templates!Served, F!Served,
         Templates!Request, F!Request, Templates!Outdated, F!Outdated,
         Templates!Overtaken, F!Overtaken, Templates!StaleAfterCommit, F!StaleAfterCommit,
         Templates!Reacting, F!Reacting

LEMMA TemplatesClosed ==
  /\ Closed(TemplatesRequests, TemplatesOps, TemplatesArgs, TemplatesData)
  /\ \A r \in TemplatesRequests :
       /\ r \in TemplatesAll /\ TemplatesAsk(r)
       /\ r.op \in TemplatesOps /\ r.outcome \in F!Outcomes /\ r.late \in BOOLEAN
  /\ {} \in TemplatesData /\ None \in TemplatesArgs
<1>1. \A r \in TemplatesAll : r.op \in TemplatesOps /\ r.outcome \in F!Outcomes /\ r.late \in BOOLEAN
  BY DEF TemplatesAll, Requests
<1>2. \A r \in TemplatesAll, q \in TemplatesRequests : Alike(r, q) => r \in TemplatesRequests
  BY DEF TemplatesRequests, TemplatesAsk, Alike
<1> QED
  BY <1>1, <1>2 DEF Closed, TemplatesRequests, TemplatesAll, TemplatesData, TemplatesArgs

\* What holds of the request with number i.
LEMMA TemplatesFacts ==
  ASSUME TemplatesInv
  PROVE  /\ flight \in Seq(TemplatesAll)
         /\ \A i \in DOMAIN flight : /\ flight[i] \in TemplatesRequests /\ TemplatesAsk(flight[i])
                                     /\ flight[i].op \in TemplatesOps
<1>1. flight \in Seq(TemplatesRequests) /\ TemplatesRequests \subseteq TemplatesAll
  BY DEF TemplatesInv, TemplatesRequests
<1>2. \A i \in DOMAIN flight : flight[i] \in TemplatesRequests
  BY <1>1
<1> QED
  BY <1>1, <1>2, TemplatesClosed

LEMMA TemplatesAsked ==
  ASSUME TemplatesInv, NEW op \in TemplatesOps, NEW arg \in TemplatesArgs, Templates!Ask(op, arg),
         \A r \in TemplatesAll :
           r.op = op /\ r.arg = arg /\ r.outcome = "none" /\ r.data = {} => TemplatesAsk(r)
  PROVE  TemplatesInv'
<1>1. /\ flight' = Append(flight, F!Request(op, arg)) /\ UNCHANGED <<server, view>>
      /\ past' = [past EXCEPT !.steps = past.steps + 1]
  BY TemplatesFetch DEF Templates!Ask
<1>2. TemplatesPast(past') /\ past'.stale = past.stale
  BY <1>1 DEF TemplatesInv, TemplatesPast
<1>3. flight' \in Seq(TemplatesRequests)
  BY <1>1, SentIn, TemplatesClosed DEF TemplatesInv, TemplatesRequests, TemplatesAll
<1>4. TemplatesTracks(flight', server, view, past)
  BY <1>1, SentTracks, TemplatesClosed, TemplatesFacts DEF TemplatesInv, TemplatesTracks, TemplatesAll
<1> QED
  BY <1>1, <1>2, <1>3, <1>4 DEF TemplatesInv, TemplatesTracks

\* The dialogs.
LEMMA TemplatesQuiet ==
  ASSUME TemplatesInv, TemplatesView(view'), view'.shown = view.shown,
         UNCHANGED <<server, flight, past>>
  PROVE  TemplatesInv'
  BY DEF TemplatesInv, TemplatesTracks

LEMMA TemplatesPage ==
  ASSUME TemplatesInv,
         \/ Templates!OpenCreate \/ Templates!Save
         \/ \E dialog \in Templates!Dialogs : Templates!Close(dialog)
         \/ \E name \in Names : Templates!Create(name) \/ Templates!Preview(name)
                                \/ Templates!Edit(name) \/ Templates!Delete(name)
  PROVE  TemplatesInv'
<1>1. TemplatesView(view) /\ TemplatesPast(past)
  BY DEF TemplatesInv
<1>2. CASE Templates!OpenCreate
  <2>1. view' = [view EXCEPT !.open = {"create"}] /\ UNCHANGED <<server, flight, past>>
    BY <1>2 DEF Templates!OpenCreate
  <2>2. TemplatesView(view') /\ view'.shown = view.shown
    BY <1>1, <2>1 DEF TemplatesView, Templates!Dialogs
  <2> QED
    BY <2>1, <2>2, TemplatesQuiet
<1>3. CASE \E dialog \in Templates!Dialogs : Templates!Close(dialog)
  <2>1. PICK dialog \in Templates!Dialogs : Templates!Close(dialog)
    BY <1>3
  <2>2. view' = [view EXCEPT !.open = view.open \ {dialog}] /\ UNCHANGED <<server, flight, past>>
    BY <2>1 DEF Templates!Close
  <2>3. TemplatesView(view') /\ view'.shown = view.shown
    BY <1>1, <2>2 DEF TemplatesView
  <2> QED
    BY <2>2, <2>3, TemplatesQuiet
<1>4. ASSUME NEW name \in Names, past.steps < MaxSteps
      PROVE  LET arg == [name |-> name, text |-> Templates!Typed(name)]
             IN arg \in Posts /\ arg \in TemplatesArgs
  <2>1. past.steps + 1 \in 0..MaxSteps
    BY <1>1, <1>4, BoundsAssumption DEF TemplatesPast
  <2>2. Templates!Typed(name) \in Templates!Texts /\ Templates!Typed(name).of = name
    BY <2>1 DEF Templates!Typed, Templates!Texts
  <2> HIDE DEF Templates!Typed
  <2>3. [name |-> name, text |-> Templates!Typed(name)] \in [name : Names, text : Templates!Texts]
    BY <2>2
  <2> QED
    BY <2>2, <2>3 DEF Posts, TemplatesArgs
<1>5. CASE Templates!Save
  <2> DEFINE arg == [name |-> view.active, text |-> Templates!Typed(view.text.of)]
  <2>1. "edit" \in view.open /\ Templates!Ask("put", arg) /\ past.steps < MaxSteps
    BY <1>5 DEF Templates!Save, Templates!Ask
  <2>2. view.text.of = view.active /\ view.active \in Names
    BY <1>1, <2>1 DEF TemplatesView, Templates!Texts
  <2>3. arg \in Posts /\ arg \in TemplatesArgs
    BY <1>4, <2>1, <2>2
  <2>4. \A r \in TemplatesAll :
          r.op = "put" /\ r.arg = arg /\ r.outcome = "none" /\ r.data = {} => TemplatesAsk(r)
    BY <2>3 DEF TemplatesAsk
  <2> HIDE DEF arg
  <2> QED
    BY <2>1, <2>3, <2>4, TemplatesAsked DEF TemplatesOps
<1>6. ASSUME NEW name \in Names, Templates!Create(name)
      PROVE  TemplatesInv'
  <2> DEFINE arg == [name |-> name, text |-> Templates!Typed(name)]
  <2>1. Templates!Ask("post", arg) /\ past.steps < MaxSteps
    BY <1>6 DEF Templates!Create, Templates!Ask
  <2>2. arg \in Posts /\ arg \in TemplatesArgs
    BY <1>4, <2>1
  <2>3. \A r \in TemplatesAll :
          r.op = "post" /\ r.arg = arg /\ r.outcome = "none" /\ r.data = {} => TemplatesAsk(r)
    BY <2>2 DEF TemplatesAsk
  <2> HIDE DEF arg
  <2> QED
    BY <2>1, <2>2, <2>3, TemplatesAsked DEF TemplatesOps
<1>7. ASSUME NEW name \in Names, NEW op \in {"preview", "edit", "delete"}, Templates!Ask(op, name)
      PROVE  TemplatesInv'
  <2>1. op \in TemplatesOps /\ name \in TemplatesArgs
    BY DEF TemplatesOps, TemplatesArgs
  <2>2. \A r \in TemplatesAll :
          r.op = op /\ r.arg = name /\ r.outcome = "none" /\ r.data = {} => TemplatesAsk(r)
    BY DEF TemplatesAsk
  <2> QED
    BY <1>7, <2>1, <2>2, TemplatesAsked
<1> QED
  BY <1>2, <1>3, <1>5, <1>6, <1>7 DEF Templates!Preview, Templates!Edit, Templates!Delete

\* A request was served, or failed.
LEMMA TemplatesAnswered ==
  ASSUME TemplatesInv, NEW i \in DOMAIN flight, NEW outcome \in F!Outcomes,
         NEW data \in TemplatesData, flight' = Templates!Served(flight, i, outcome, data),
         UNCHANGED view, server' \in Stores, TemplatesPast(past'), past'.stale = past.stale,
         flight[i].op = "templates" /\ outcome = "ok" => data = DOMAIN server,
         flight[i].op \in {"preview", "edit"} /\ outcome = "ok" =>
           data \in Templates!Texts /\ data.of = flight[i].arg,
         flight[i].op \in TemplatesChanges => outcome \in {"ok", "throws"} \/ flight[i].outcome = "none",
         flight[i].op \in TemplatesChanges /\ outcome = "none" => \A s \in data : s \in Stores,
         DOMAIN server' = DOMAIN server \/ (flight[i].op \in TemplatesChanges /\ outcome = "ok")
  PROVE  TemplatesInv'
<1>1. /\ flight' = F!Served(flight, i, outcome, data) /\ outcome \in F!Outcomes
      /\ flight \in Seq(TemplatesRequests) /\ TemplatesAsk(flight[i])
      /\ TemplatesTracks(flight, server, view, past) /\ DOMAIN server \subseteq Names
  BY TemplatesFetch, TemplatesFacts, StoresFacts DEF TemplatesInv
<1>2. flight' \in Seq(TemplatesRequests)
  <2>1. \A r \in TemplatesAll :
          r.op = flight[i].op /\ r.arg = flight[i].arg /\ r.outcome = outcome /\ r.data = data =>
            r \in TemplatesRequests
    BY <1>1 DEF TemplatesRequests, TemplatesAsk
  <2> QED
    BY <1>1, <2>1, ServedIn, TemplatesClosed DEF TemplatesAll
<1>3. TemplatesTracks(flight', server', view, past)
  <2>1. Now(None, DOMAIN server') = Now(None, DOMAIN server)
        \/ (flight[i].op \in TemplatesChanges /\ outcome \in {"ok", "throws"})
    OBVIOUS
  <2>2. flight[i].op = "templates" => outcome # "ok" \/ data = Now(None, DOMAIN server)[flight[i].arg]
    BY <1>1, NowIs DEF TemplatesAsk
  <2>3. "templates" \notin TemplatesChanges
    BY DEF TemplatesChanges
  <2>4. Tracks(flight, "templates", TemplatesChanges, Now(None, DOMAIN server), None, view.shown,
               past.stale)
    BY <1>1 DEF TemplatesTracks
  <2>5. flight[i].op \in TemplatesChanges => outcome \in {"ok", "throws"} \/ flight[i].outcome = "none"
    OBVIOUS
  <2> QED
    BY <1>1, <2>1, <2>2, <2>3, <2>4, <2>5, ServedTracks, TemplatesFacts DEF TemplatesTracks, TemplatesAll
<1> QED
  BY <1>2, <1>3 DEF TemplatesInv, TemplatesTracks

\* What a thread of the historian writes.
LEMMA TemplatesWritten ==
  ASSUME TemplatesInv, NEW i \in Templates!Threads
  PROVE  /\ i \in DOMAIN flight /\ Templates!Written(i) \in Stores
         /\ flight[i].op \in TemplatesChanges /\ flight[i].outcome = "none"
<1> DEFINE r == flight[i]
           s == CHOOSE q \in r.data : TRUE
<1>1. /\ i \in DOMAIN flight /\ r.op \in TemplatesChanges /\ r.outcome = "none" /\ r.data # {}
      /\ TemplatesAsk(r)
  BY TemplatesFacts DEF Templates!Threads, Templates!Changes, TemplatesChanges
<1>2. s \in Stores
  <2>1. s \in r.data
    BY <1>1
  <2> HIDE DEF s
  <2> QED
    BY <1>1, <2>1 DEF TemplatesAsk
<1>3. /\ DOMAIN s \in SUBSET Names
      /\ \A name \in DOMAIN s : s[name] \in Templates!Texts /\ s[name].of = name
  BY <1>2, StoresFacts
<1>4. Templates!Written(i) = IF r.op = "delete" THEN Templates!AfterDelete(r.arg, s)
                             ELSE Templates!AfterStore(r.arg, s)
  BY DEF Templates!Written
<1> HIDE DEF s
<1>5. CASE r.op = "delete"
  <2> DEFINE names == DOMAIN s \ {r.arg}
             after == [n \in names |-> s[n]]
  <2>1. after \in [names -> Templates!Texts] /\ \A n \in names : after[n].of = n
    BY <1>3
  <2>2. after \in Stores
    BY <1>3, <2>1, StoresFacts
  <2> QED
    BY <1>1, <1>4, <1>5, <2>2 DEF Templates!AfterDelete
<1>6. CASE r.op # "delete"
  <2> DEFINE names == DOMAIN s \cup {r.arg.name}
             after == [n \in names |-> IF n = r.arg.name THEN r.arg.text ELSE s[n]]
  <2>1. r.arg.name \in Names /\ r.arg.text \in Templates!Texts /\ r.arg.text.of = r.arg.name
    BY <1>1, <1>6 DEF TemplatesAsk, TemplatesChanges, Posts
  <2>2. /\ names \in SUBSET Names
        /\ after \in [names -> Templates!Texts] /\ \A n \in names : after[n].of = n
    BY <1>3, <2>1
  <2>3. after \in Stores
    BY <2>2, StoresFacts
  <2> QED
    BY <1>1, <1>4, <1>6, <2>3 DEF Templates!AfterStore
<1> QED
  BY <1>5, <1>6

LEMMA TemplatesServes ==
  ASSUME TemplatesInv, NEW i \in DOMAIN flight,
         \/ Templates!ServeList(i) \/ Templates!ServeGet(i) \/ Templates!Reads(i)
         \/ Templates!Writes(i) \/ Templates!Unreachable(i) \/ Templates!Fail(i)
  PROVE  TemplatesInv'
<1> DEFINE r == flight[i]
<1>1. server \in Stores /\ TemplatesPast(past) /\ TemplatesAsk(r)
  BY TemplatesFacts DEF TemplatesInv
<1>2. /\ {} \in TemplatesData /\ Templates!Texts \subseteq TemplatesData
      /\ SUBSET Names \subseteq TemplatesData /\ {server} \in TemplatesData
      /\ "none" \in F!Outcomes /\ "ok" \in F!Outcomes /\ "refused" \in F!Outcomes
      /\ "throws" \in F!Outcomes
  BY <1>1 DEF TemplatesData, F!Outcomes
<1>3. CASE Templates!ServeList(i)
  <2>1. /\ r.op = "templates" /\ flight' = Templates!Served(flight, i, "ok", DOMAIN server)
        /\ UNCHANGED <<server, view, past>>
    BY <1>3 DEF Templates!ServeList, Templates!Waiting, Templates!Answer, Templates!Stored
  <2>2. DOMAIN server \in TemplatesData
    BY <1>1, <1>2, StoresFacts
  <2> QED
    BY <1>1, <1>2, <2>1, <2>2, TemplatesAnswered DEF TemplatesChanges
<1>4. CASE Templates!ServeGet(i)
  <2>1. r.op \in {"preview", "edit"} /\ UNCHANGED <<server, view, past>>
    BY <1>4 DEF Templates!ServeGet, Templates!Waiting, Templates!Answer
  <2>2. CASE r.arg \in DOMAIN server
    <3>1. flight' = Templates!Served(flight, i, "ok", server[r.arg])
      BY <1>4, <2>2 DEF Templates!ServeGet, Templates!Answer, Templates!Stored
    <3>2. server[r.arg] \in Templates!Texts /\ server[r.arg].of = r.arg
      BY <1>1, <2>2, StoresFacts
    <3> QED
      BY <1>1, <1>2, <2>1, <3>1, <3>2, TemplatesAnswered DEF TemplatesChanges
  <2>3. CASE r.arg \notin DOMAIN server
    <3>1. flight' = Templates!Served(flight, i, "refused", {})
      BY <1>4, <2>3 DEF Templates!ServeGet, Templates!Answer, Templates!Stored
    <3> QED
      BY <1>1, <1>2, <2>1, <3>1, TemplatesAnswered DEF TemplatesChanges
  <2> QED
    BY <2>2, <2>3
<1>5. CASE Templates!Reads(i)
  <2>1. /\ r.op \in TemplatesChanges /\ r.outcome = "none" /\ UNCHANGED <<server, view, past>>
        /\ \/ flight' = Templates!Served(flight, i, "refused", {})
           \/ flight' = Templates!Served(flight, i, "none", {server})
    BY <1>5 DEF Templates!Reads, Templates!Answer, Templates!Changes, TemplatesChanges
  <2>2. r.op \notin {"templates", "preview", "edit"}
    BY <2>1 DEF TemplatesChanges
  <2>3. CASE flight' = Templates!Served(flight, i, "refused", {})
    BY <1>1, <1>2, <2>1, <2>2, <2>3, TemplatesAnswered
  <2>4. CASE flight' = Templates!Served(flight, i, "none", {server})
    BY <1>1, <1>2, <2>1, <2>2, <2>4, TemplatesAnswered
  <2> QED
    BY <2>1, <2>3, <2>4
<1>6. CASE Templates!Writes(i)
  <2>1. /\ i \in Templates!Threads /\ flight' = Templates!Served(flight, i, "ok", {})
        /\ server' = Templates!Written(i) /\ UNCHANGED <<view, past>>
    BY <1>6 DEF Templates!Writes, Templates!Answer
  <2>2. server' \in Stores /\ r.op \in TemplatesChanges
    BY <2>1, TemplatesWritten
  <2>3. r.op \notin {"templates", "preview", "edit"}
    BY <2>2 DEF TemplatesChanges
  <2> QED
    BY <1>1, <1>2, <2>1, <2>2, <2>3, TemplatesAnswered
<1>7. CASE Templates!Unreachable(i) \/ Templates!Fail(i)
  <2>1. PICK outcome \in {"refused", "throws"} :
          /\ flight' = Templates!Served(flight, i, outcome, {}) /\ UNCHANGED <<server, view>>
          /\ outcome = "refused" => r.outcome = "none"
          /\ past' = [past EXCEPT !.faults = past.faults + 1]
    BY <1>7 DEF Templates!Fail, Templates!Unreachable
  <2>2. TemplatesPast(past') /\ past'.stale = past.stale
    BY <1>1, <2>1 DEF TemplatesPast
  <2> QED
    BY <1>1, <1>2, <2>1, <2>2, TemplatesAnswered
<1> QED
  BY <1>3, <1>4, <1>5, <1>6, <1>7

\* The historian stored, and the lawyer said that it did not.
LEMMA TemplatesUnanswered ==
  ASSUME TemplatesInv, NEW i \in DOMAIN flight, Templates!WritesUnanswered(i)
  PROVE  TemplatesInv'
<1> DEFINE fs == F!Served(flight, i, "refused", {})
           stale == F!StaleAfterCommit(past.stale, flight, TemplatesChanges, {"templates"})
           now == Now(None, DOMAIN server)
<1>1. /\ TemplatesPast(past) /\ TemplatesAsk(flight[i])
      /\ flight \in Seq(TemplatesRequests) /\ flight \in Seq(TemplatesAll)
      /\ Tracks(flight, "templates", TemplatesChanges, now, None, view.shown, past.stale)
  BY TemplatesFacts DEF TemplatesInv, TemplatesTracks
<1>2. /\ i \in Templates!Threads /\ flight' = F!Overtaken(fs, {"templates"})
      /\ server' = Templates!Written(i) /\ UNCHANGED view
      /\ past' = [past EXCEPT !.faults = past.faults + 1, !.stale = stale]
  BY TemplatesFetch DEF Templates!WritesUnanswered, Templates!Changes, TemplatesChanges
<1>3. /\ server' \in Stores /\ flight[i].op \in TemplatesChanges /\ flight[i].outcome = "none"
  BY <1>2, TemplatesWritten
<1>4. /\ "refused" \in F!Outcomes /\ {} \in TemplatesData /\ "templates" \notin TemplatesChanges
      /\ flight[i].op # "templates"
  BY <1>3 DEF F!Outcomes, TemplatesData, TemplatesChanges
<1>5. fs \in Seq(TemplatesRequests) /\ fs \in Seq(TemplatesAll)
  <2>1. \A r \in TemplatesAll :
          r.op = flight[i].op /\ r.arg = flight[i].arg /\ r.outcome = "refused" /\ r.data = {} =>
            r \in TemplatesRequests
    BY <1>1 DEF TemplatesRequests, TemplatesAsk
  <2>2. fs \in Seq(TemplatesRequests)
    BY <1>1, <1>4, <2>1, ServedIn, TemplatesClosed DEF TemplatesAll
  <2> QED
    BY <1>1, <1>4, <2>2, ServedFacts DEF TemplatesAll
<1>6. Tracks(fs, "templates", TemplatesChanges, now, None, view.shown, past.stale)
  BY <1>1, <1>3, <1>4, ServedTracks DEF TemplatesAll
<1>7. stale = F!StaleAfterCommit(past.stale, fs, TemplatesChanges, {"templates"})
  <2>1. /\ DOMAIN fs = DOMAIN flight /\ fs[i].outcome = "refused"
        /\ \A j \in DOMAIN flight \ {i} : fs[j] = flight[j]
    BY <1>1, <1>4, ServedFacts DEF TemplatesAll
  <2> HIDE DEF fs
  <2>2. F!Reacting(fs, TemplatesChanges) <=> F!Reacting(flight, TemplatesChanges)
    BY <1>3, <2>1 DEF F!Reacting
  <2> QED
    BY <2>2 DEF F!StaleAfterCommit
<1> HIDE DEF fs, now
<1>8. flight' \in Seq(TemplatesRequests)
  BY <1>2, <1>5, OvertakenIn, TemplatesClosed
<1>9. Tracks(flight', "templates", TemplatesChanges, Now(None, DOMAIN server'), None, view.shown, stale)
  BY <1>2, <1>5, <1>6, <1>7, OvertakenTracks DEF TemplatesAll
<1>10. stale \in SUBSET {"templates"}
  BY <1>1 DEF F!StaleAfterCommit, TemplatesPast
<1> HIDE DEF stale
<1>11. TemplatesPast(past') /\ past'.stale = stale
  BY <1>1, <1>2, <1>10 DEF TemplatesPast
<1> QED
  BY <1>2, <1>3, <1>8, <1>9, <1>11 DEF TemplatesInv, TemplatesTracks

\* The list, previews and edits.
LEMMA TemplatesHandles ==
  ASSUME TemplatesInv, NEW i \in DOMAIN flight,
         \/ Templates!HandleList(i) \/ Templates!HandlePreview(i) \/ Templates!HandleEdit(i)
  PROVE  TemplatesInv'
<1> DEFINE r == flight[i]
<1>1. /\ TemplatesView(view) /\ TemplatesPast(past) /\ TemplatesAsk(r)
      /\ flight \in Seq(TemplatesRequests) /\ TemplatesTracks(flight, server, view, past)
  BY TemplatesFacts DEF TemplatesInv
<1>2. /\ flight' = F!Handled(flight, i) /\ UNCHANGED server
      /\ r.op \in {"templates", "preview", "edit"}
  BY TemplatesFetch DEF Templates!HandleList, Templates!HandlePreview, Templates!HandleEdit,
                        Templates!Fetched, Templates!Answers
<1>3. flight' \in Seq(TemplatesRequests)
  BY <1>1, <1>2, HandledIn, TemplatesClosed
<1>4. /\ TemplatesView(view') /\ TemplatesPast(past')
      /\ r.op = "templates" => \/ "templates" \in past'.stale
                               \/ r.outcome = "ok" /\ ~r.late /\ view'.shown = r.data
      /\ r.op # "templates" => view'.shown = view.shown /\ past' = past
  <2>1. CASE Templates!HandleList(i)
    <3>1. /\ r.op = "templates"
          /\ view' = IF r.outcome = "ok" THEN [view EXCEPT !.shown = r.data] ELSE view
          /\ past' = [past EXCEPT !.stale = Templates!StaleAfterLoad(past.stale, r)]
      BY <2>1 DEF Templates!HandleList, Templates!Answers
    <3>2. /\ TemplatesPast(past')
          /\ "templates" \in past'.stale \/ (r.outcome = "ok" /\ ~r.late)
      BY <1>1, <3>1 DEF TemplatesPast, Templates!StaleAfterLoad
    <3>3. CASE r.outcome = "ok"
      <4>1. r.data \in SUBSET Names
        BY <1>1, <3>1, <3>3 DEF TemplatesAsk
      <4> HIDE DEF r
      <4>2. TemplatesView(view') /\ view'.shown = r.data
        BY <1>1, <3>1, <3>3, <4>1 DEF TemplatesView
      <4> QED
        BY <3>1, <3>2, <4>2
    <3>4. CASE r.outcome # "ok"
      BY <1>1, <3>1, <3>2, <3>4
    <3> QED
      BY <3>3, <3>4
  <2>2. ASSUME NEW dialog \in {"preview", "edit"}, Templates!Fetched(i, dialog)
        PROVE  /\ TemplatesView(view') /\ TemplatesPast(past') /\ r.op # "templates"
               /\ view'.shown = view.shown /\ past' = past
    <3>1. /\ r.op = dialog /\ past' = past
          /\ view' = IF r.outcome = "ok" THEN Templates!Opened(i, dialog) ELSE view
      BY <2>2 DEF Templates!Fetched, Templates!Answers
    <3>2. CASE r.outcome = "ok"
      <4>1. r.arg \in Names /\ r.data \in Templates!Texts /\ r.data.of = r.arg
        BY <1>1, <3>1, <3>2 DEF TemplatesAsk
      <4>2. view' = [view EXCEPT !.active = r.arg, !.text = r.data,
                                 !.open = view.open \cup {dialog}]
        BY <3>1, <3>2 DEF Templates!Opened
      <4> HIDE DEF r
      <4>3. TemplatesView(view') /\ view'.shown = view.shown
        BY <1>1, <4>1, <4>2 DEF TemplatesView, Templates!Dialogs
      <4> QED
        BY <1>1, <3>1, <4>3
    <3>3. CASE r.outcome # "ok"
      BY <1>1, <3>1, <3>3
    <3> QED
      BY <3>2, <3>3
  <2> QED
    BY <2>1, <2>2 DEF Templates!HandlePreview, Templates!HandleEdit
<1>5. TemplatesTracks(flight', server', view', past')
  <2>1. r.op \notin TemplatesChanges /\ "templates" \notin TemplatesChanges
    BY <1>2 DEF TemplatesChanges
  <2>2. r.op = "templates" => r.arg = None
    BY <1>1 DEF TemplatesAsk
  <2> QED
    BY <1>1, <1>2, <1>4, <2>1, <2>2, HandledTracks, TemplatesFacts DEF TemplatesTracks, TemplatesAll
<1> QED
  BY <1>2, <1>3, <1>4, <1>5 DEF TemplatesInv

\* Creations, saves and deletions.
LEMMA TemplatesContinues ==
  ASSUME TemplatesInv, NEW i \in DOMAIN flight,
         \/ Templates!HandleCreate(i) \/ Templates!HandleSave(i) \/ Templates!HandleDelete(i)
  PROVE  TemplatesInv'
<1> DEFINE r == flight[i]
           rest == F!Handled(flight, i)
<1>1. /\ TemplatesView(view) /\ TemplatesPast(past) /\ UNCHANGED server
      /\ flight \in Seq(TemplatesRequests) /\ TemplatesTracks(flight, server, view, past)
      /\ rest \in Seq(TemplatesRequests)
      /\ flight \in Seq(TemplatesAll) /\ rest \in Seq(TemplatesAll)
  BY TemplatesFacts, HandledIn, HandledFacts, TemplatesClosed
     DEF TemplatesInv, TemplatesAll, Templates!HandleCreate, Templates!HandleSave,
         Templates!HandleDelete, Templates!Continued
<1>2. PICK v \in {view, [view EXCEPT !.open = view.open \ {"create"}],
                  [view EXCEPT !.open = view.open \ {"edit"}]} :
        r.op \in TemplatesChanges /\ Templates!Continued(i, v)
  BY DEF Templates!HandleCreate, Templates!HandleSave, Templates!HandleDelete, TemplatesChanges,
         Templates!Answers
<1>3. TemplatesView(view') /\ view'.shown = view.shown
  <2>1. TemplatesView(v) /\ v.shown = view.shown
    BY <1>1 DEF TemplatesView
  <2> QED
    BY <1>1, <1>2, <2>1 DEF Templates!Continued
<1>4. r.outcome = "throws" => "templates" \in past'.stale
  BY <1>1, <1>2 DEF TemplatesPast, Templates!Continued
<1>5. TemplatesPast(past') /\ (r.outcome # "throws" => past'.stale = past.stale)
  BY <1>1, <1>2 DEF TemplatesPast, Templates!Continued
<1>6. r.op # "templates" /\ "templates" \notin TemplatesChanges
  BY <1>2 DEF TemplatesChanges
<1> HIDE DEF r
<1>7. flight' \in Seq(TemplatesRequests) /\ TemplatesTracks(flight', server, view, past')
  <2>1. CASE r.outcome = "ok"
    <3>1. flight' = Append(rest, F!Request("templates", None))
      BY <1>2, <2>1, TemplatesFetch DEF Templates!Continued, Templates!Load, r
    <3>2. /\ "templates" \in TemplatesOps
          /\ \A q \in TemplatesAll : q.op = "templates" /\ q.arg = None /\ q.outcome = "none" =>
               q \in TemplatesRequests
      BY DEF TemplatesOps, TemplatesChanges, TemplatesRequests, TemplatesAsk
    <3> HIDE DEF rest
    <3> QED
      BY <1>1, <3>1, <3>2, SentIn, SentTracks, TemplatesClosed DEF TemplatesTracks, TemplatesAll
  <2>2. CASE r.outcome = "throws"
    <3>1. flight' = F!Outdated(rest, {"templates"})
      BY <1>2, <2>2, TemplatesFetch DEF Templates!Continued, r
    <3>2. "templates" \in past'.stale
      BY <1>4, <1>5, <2>2
    <3> HIDE DEF rest
    <3> QED
      BY <1>1, <3>1, <3>2, OutdatedIn, OutdatedTracks, TemplatesClosed DEF TemplatesTracks, TemplatesAll
  <2>3. CASE r.outcome \notin {"ok", "throws"}
    <3>1. flight' = rest
      BY <1>2, <2>3, TemplatesFetch DEF Templates!Continued, r
    <3>2. past'.stale = past.stale
      BY <1>5, <2>3
    <3> QED
      BY <1>1, <1>6, <2>3, <3>1, <3>2, HandledTracks DEF TemplatesTracks, TemplatesAll, r
  <2> QED
    BY <2>1, <2>2, <2>3
<1>8. TemplatesTracks(flight', server', view', past')
  BY <1>1, <1>3, <1>7 DEF TemplatesTracks
<1> QED
  BY <1>1, <1>3, <1>5, <1>7, <1>8 DEF TemplatesInv

LEMMA TemplatesInit == ASSUME Templates!Init PROVE TemplatesInv
<1>1. /\ server = [name \in Names |-> [of |-> name, rev |-> 0]]
      /\ view = [shown |-> {}, open |-> {}, active |-> None, text |-> None]
      /\ flight = <<F!Request("templates", None)>>
      /\ past = [stale |-> {}, steps |-> 0, faults |-> 0]
  BY TemplatesFetch DEF Templates!Init, Templates!Load
<1>2. server \in Stores
  <2>1. 0 \in 0..MaxSteps
    BY BoundsAssumption
  <2>2. server \in [Names -> Templates!Texts] /\ \A name \in Names : server[name].of = name
    BY <1>1, <2>1 DEF Templates!Texts
  <2> QED
    BY <2>2, StoresFacts
<1>3. TemplatesView(view) /\ TemplatesPast(past)
  BY <1>1 DEF TemplatesView, TemplatesPast
<1>4. flight = Append(<<>>, F!Request("templates", None))
  BY <1>1
<1>5. <<>> \in Seq(TemplatesRequests) /\ <<>> \in Seq(TemplatesAll)
  OBVIOUS
<1>6. /\ "templates" \in TemplatesOps
      /\ \A q \in TemplatesAll : q.op = "templates" /\ q.arg = None /\ q.outcome = "none" =>
           q \in TemplatesRequests
  BY DEF TemplatesOps, TemplatesChanges, TemplatesRequests, TemplatesAsk
<1>7. flight \in Seq(TemplatesRequests)
  BY <1>4, <1>5, <1>6, SentIn, TemplatesClosed DEF TemplatesAll
<1>8. TemplatesTracks(flight, server, view, past)
  BY <1>4, <1>5, <1>6, SentTracks, TemplatesClosed DEF TemplatesTracks, TemplatesAll
<1> QED
  BY <1>2, <1>3, <1>7, <1>8 DEF TemplatesInv

LEMMA TemplatesNext ==
  ASSUME TemplatesInv, Templates!Next
  PROVE  TemplatesInv'
  BY TemplatesPage, TemplatesServes, TemplatesUnanswered, TemplatesHandles, TemplatesContinues
  DEF Templates!Next

\* The properties of the page.
LEMMA TemplatesShows ==
  ASSUME TemplatesInv
  PROVE  Templates!TypeOK /\ Templates!ViewConverges /\ Templates!SavedUnderItsName
<1>1. server \in Stores /\ TemplatesView(view) /\ TemplatesTracks(flight, server, view, past)
  BY DEF TemplatesInv
<1>2. \A i \in DOMAIN flight : Templates!IsRequest(flight[i], TemplatesOps)
  BY TemplatesFacts, TemplatesClosed DEF Templates!IsRequest, Templates!Outcomes, F!Outcomes
<1>3. Templates!TypeOK
  <2>1. \A i \in DOMAIN flight : Templates!IsRequest(flight[i],
             {"templates", "preview", "edit", "post", "put", "delete"})
    BY <1>2 DEF TemplatesOps
  <2>2. view.open \cap {"preview", "edit"} # {} => view.active \in Names /\ view.text \in Templates!Texts
    BY <1>1 DEF TemplatesView, Templates!Texts
  <2>3. view.shown \subseteq Names /\ view.open \subseteq Templates!Dialogs
    BY <1>1 DEF TemplatesView
  <2> QED
    BY <1>1, <2>1, <2>2, <2>3, StoresFacts DEF Templates!TypeOK, Templates!Changes, Templates!Stored
<1>4. Templates!ViewConverges
  BY <1>1, TracksIdle, NowIs DEF Templates!ViewConverges, TemplatesTracks, Templates!Stored
<1>5. Templates!SavedUnderItsName
  BY <1>1, StoresFacts DEF Templates!SavedUnderItsName, Templates!Stored
<1> QED
  BY <1>3, <1>4, <1>5

-----------------------------------------------------------------------------
(* MailPage: settings, and what the inboxer knows of the relay. *)

MailOps == {"load", "save", "mail"}

MailArgs == {None} \cup Names

MailData == {{}} \cup Names

MailAll == Requests(MailOps, MailArgs, MailData)

MailAsk(r) == r.outcome # "refused" /\ (r.op = "save" => r.arg \in Names)

MailRequests == {r \in MailAll : MailAsk(r)}

MailoutRows == [status : {"queued", "sent", "deleted"}, copies : Nat]

\* A row that is queued was never known to be accepted; a copy of it that went out is one
\* whose answer was lost.
MailRow(row, unclear) ==
  /\ row \in MailoutRows
  /\ row.copies <= 1 + unclear
  /\ row.status = "queued" => row.copies <= unclear
  /\ row.status = "sent" => row.copies >= 1

MailRows(mailouts, retry, unclear) ==
  /\ \A k \in DOMAIN mailouts : MailRow(mailouts[k], unclear)
  /\ retry \subseteq {k \in DOMAIN mailouts : mailouts[k].status = "queued"}

MailServer(s, p) ==
  /\ s \in [settings : Names, mailouts : {s.mailouts}, retry : {s.retry}]
  /\ s.mailouts \in Seq(MailoutRows)
  /\ MailRows(s.mailouts, s.retry, p.unclear)

MailView(v) == v \in [settings : Names \cup {None}, saving : BOOLEAN]

MailPasts == [edited : BOOLEAN, lost : BOOLEAN, unclear : Nat, steps : Nat, faults : Nat]

MailPast(p) == p \in MailPasts /\ p.unclear <= p.faults /\ p.faults <= MaxFaults

\* The load comes before everything else, and saves come one at a time.
MailFlight(fs, settings, v, p) ==
  /\ fs \in Seq(MailRequests)
  /\ \A i \in DOMAIN fs : fs[i].op = "load" =>
       v.settings = None /\ (fs[i].outcome = "ok" => fs[i].data = settings)
  /\ \A i \in DOMAIN fs : fs[i].op = "save" =>
       /\ v.saving /\ v.settings # None
       /\ fs[i].outcome = "ok" => settings = fs[i].arg
       /\ fs[i].outcome = "throws" => p.lost
       /\ p.edited \/ v.settings = fs[i].arg
  /\ \A i, j \in DOMAIN fs : fs[i].op = fs[j].op /\ fs[i].op \in {"load", "save"} => i = j

MailSettings(fs, settings, v, p) ==
  \/ Sent(fs, "save") \/ v.settings = None \/ p.edited \/ p.lost
  \/ v.settings = settings

MailInv ==
  /\ MailServer(server, past) /\ MailView(view) /\ MailPast(past)
  /\ MailFlight(flight, server.settings, view, past)
  /\ MailSettings(flight, server.settings, view, past)

LEMMA MailFetch ==
  /\ \A fs, i : Mail!Handled(fs, i) = F!Handled(fs, i)
  /\ \A fs, i, o, d : Mail!Served(fs, i, o, d) = F!Served(fs, i, o, d)
  /\ \A op, a : Mail!Request(op, a) = F!Request(op, a)
  BY DEF Mail!Handled, F!Handled, Mail!Served, F!Served, Mail!Request, F!Request

LEMMA MailClosed ==
  /\ Closed(MailRequests, MailOps, MailArgs, MailData)
  /\ \A r \in MailRequests :
       /\ MailAsk(r) /\ r.op \in MailOps /\ r.outcome \in F!Outcomes /\ r.late \in BOOLEAN
  /\ {} \in MailData
<1>1. \A r \in MailAll : r.op \in MailOps /\ r.outcome \in F!Outcomes /\ r.late \in BOOLEAN
  BY DEF MailAll, Requests
<1>2. \A r \in MailAll, q \in MailRequests : Alike(r, q) => r \in MailRequests
  BY DEF MailRequests, MailAsk, Alike
<1> QED
  BY <1>1, <1>2 DEF Closed, MailRequests, MailAll, MailData

LEMMA MailFacts ==
  ASSUME MailInv
  PROVE  /\ flight \in Seq(MailRequests)
         /\ \A i \in DOMAIN flight : flight[i] \in MailRequests /\ MailAsk(flight[i])
<1>1. flight \in Seq(MailRequests)
  BY DEF MailInv, MailFlight
<1>2. \A i \in DOMAIN flight : flight[i] \in MailRequests
  BY <1>1
<1> QED
  BY <1>1, <1>2, MailClosed

\* The rows stay good when more answers were lost.
LEMMA MailRowsKept ==
  ASSUME NEW mailouts, NEW retry, NEW m \in Nat, NEW n \in Nat, MailRows(mailouts, retry, m), m <= n
  PROVE  MailRows(mailouts, retry, n)
<1>1. ASSUME NEW row, MailRow(row, m)
      PROVE  MailRow(row, n)
  <2>1. row.copies \in Nat
    BY <1>1 DEF MailRow, MailoutRows
  <2> QED
    BY <1>1, <2>1 DEF MailRow
<1> QED
  BY <1>1 DEF MailRows

\* A mail, or a save of what the form shows.
Sends(op, arg, v, p, w, q) ==
  /\ w.settings = v.settings /\ q.lost = p.lost
  /\ \/ op = "mail" /\ w = v /\ q.edited = p.edited
     \/ /\ op = "save" /\ arg \in Names /\ arg = v.settings /\ v.settings # None
        /\ ~v.saving /\ w.saving

LEMMA MailSent ==
  ASSUME NEW fs, NEW settings, NEW v, NEW p, MailFlight(fs, settings, v, p),
         NEW op \in {"save", "mail"}, NEW arg \in MailArgs, NEW w, NEW q,
         Sends(op, arg, v, p, w, q)
  PROVE  /\ MailFlight(Append(fs, Mail!Request(op, arg)), settings, w, q)
         /\ \A o : Sent(fs, o) \/ o = op => Sent(Append(fs, Mail!Request(op, arg)), o)
<1> DEFINE r == F!Request(op, arg)
           gs == Append(fs, r)
           n == Len(fs)
<1>1. /\ fs \in Seq(MailRequests) /\ n \in Nat /\ DOMAIN fs = 1..n
      /\ op \in MailOps
  BY DEF MailFlight, MailOps
<1>2. \A x \in MailAll : x.op = op /\ x.arg = arg /\ x.outcome = "none" => x \in MailRequests
  BY DEF MailRequests, MailAsk, Sends
<1>3. /\ gs \in Seq(MailRequests) /\ DOMAIN gs = 1..(n + 1) /\ (\A j \in DOMAIN fs : gs[j] = fs[j])
      /\ gs[n + 1] = r
  BY <1>1, <1>2, SentIn, MailClosed DEF MailAll
<1>4. r.op = op /\ r.arg = arg /\ r.outcome = "none"
  BY DEF F!Request
<1> HIDE DEF r, gs, n
<1>5. \A j \in DOMAIN gs : j \in DOMAIN fs \/ j = n + 1
  BY <1>1, <1>3
<1>6. op = "save" => \A j \in DOMAIN fs : fs[j].op # "save"
  BY DEF MailFlight, Sends
<1>7. \A j \in DOMAIN gs : gs[j].op = "load" =>
        w.settings = None /\ (gs[j].outcome = "ok" => gs[j].data = settings)
  BY <1>3, <1>4, <1>5 DEF MailFlight, Sends
<1>8. \A j \in DOMAIN gs : gs[j].op = "save" =>
        /\ w.saving /\ w.settings # None
        /\ gs[j].outcome = "ok" => settings = gs[j].arg
        /\ gs[j].outcome = "throws" => q.lost
        /\ q.edited \/ w.settings = gs[j].arg
  BY <1>3, <1>4, <1>5, <1>6 DEF MailFlight, Sends
<1>9. \A j, k \in DOMAIN gs : gs[j].op = gs[k].op /\ gs[j].op \in {"load", "save"} => j = k
  BY <1>3, <1>4, <1>5, <1>6 DEF MailFlight, Sends
<1>10. MailFlight(gs, settings, w, q)
  BY <1>3, <1>7, <1>8, <1>9 DEF MailFlight
<1>11. \A o : Sent(fs, o) \/ o = op => Sent(gs, o)
  <2>1. n + 1 \in DOMAIN gs /\ \A j \in DOMAIN fs : j \in DOMAIN gs
    BY <1>1, <1>3
  <2> QED
    BY <1>3, <1>4, <2>1 DEF Sent
<1> QED
  BY <1>10, <1>11, MailFetch DEF gs, r

\* A step of the administrator is counted.
LEMMA MailActed ==
  ASSUME MailPast(past), NEW e \in BOOLEAN,
         past' = [past EXCEPT !.steps = past.steps + 1, !.edited = e]
  PROVE  /\ MailPast(past') /\ past'.edited = e /\ past'.lost = past.lost
         /\ past'.unclear = past.unclear
<1>1. past \in MailPasts /\ past.steps + 1 \in Nat /\ past.unclear <= past.faults /\ past.faults <= MaxFaults
  BY DEF MailPast, MailPasts
<1>2. past' \in MailPasts
  BY <1>1 DEF MailPasts
<1>3. /\ past'.edited = e /\ past'.lost = past.lost
      /\ past'.unclear = past.unclear /\ past'.faults = past.faults
  BY <1>1 DEF MailPasts
<1> QED
  BY <1>1, <1>2, <1>3 DEF MailPast

\* The form and the buttons.
LEMMA MailPage ==
  ASSUME MailInv,
         \/ \E settings \in Names : Mail!Edit(settings)
         \/ Mail!Save \/ Mail!TestEmail
  PROVE  MailInv'
<1>1. /\ MailServer(server, past) /\ MailView(view) /\ MailPast(past)
      /\ MailFlight(flight, server.settings, view, past)
      /\ MailSettings(flight, server.settings, view, past)
  BY DEF MailInv
<1>2. CASE \E settings \in Names : Mail!Edit(settings)
  <2>1. PICK settings \in Names : Mail!Edit(settings)
    BY <1>2
  <2>2. /\ view.settings # None /\ view' = [view EXCEPT !.settings = settings]
        /\ past' = [past EXCEPT !.steps = past.steps + 1, !.edited = TRUE]
        /\ UNCHANGED <<server, flight>>
    BY <2>1 DEF Mail!Edit, Mail!ShowsForm, Mail!Acted
  <2>3. MailView(view') /\ view'.settings # None /\ view'.saving = view.saving
    BY <1>1, <2>2, NoneAssumption DEF MailView
  <2>4. /\ MailPast(past') /\ past'.edited /\ past'.lost = past.lost
        /\ past'.unclear = past.unclear
    BY <1>1, <2>2, MailActed
  <2>5. MailFlight(flight, server.settings, view', past')
    BY <1>1, <2>2, <2>3, <2>4 DEF MailFlight
  <2> QED
    BY <1>1, <2>2, <2>3, <2>4, <2>5 DEF MailInv, MailSettings, MailServer
<1>3. CASE Mail!Save
  <2>1. /\ view.settings # None /\ ~view.saving /\ view' = [view EXCEPT !.saving = TRUE]
        /\ flight' = Append(flight, Mail!Request("save", view.settings))
        /\ past' = [past EXCEPT !.steps = past.steps + 1, !.edited = FALSE] /\ UNCHANGED server
    BY <1>3 DEF Mail!Save, Mail!ShowsForm, Mail!Acted
  <2>2. /\ MailView(view') /\ view'.settings = view.settings /\ view'.saving
        /\ view.settings \in Names /\ view.settings \in MailArgs
    BY <1>1, <2>1 DEF MailView, MailArgs
  <2>3. /\ MailPast(past') /\ past'.edited \in BOOLEAN /\ past'.lost = past.lost
        /\ past'.unclear = past.unclear
    BY <1>1, <2>1, MailActed
  <2>4. MailFlight(flight', server.settings, view', past') /\ Sent(flight', "save")
    <3>1. MailFlight(flight, server.settings, view, past) /\ "save" \in {"save", "mail"}
      BY <1>1
    <3>2. Sends("save", view.settings, view, past, view', past')
      BY <2>1, <2>2, <2>3 DEF Sends
    <3> QED
      BY <2>1, <2>2, <3>1, <3>2, MailSent
  <2> QED
    BY <1>1, <2>1, <2>2, <2>3, <2>4 DEF MailInv, MailSettings, MailServer
<1>4. CASE Mail!TestEmail
  <2>1. /\ flight' = Append(flight, Mail!Request("mail", None)) /\ UNCHANGED <<server, view>>
        /\ past' = [past EXCEPT !.steps = past.steps + 1]
    BY <1>4 DEF Mail!TestEmail, Mail!Acted
  <2>2. /\ MailPast(past') /\ past'.edited \in BOOLEAN /\ past'.lost = past.lost
        /\ past'.unclear = past.unclear /\ past'.edited = past.edited
    BY <1>1, <2>1 DEF MailPast, MailPasts
  <2>3. /\ MailFlight(flight', server.settings, view, past')
        /\ Sent(flight, "save") => Sent(flight', "save")
    <3>1. /\ MailFlight(flight, server.settings, view, past) /\ "mail" \in {"save", "mail"}
          /\ None \in MailArgs
      BY <1>1 DEF MailArgs
    <3>2. Sends("mail", None, view, past, view, past')
      BY <2>2 DEF Sends
    <3> QED
      BY <2>1, <3>1, <3>2, MailSent
  <2> QED
    BY <1>1, <2>1, <2>2, <2>3 DEF MailInv, MailSettings, MailServer
<1> QED
  BY <1>2, <1>3, <1>4

\* A request was served, or failed.
LEMMA MailAnswered ==
  ASSUME MailInv, NEW i \in DOMAIN flight, NEW outcome \in {"ok", "throws"},
         NEW data \in MailData, flight' = Mail!Served(flight, i, outcome, data), UNCHANGED view,
         MailServer(server', past'), MailPast(past'), past.lost => past'.lost,
         past'.edited = past.edited,
         flight[i].op = "load" /\ outcome = "ok" => data = server.settings,
         IF flight[i].op = "save" /\ outcome = "ok" THEN server'.settings = flight[i].arg
         ELSE server'.settings = server.settings,
         flight[i].op = "save" /\ outcome = "throws" => past'.lost
  PROVE  MailInv'
<1>1. /\ flight' = F!Served(flight, i, outcome, data) /\ outcome \in F!Outcomes
      /\ flight \in Seq(MailRequests) /\ MailAsk(flight[i])
      /\ MailView(view) /\ MailFlight(flight, server.settings, view, past)
      /\ MailSettings(flight, server.settings, view, past)
  BY MailFetch, MailFacts DEF MailInv, F!Outcomes
<1>2. \A r \in MailAll :
        r.op = flight[i].op /\ r.arg = flight[i].arg /\ r.outcome = outcome /\ r.data = data =>
          r \in MailRequests
  BY <1>1 DEF MailRequests, MailAsk
<1>3. /\ flight' \in Seq(MailRequests) /\ DOMAIN flight' = DOMAIN flight
      /\ \A j \in DOMAIN flight \ {i} : flight'[j] = flight[j]
      /\ flight'[i].op = flight[i].op /\ flight'[i].arg = flight[i].arg
      /\ flight'[i].outcome = outcome /\ flight'[i].data = data
  BY <1>1, <1>2, ServedIn, MailClosed DEF MailAll
<1>4. \A j \in DOMAIN flight : flight'[j].op = flight[j].op /\ flight'[j].arg = flight[j].arg
  BY <1>3
<1>5. flight[i].op = "save" => \A j \in DOMAIN flight \ {i} : flight[j].op \notin {"load", "save"}
  BY <1>1 DEF MailFlight
<1>6. \A j \in DOMAIN flight' : flight'[j].op = "load" =>
        view.settings = None /\ (flight'[j].outcome = "ok" => flight'[j].data = server'.settings)
  <2>1. CASE flight[i].op = "save"
    BY <1>3, <1>5, <2>1
  <2>2. CASE flight[i].op # "save"
    BY <1>1, <1>3, <2>2 DEF MailFlight
  <2> QED
    BY <2>1, <2>2
<1>7. \A j \in DOMAIN flight' : flight'[j].op = "save" =>
        /\ view.saving /\ view.settings # None
        /\ flight'[j].outcome = "ok" => server'.settings = flight'[j].arg
        /\ flight'[j].outcome = "throws" => past'.lost
        /\ past'.edited \/ view.settings = flight'[j].arg
  <2>1. CASE flight[i].op = "save"
    BY <1>1, <1>3, <1>5, <2>1 DEF MailFlight
  <2>2. CASE flight[i].op # "save"
    BY <1>1, <1>3, <2>2 DEF MailFlight
  <2> QED
    BY <2>1, <2>2
<1>8. MailFlight(flight', server'.settings, view', past')
  <2>1. \A j, k \in DOMAIN flight' :
          flight'[j].op = flight'[k].op /\ flight'[j].op \in {"load", "save"} => j = k
    BY <1>1, <1>3, <1>4 DEF MailFlight
  <2> QED
    BY <1>3, <1>6, <1>7, <2>1 DEF MailFlight
<1>9. MailSettings(flight', server'.settings, view', past')
  <2>1. Sent(flight, "save") => Sent(flight', "save")
    BY <1>3, <1>4 DEF Sent
  <2>2. flight[i].op = "save" => Sent(flight', "save")
    BY <1>3 DEF Sent
  <2> QED
    BY <1>1, <2>1, <2>2 DEF MailSettings
<1> QED
  BY <1>1, <1>8, <1>9 DEF MailInv

\* What the inboxer may not know of a mail is counted.
LEMMA MailNoted ==
  ASSUME MailPast(past), NEW outcome \in Mail!Retried, Mail!Noting(outcome)
  PROVE  /\ MailPast(past') /\ past'.unclear = past.unclear + Mail!Unclear(outcome)
         /\ past'.edited = past.edited /\ past'.lost = past.lost
         /\ past'.unclear \in Nat /\ past.unclear <= past'.unclear /\ past.unclear \in Nat
         /\ outcome.copies \in Nat /\ Mail!Unclear(outcome) \in Nat /\ outcome.status \in {"sent", "queued"}
         /\ outcome.status = "queued" => outcome.copies = Mail!Unclear(outcome)
         /\ outcome.status = "sent" => outcome.copies = Mail!Unclear(outcome) + 1
<1> DEFINE n == Mail!Unclear(outcome)
<1>1. /\ outcome.copies \in 0..2 /\ outcome.status \in {"sent", "queued"}
      /\ outcome.status = "sent" => outcome.copies >= 1
  BY DEF Mail!Retried, Mail!Relayed
<1>2. /\ n \in Nat
      /\ outcome.status = "queued" => outcome.copies = n
      /\ outcome.status = "sent" => outcome.copies = n + 1
  BY <1>1 DEF Mail!Unclear
<1> HIDE DEF n
<1>3. /\ past.faults + n <= MaxFaults
      /\ past' = [past EXCEPT !.faults = past.faults + n, !.unclear = past.unclear + n]
  BY DEF Mail!Noting, n
<1>4. /\ past.unclear \in Nat /\ past.faults \in Nat /\ past.unclear <= past.faults
      /\ past \in MailPasts
  BY DEF MailPast, MailPasts
<1>5. /\ past'.unclear = past.unclear + n /\ past'.faults = past.faults + n
      /\ past'.edited = past.edited /\ past'.lost = past.lost
  BY <1>3, <1>4 DEF MailPasts
<1>6. MailPast(past')
  <2>1. past.unclear + n \in Nat /\ past.faults + n \in Nat /\ past.unclear + n <= past.faults + n
    BY <1>2, <1>4
  <2>2. past' \in MailPasts
    BY <1>3, <1>4, <2>1 DEF MailPasts
  <2> QED
    BY <1>3, <1>5, <2>1, <2>2 DEF MailPast
<1> QED
  BY <1>1, <1>2, <1>4, <1>5, <1>6 DEF n

\* The inboxer offers a mail to the relay.
LEMMA MailServeMail ==
  ASSUME MailInv, NEW i \in DOMAIN flight, NEW outcome \in Mail!Relayed, Mail!ServeMail(i, outcome)
  PROVE  MailInv'
<1>1. MailServer(server, past) /\ MailPast(past)
  BY DEF MailInv
<1>2. /\ flight[i].op = "mail" /\ flight' = Mail!Served(flight, i, "ok", {}) /\ UNCHANGED view
      /\ server' = [server EXCEPT !.mailouts = Append(server.mailouts, outcome)]
      /\ Mail!Noting(outcome) /\ outcome \in Mail!Retried
  BY DEF Mail!ServeMail, Mail!Waiting, Mail!Retried
<1>3. /\ MailPast(past') /\ past'.edited = past.edited /\ past'.lost = past.lost
      /\ past'.unclear \in Nat /\ past.unclear <= past'.unclear /\ past.unclear \in Nat
      /\ outcome.copies \in Nat /\ outcome.status \in {"sent", "queued"}
      /\ outcome.status = "queued" => outcome.copies <= past'.unclear
      /\ outcome.status = "sent" => outcome.copies <= past'.unclear + 1
  BY <1>1, <1>2, MailNoted DEF Mail!Unclear
<1>4. outcome \in MailoutRows /\ (outcome.status = "sent" => outcome.copies >= 1)
  BY DEF Mail!Relayed, MailoutRows
<1>5. MailRow(outcome, past'.unclear)
  BY <1>3, <1>4 DEF MailRow
<1>6. MailServer(server', past')
  <2> DEFINE rows == server.mailouts
             after == Append(rows, outcome)
  <2>1. /\ rows \in Seq(MailoutRows) /\ MailRows(rows, server.retry, past'.unclear)
    BY <1>1, <1>3, MailRowsKept DEF MailServer
  <2>2. /\ after \in Seq(MailoutRows) /\ DOMAIN after = 1..(Len(rows) + 1)
        /\ (\A k \in DOMAIN rows : after[k] = rows[k]) /\ after[Len(rows) + 1] = outcome
        /\ DOMAIN rows = 1..Len(rows) /\ Len(rows) \in Nat
    BY <1>4, <2>1
  <2> HIDE DEF rows, after
  <2>3. MailRows(after, server.retry, past'.unclear)
    BY <1>5, <2>1, <2>2 DEF MailRows
  <2>4. server' = [server EXCEPT !.mailouts = after]
    BY <1>2 DEF rows, after
  <2> QED
    BY <1>1, <2>2, <2>3, <2>4 DEF MailServer
<1>7. server'.settings = server.settings
  BY <1>1, <1>2 DEF MailServer
<1> QED
  BY <1>2, <1>3, <1>6, <1>7, MailAnswered, MailClosed

\* The settings, and what fails.
LEMMA MailServes ==
  ASSUME MailInv, NEW i \in DOMAIN flight,
         Mail!ServeSettings(i) \/ Mail!ServeSave(i) \/ Mail!Fail(i)
  PROVE  MailInv'
<1>1. MailServer(server, past) /\ MailPast(past) /\ MailAsk(flight[i]) /\ {} \in MailData
  BY MailFacts, MailClosed DEF MailInv
<1>2. CASE Mail!ServeSettings(i)
  <2>1. /\ flight[i].op = "load" /\ flight' = Mail!Served(flight, i, "ok", server.settings)
        /\ UNCHANGED <<server, view, past>>
    BY <1>2 DEF Mail!ServeSettings, Mail!Waiting
  <2>2. server.settings \in MailData
    BY <1>1 DEF MailServer, MailData
  <2> QED
    BY <1>1, <2>1, <2>2, MailAnswered
<1>3. CASE Mail!ServeSave(i)
  <2>1. /\ flight[i].op = "save" /\ flight' = Mail!Served(flight, i, "ok", {})
        /\ server' = [server EXCEPT !.settings = flight[i].arg] /\ UNCHANGED <<view, past>>
    BY <1>3 DEF Mail!ServeSave, Mail!Waiting
  <2>2. MailServer(server', past') /\ server'.settings = flight[i].arg
    BY <1>1, <2>1 DEF MailServer, MailAsk
  <2> QED
    BY <1>1, <2>1, <2>2, MailAnswered
<1>4. CASE Mail!Fail(i)
  <2>1. /\ past.faults < MaxFaults /\ flight' = Mail!Served(flight, i, "throws", {})
        /\ past' = [past EXCEPT !.faults = past.faults + 1,
                                !.lost = past.lost \/ flight[i].op = "save"]
        /\ UNCHANGED <<server, view>>
    BY <1>4 DEF Mail!Fail
  <2>2. past \in MailPasts /\ past.unclear \in Nat /\ past.faults \in Nat /\ past.unclear <= past.faults
    BY <1>1 DEF MailPast, MailPasts
  <2>3. /\ past' \in MailPasts
        /\ past'.edited = past.edited /\ past'.unclear = past.unclear
        /\ past'.faults = past.faults + 1
        /\ (past.lost => past'.lost) /\ (flight[i].op = "save" => past'.lost)
    <3> DEFINE l == past.lost \/ flight[i].op = "save"
               n == past.faults + 1
    <3>1. /\ l \in BOOLEAN /\ n \in Nat /\ (past.lost => l) /\ (flight[i].op = "save" => l)
          /\ past' = [past EXCEPT !.faults = n, !.lost = l]
      BY <2>1, <2>2
    <3> HIDE DEF l, n
    <3>2. /\ past' \in MailPasts /\ past'.edited = past.edited /\ past'.unclear = past.unclear
          /\ past'.faults = n /\ past'.lost = l
      BY <2>2, <3>1 DEF MailPasts
    <3> QED
      BY <3>1, <3>2 DEF n
  <2>4. MailPast(past')
    BY <2>1, <2>2, <2>3, BoundsAssumption DEF MailPast
  <2>5. MailServer(server', past')
    BY <1>1, <2>1, <2>3 DEF MailServer
  <2> QED
    BY <1>1, <2>1, <2>2, <2>3, <2>4, <2>5, MailAnswered
<1> QED
  BY <1>2, <1>3, <1>4

\* Only the rows change.
LEMMA MailThread ==
  ASSUME MailInv, MailServer(server', past'), MailPast(past'),
         server'.settings = server.settings, UNCHANGED <<view, flight>>,
         past'.edited = past.edited, past'.lost = past.lost
  PROVE  MailInv'
  BY DEF MailInv, MailFlight, MailSettings

LEMMA MailRetries ==
  ASSUME MailInv,
         \/ Mail!RetryWakes \/ Mail!Cleanup
         \/ \E k \in server.retry, outcome \in Mail!Retried : Mail!Retry(k, outcome)
  PROVE  MailInv'
<1> DEFINE rows == server.mailouts
<1>1. MailServer(server, past) /\ MailPast(past) /\ past.unclear \in Nat
      /\ rows \in Seq(MailoutRows) /\ MailRows(rows, server.retry, past.unclear)
      /\ DOMAIN rows = 1..Len(rows) /\ Len(rows) \in Nat
  BY DEF MailInv, MailServer, MailPast, MailPasts
<1>2. ASSUME past' = [past EXCEPT !.steps = past.steps + 1]
      PROVE  /\ MailPast(past') /\ past'.edited = past.edited /\ past'.lost = past.lost
             /\ past'.unclear = past.unclear
  BY <1>1, <1>2 DEF MailPast, MailPasts
<1>3. CASE Mail!RetryWakes
  <2>1. /\ server' = [server EXCEPT !.retry = {k \in DOMAIN rows : rows[k].status = "queued"}]
        /\ past' = [past EXCEPT !.steps = past.steps + 1] /\ UNCHANGED <<view, flight>>
    BY <1>3 DEF Mail!RetryWakes, Mail!Queued, Mail!Acted
  <2>2. MailServer(server', past') /\ server'.settings = server.settings
    BY <1>1, <1>2, <2>1 DEF MailServer, MailRows
  <2> QED
    BY <1>2, <2>1, <2>2, MailThread
<1>4. CASE Mail!Cleanup
  <2> DEFINE after == [k \in DOMAIN rows |-> [rows[k] EXCEPT !.status = "deleted"]]
  <2>1. /\ server' = [server EXCEPT !.mailouts = after] /\ server.retry = {}
        /\ past' = [past EXCEPT !.steps = past.steps + 1] /\ UNCHANGED <<view, flight>>
    BY <1>4 DEF Mail!Cleanup, Mail!Acted
  <2>2. \A k \in DOMAIN rows : MailRow(after[k], past.unclear)
    <3> SUFFICES ASSUME NEW k \in DOMAIN rows
                 PROVE  MailRow([rows[k] EXCEPT !.status = "deleted"], past.unclear)
      OBVIOUS
    <3>1. MailRow(rows[k], past.unclear)
      BY <1>1 DEF MailRows
    <3> HIDE DEF rows
    <3> QED
      BY <3>1 DEF MailRow, MailoutRows
  <2>3. after \in Seq(MailoutRows) /\ DOMAIN after = DOMAIN rows
    <3>1. \A k \in 1..Len(rows) : after[k] \in MailoutRows
      BY <1>1, <2>2 DEF MailRow
    <3>2. DOMAIN after = 1..Len(rows)
      BY <1>1
    <3> HIDE DEF after, rows
    <3>3. after = [k \in 1..Len(rows) |-> after[k]]
      BY <3>2 DEF after
    <3> QED
      BY <1>1, <3>1, <3>2, <3>3
  <2> HIDE DEF after
  <2>4. MailRows(after, {}, past.unclear)
    BY <2>2, <2>3 DEF MailRows
  <2>5. MailServer(server', past') /\ server'.settings = server.settings
    BY <1>1, <1>2, <2>1, <2>3, <2>4 DEF MailServer
  <2> QED
    BY <1>2, <2>1, <2>5, MailThread
<1>5. ASSUME NEW k \in server.retry, NEW outcome \in Mail!Retried, Mail!Retry(k, outcome)
      PROVE  MailInv'
  <2> DEFINE row == [status |-> outcome.status, copies |-> rows[k].copies + outcome.copies]
             after == [rows EXCEPT ![k] = row]
             n == Mail!Unclear(outcome)
  <2>1. /\ server' = [server EXCEPT !.retry = server.retry \ {k}, !.mailouts = after]
        /\ Mail!Noting(outcome) /\ UNCHANGED <<view, flight>>
    BY <1>5 DEF Mail!Retry
  <2>2. /\ MailPast(past') /\ past'.unclear = past.unclear + n
        /\ past'.edited = past.edited /\ past'.lost = past.lost
        /\ past'.unclear \in Nat /\ past.unclear <= past'.unclear /\ past.unclear \in Nat
        /\ outcome.copies \in Nat /\ n \in Nat /\ outcome.status \in {"sent", "queued"}
        /\ outcome.status = "queued" => outcome.copies = n
        /\ outcome.status = "sent" => outcome.copies = n + 1
    BY <1>1, <2>1, MailNoted
  <2> HIDE DEF n
  <2>3. outcome.status = "sent" => outcome.copies >= 1
    BY DEF Mail!Retried, Mail!Relayed
  <2>4. k \in DOMAIN rows /\ rows[k].copies \in Nat /\ rows[k].copies <= past.unclear
    BY <1>1 DEF MailRows, MailRow, MailoutRows
  <2>5. MailRow(row, past'.unclear)
    <3>1. row \in MailoutRows
      BY <2>2, <2>4 DEF MailoutRows
    <3>2. row.status = outcome.status /\ row.copies = rows[k].copies + outcome.copies
      OBVIOUS
    <3> DEFINE c == rows[k].copies
               d == outcome.copies
               u == past.unclear
               w == past'.unclear
    <3>3. /\ c \in Nat /\ c <= u /\ u \in Nat /\ d \in Nat /\ n \in Nat /\ w = u + n
          /\ row.copies = c + d /\ row.status = outcome.status
          /\ outcome.status = "queued" \/ outcome.status = "sent"
      BY <2>2, <2>4, <3>2
    <3>4. /\ outcome.status = "queued" => d = n
          /\ outcome.status = "sent" => d = n + 1 /\ d >= 1
      BY <2>2, <2>3
    <3> HIDE DEF row, c, d, u, w
    <3>5. CASE outcome.status = "queued"
      <4>1. row.copies <= w /\ row.copies <= 1 + w
        BY <3>3, <3>4, <3>5
      <4> QED
        BY <3>1, <3>3, <3>5, <4>1 DEF MailRow, w
    <3>6. CASE outcome.status = "sent"
      <4>1. row.copies >= 1 /\ row.copies <= 1 + w
        BY <3>3, <3>4, <3>6
      <4> QED
        BY <3>1, <3>3, <3>6, <4>1 DEF MailRow, w
    <3> QED
      BY <3>3, <3>5, <3>6
  <2>6. /\ after \in Seq(MailoutRows) /\ DOMAIN after = DOMAIN rows /\ after[k] = row
        /\ \A l \in DOMAIN rows \ {k} : after[l] = rows[l]
    <3>1. row \in MailoutRows
      BY <2>5 DEF MailRow
    <3> HIDE DEF row
    <3> QED
      BY <1>1, <2>4, <3>1
  <2>7. MailRows(rows, server.retry, past'.unclear)
    BY <1>1, <2>2, MailRowsKept
  <2> HIDE DEF row, after
  <2>8. MailRows(after, server.retry \ {k}, past'.unclear)
    BY <2>5, <2>6, <2>7 DEF MailRows
  <2>9. MailServer(server', past') /\ server'.settings = server.settings
    BY <1>1, <2>1, <2>6, <2>8 DEF MailServer
  <2> QED
    BY <2>1, <2>2, <2>9, MailThread
<1> QED
  BY <1>3, <1>4, <1>5

\* A request and what the page showed are gone from it.
LEMMA MailHandles ==
  ASSUME MailInv, NEW i \in DOMAIN flight,
         Mail!HandleLoad(i) \/ Mail!HandleSave(i) \/ Mail!HandleTestEmail(i)
  PROVE  MailInv'
<1> DEFINE r == flight[i]
<1>1. /\ MailServer(server, past) /\ MailView(view) /\ MailPast(past)
      /\ MailFlight(flight, server.settings, view, past)
      /\ MailSettings(flight, server.settings, view, past)
      /\ flight \in Seq(MailRequests) /\ DOMAIN flight = 1..Len(flight)
      /\ r.outcome \in F!Outcomes /\ r.outcome # "refused"
  <2>1. /\ MailServer(server, past) /\ MailView(view) /\ MailPast(past)
        /\ MailFlight(flight, server.settings, view, past)
        /\ MailSettings(flight, server.settings, view, past)
    BY DEF MailInv
  <2>2. flight \in Seq(MailRequests) /\ r \in MailRequests /\ MailAsk(r)
    BY MailFacts
  <2>3. r.outcome \in F!Outcomes
    BY <2>2, MailClosed
  <2> QED
    BY <2>1, <2>2, <2>3 DEF MailAsk
<1>2. /\ flight' = F!Handled(flight, i) /\ UNCHANGED <<server, past>>
      /\ r.outcome # "none" /\ r.op \in {"load", "save", "mail"}
  <2>1. /\ flight' = Mail!Handled(flight, i) /\ UNCHANGED <<server, past>>
        /\ r.outcome # "none" /\ r.op \in {"load", "save", "mail"}
    BY DEF Mail!HandleLoad, Mail!HandleSave, Mail!HandleTestEmail, Mail!Ended, Mail!Answers
  <2> QED
    BY <2>1, MailFetch
<1>3. flight' \in Seq(MailRequests) /\ Rest(flight', flight, i)
  BY <1>1, <1>2, HandledRest, MailClosed
<1>4. /\ \A k \in DOMAIN flight' : Skip(i, k) \in DOMAIN flight \ {i} /\ Alike(flight'[k], flight[Skip(i, k)])
      /\ \A j, k \in DOMAIN flight' : Skip(i, j) = Skip(i, k) => j = k
      /\ \A j \in DOMAIN flight \ {i} : \E k \in DOMAIN flight' : Skip(i, k) = j
  BY <1>3 DEF Rest
<1>6. /\ MailView(view')
      /\ r.op \in {"load", "save"} =>
           \A j \in DOMAIN flight \ {i} : flight[j].op # r.op
      /\ view'.saving = view.saving \/ r.op = "save"
      /\ view'.settings = view.settings \/ (r.op = "load" /\ r.outcome = "ok" /\ view'.settings = r.data)
      /\ r.op = "load" /\ r.outcome = "ok" => view'.settings = r.data
  <2>1. r.op \in {"load", "save"} => \A j \in DOMAIN flight \ {i} : flight[j].op # r.op
    BY <1>1 DEF MailFlight
  <2>2. CASE Mail!HandleLoad(i)
    <3>1. r.op = "load" /\ view' = IF r.outcome = "ok" THEN [view EXCEPT !.settings = r.data] ELSE view
      BY <2>2 DEF Mail!HandleLoad, Mail!Ended, Mail!Answers
    <3>2. r.outcome = "ok" => r.data \in Names
      BY <1>1, <3>1 DEF MailFlight, MailServer
    <3> HIDE DEF r
    <3> QED
      BY <1>1, <2>1, <3>1, <3>2 DEF MailView
  <2>3. CASE Mail!HandleSave(i)
    <3>1. r.op = "save" /\ view' = IF r.outcome = "ok" THEN [view EXCEPT !.saving = FALSE] ELSE view
      BY <2>3 DEF Mail!HandleSave, Mail!Ended, Mail!Answers
    <3> HIDE DEF r
    <3> QED
      BY <1>1, <2>1, <3>1 DEF MailView
  <2>4. CASE Mail!HandleTestEmail(i)
    <3>1. r.op = "mail" /\ view' = view
      BY <2>4 DEF Mail!HandleTestEmail, Mail!Ended, Mail!Answers
    <3> HIDE DEF r
    <3> QED
      BY <1>1, <2>1, <3>1
  <2> QED
    BY <2>2, <2>3, <2>4
<1>7. MailFlight(flight', server.settings, view', past)
  <2>1. ASSUME NEW k \in DOMAIN flight', flight'[k].op = "load"
        PROVE  view'.settings = None /\ (flight'[k].outcome = "ok" => flight'[k].data = server.settings)
    <3>1. r.op # "load"
      BY <1>4, <1>6, <2>1 DEF Alike
    <3> QED
      BY <1>1, <1>4, <1>6, <2>1, <3>1 DEF MailFlight, Alike
  <2>2. ASSUME NEW k \in DOMAIN flight', flight'[k].op = "save"
        PROVE  /\ view'.saving /\ view'.settings # None
               /\ flight'[k].outcome = "ok" => server.settings = flight'[k].arg
               /\ flight'[k].outcome = "throws" => past.lost
               /\ past.edited \/ view'.settings = flight'[k].arg
    <3> DEFINE j == Skip(i, k)
    <3>1. j \in DOMAIN flight \ {i} /\ flight[j].op = "save" /\ flight[j].outcome = flight'[k].outcome
          /\ flight[j].arg = flight'[k].arg
      BY <1>4, <2>2 DEF Alike
    <3> HIDE DEF j
    <3>2. r.op # "save"
      BY <1>6, <3>1
    <3>3. r.op # "load"
      BY <1>1, <3>1 DEF MailFlight
    <3>4. view'.saving = view.saving /\ view'.settings = view.settings
      BY <1>6, <3>2, <3>3
    <3> QED
      BY <1>1, <3>1, <3>4 DEF MailFlight
  <2>3. ASSUME NEW k \in DOMAIN flight', NEW l \in DOMAIN flight', flight'[k].op = flight'[l].op,
               flight'[k].op \in {"load", "save"}
        PROVE  k = l
    <3>1. Skip(i, k) = Skip(i, l)
      BY <1>1, <1>4, <2>3 DEF MailFlight, Alike
    <3> QED
      BY <1>4, <3>1
  <2> QED
    BY <1>3, <2>1, <2>2, <2>3 DEF MailFlight
<1>8. MailSettings(flight', server.settings, view', past)
  <2>1. CASE r.op = "load"
    BY <1>1, <1>6, <2>1 DEF MailFlight, MailSettings
  <2>2. CASE r.op = "save"
    <3>1. view'.settings = view.settings
      BY <1>6, <2>2
    <3>2. view.settings = server.settings \/ past.edited \/ past.lost
      BY <1>1, <1>2, <2>2 DEF MailFlight, F!Outcomes
    <3> QED
      BY <3>1, <3>2 DEF MailSettings
  <2>3. CASE r.op = "mail"
    <3>1. view'.settings = view.settings
      BY <1>6, <2>3
    <3>2. Sent(flight, "save") => Sent(flight', "save")
      <4>1. ASSUME NEW j \in DOMAIN flight, flight[j].op = "save"
            PROVE  Sent(flight', "save")
        <5>1. PICK k \in DOMAIN flight' : Skip(i, k) = j
          BY <1>4, <2>3, <4>1
        <5> QED
          BY <1>4, <4>1, <5>1 DEF Sent, Alike
      <4> QED
        BY <4>1 DEF Sent
    <3> QED
      BY <1>1, <3>1, <3>2 DEF MailSettings
  <2> QED
    BY <1>2, <2>1, <2>2, <2>3
<1> QED
  BY <1>1, <1>2, <1>6, <1>7, <1>8 DEF MailInv

LEMMA MailInit == ASSUME Mail!Init PROVE MailInv
<1>1. PICK settings \in Names : server = [settings |-> settings, mailouts |-> <<>>, retry |-> {}]
  BY DEF Mail!Init
<1>2. /\ view = [settings |-> None, saving |-> FALSE]
      /\ flight = <<F!Request("load", None)>>
      /\ past = [edited |-> FALSE, lost |-> FALSE, unclear |-> 0, steps |-> 0, faults |-> 0]
  BY MailFetch DEF Mail!Init
<1>3. MailServer(server, past)
  BY <1>1 DEF MailServer, MailRows
<1>4. MailView(view) /\ view.settings = None
  BY <1>2 DEF MailView
<1>5. MailPast(past)
  BY <1>2, BoundsAssumption DEF MailPast, MailPasts
<1>6. MailFlight(flight, server.settings, view, past)
  <2>1. F!Request("load", None) \in MailRequests
    <3>1. F!Request("load", None) \in MailAll
      BY DEF MailAll, Requests, F!Request, F!Outcomes, MailOps, MailArgs, MailData
    <3> QED
      BY <3>1 DEF MailRequests, MailAsk, F!Request
  <2>2. DOMAIN flight = {1} /\ flight[1] = F!Request("load", None) /\ flight \in Seq(MailRequests)
    BY <1>2, <2>1
  <2>3. flight[1].op = "load" /\ flight[1].outcome = "none"
    BY <2>2 DEF F!Request
  <2> QED
    BY <1>4, <2>2, <2>3 DEF MailFlight
<1> QED
  BY <1>3, <1>4, <1>5, <1>6 DEF MailInv, MailSettings

LEMMA MailNext ==
  ASSUME MailInv, Mail!Next
  PROVE  MailInv'
  BY MailPage, MailServeMail, MailServes, MailRetries, MailHandles DEF Mail!Next

\* The properties of the page.
LEMMA MailShows ==
  ASSUME MailInv
  PROVE  Mail!TypeOK /\ Mail!ViewConverges /\ Mail!MailsGoOut
<1>1. /\ MailServer(server, past) /\ MailView(view) /\ MailPast(past)
      /\ MailSettings(flight, server.settings, view, past)
  BY DEF MailInv
<1>2. MailRows(server.mailouts, server.retry, past.unclear)
      /\ past.unclear \in Nat /\ past.unclear <= MaxFaults
  <2>1. past.unclear \in Nat /\ past.faults \in Nat
    BY <1>1 DEF MailPast, MailPasts
  <2> QED
    BY <1>1, <2>1, BoundsAssumption DEF MailServer, MailPast
<1>3. Mail!TypeOK
  <2>1. \A i \in DOMAIN flight : Mail!IsRequest(flight[i], {"load", "save", "mail"})
    BY MailFacts, MailClosed DEF Mail!IsRequest, Mail!Outcomes, F!Outcomes, MailOps
  <2>2. \A k \in DOMAIN server.mailouts : server.mailouts[k] \in Mail!Row
    <3> SUFFICES ASSUME NEW k \in DOMAIN server.mailouts
                 PROVE  server.mailouts[k] \in Mail!Row
      OBVIOUS
    <3> DEFINE row == server.mailouts[k]
    <3>1. row \in MailoutRows /\ row.copies <= 1 + past.unclear
      BY <1>2 DEF MailRows, MailRow
    <3> HIDE DEF row
    <3>2. row.copies \in 0..MaxFaults + 1
      BY <1>2, <3>1, BoundsAssumption DEF MailoutRows
    <3>3. row \in Mail!Row
      BY <3>1, <3>2 DEF MailoutRows, Mail!Row
    <3> QED
      BY <3>3 DEF row
  <2> QED
    BY <1>1, <1>2, <2>1, <2>2 DEF Mail!TypeOK, MailServer, MailView, MailRows, Mail!Queued
<1>4. Mail!ViewConverges
  BY <1>1 DEF Mail!ViewConverges, Mail!ShowsForm, MailSettings, Sent
<1>5. Mail!MailsGoOut
  BY <1>2 DEF Mail!MailsGoOut, MailRows, MailRow
<1> QED
  BY <1>3, <1>4, <1>5

-----------------------------------------------------------------------------
(* PaymentsPage: the payments of each subscription. *)

PaymentsOps == {"load", "payments"}

PaymentsArgs == {Names, {}} \cup Names

PaymentsData == (SUBSET Names) \cup Nat

PaymentsAll == Requests(PaymentsOps, PaymentsArgs, PaymentsData)

PaymentsRows == [open : BOOLEAN, loaded : BOOLEAN, payments : Nat]

PaymentsViews == [all : SUBSET Names, filter : SUBSET Names, rows : [Names -> PaymentsRows]]

PaymentsPasts == [stale : SUBSET Names, steps : Nat, faults : Nat]

\* An answer for subscription s has its payments, all of them unless one arrived since; the
\* banker refuses none.
PaymentsAsk(r, srv, stale) ==
  /\ r.op = "load" /\ r.outcome = "ok" => r.data \in SUBSET Names
  /\ r.op = "payments" /\ r.arg # {} =>
       /\ r.arg \in Names /\ r.outcome # "refused"
       /\ r.outcome = "ok" =>
            /\ r.data \in Nat /\ r.data <= srv[r.arg]
            /\ r.arg \in stale \/ r.data = srv[r.arg]

PaymentsRequests(srv, stale) == {r \in PaymentsAll : PaymentsAsk(r, srv, stale)}

\* So does a row once it is loaded.
PaymentsRow(row, s, srv, stale) ==
  /\ row \in PaymentsRows /\ row.payments <= srv[s]
  /\ row.open => row.loaded
  /\ row.loaded => s \in stale \/ row.payments = srv[s]

PaymentsInv ==
  /\ server \in [Names -> Nat] /\ view \in PaymentsViews /\ past \in PaymentsPasts
  /\ \A s \in Names : PaymentsRow(view.rows[s], s, server, past.stale)
  /\ flight \in Seq(PaymentsRequests(server, past.stale))

LEMMA PaymentsFetch ==
  /\ \A fs, i : Payments!Handled(fs, i) = F!Handled(fs, i)
  /\ \A fs, i, o, d : Payments!Served(fs, i, o, d) = F!Served(fs, i, o, d)
  /\ \A op, a : Payments!Request(op, a) = F!Request(op, a)
  BY DEF Payments!Handled, F!Handled, Payments!Served, F!Served, Payments!Request, F!Request

LEMMA PaymentsClosed ==
  ASSUME NEW srv, NEW stale
  PROVE  /\ Closed(PaymentsRequests(srv, stale), PaymentsOps, PaymentsArgs, PaymentsData)
         /\ \A r \in PaymentsRequests(srv, stale) :
              /\ r \in PaymentsAll /\ PaymentsAsk(r, srv, stale)
              /\ r.op \in PaymentsOps /\ r.outcome \in F!Outcomes /\ r.late \in BOOLEAN
         /\ {} \in PaymentsData
<1>1. \A r \in PaymentsAll : r.op \in PaymentsOps /\ r.outcome \in F!Outcomes /\ r.late \in BOOLEAN
  BY DEF PaymentsAll, Requests
<1>2. \A r \in PaymentsAll, q \in PaymentsRequests(srv, stale) :
        Alike(r, q) => r \in PaymentsRequests(srv, stale)
  BY DEF PaymentsRequests, PaymentsAsk, Alike
<1> QED
  BY <1>1, <1>2 DEF Closed, PaymentsRequests, PaymentsAll, PaymentsData

LEMMA PaymentsFacts ==
  ASSUME PaymentsInv
  PROVE  /\ flight \in Seq(PaymentsAll)
         /\ \A i \in DOMAIN flight :
              /\ flight[i] \in PaymentsAll /\ PaymentsAsk(flight[i], server, past.stale)
              /\ flight[i].op \in PaymentsOps /\ flight[i].outcome \in F!Outcomes
              /\ flight[i].late \in BOOLEAN
<1> DEFINE S == PaymentsRequests(server, past.stale)
<1>1. flight \in Seq(S)
  BY DEF PaymentsInv
<1>2. \A r \in S : /\ r \in PaymentsAll /\ PaymentsAsk(r, server, past.stale)
                   /\ r.op \in PaymentsOps /\ r.outcome \in F!Outcomes /\ r.late \in BOOLEAN
  BY PaymentsClosed
<1> HIDE DEF S
<1>3. \A i \in DOMAIN flight : flight[i] \in S
  BY <1>1
<1>4. \A i \in DOMAIN flight : flight[i] \in PaymentsAll
  BY <1>2, <1>3
<1> QED
  BY <1>1, <1>2, <1>3, <1>4, LegalStill

\* The bounds that the actions count.
LEMMA PaymentsActs ==
  ASSUME PaymentsInv
  PROVE  /\ Payments!Acted \in PaymentsPasts /\ Payments!Acted.stale = past.stale
         /\ \A stale \in SUBSET Names :
              /\ [Payments!Acted EXCEPT !.stale = stale] \in PaymentsPasts
              /\ [Payments!Acted EXCEPT !.stale = stale].stale = stale
<1>1. past \in PaymentsPasts
  BY DEF PaymentsInv
<1>2. Payments!Acted = [past EXCEPT !.steps = past.steps + 1]
  BY DEF Payments!Acted
<1>3. Payments!Acted \in PaymentsPasts /\ Payments!Acted.stale = past.stale
  BY <1>1, <1>2 DEF PaymentsPasts
<1> QED
  BY <1>3 DEF PaymentsPasts

\* A request without its row.
Forgotten(r) == [r EXCEPT !.arg = {}]

LEMMA PaymentsFilters ==
  ASSUME PaymentsInv, NEW filter \in SUBSET Names, Payments!SetFilter(filter)
  PROVE  PaymentsInv'
<1> DEFINE stale == past.stale \cap filter
           S == PaymentsRequests(server, stale)
           rows == [s \in Names |-> IF s \in filter THEN view.rows[s] ELSE Payments!FreshRow]
           After(r) == IF r.op = "payments" /\ r.arg \notin filter THEN Forgotten(r) ELSE r
<1>1. /\ server \in [Names -> Nat] /\ view \in PaymentsViews /\ past \in PaymentsPasts
      /\ \A s \in Names : PaymentsRow(view.rows[s], s, server, past.stale)
      /\ stale \in SUBSET Names
  BY DEF PaymentsInv, PaymentsPasts
<1>2. /\ view' = [view EXCEPT !.filter = filter, !.rows = rows] /\ UNCHANGED server
      /\ flight' = [i \in DOMAIN flight |-> After(flight[i])]
      /\ past' = [Payments!Acted EXCEPT !.stale = Payments!Acted.stale \cap filter]
  BY DEF Payments!SetFilter, Forgotten
<1>3. past' \in PaymentsPasts /\ past'.stale = stale
  BY <1>1, <1>2, PaymentsActs
<1>4. ASSUME NEW s \in Names
      PROVE  PaymentsRow(rows[s], s, server, stale)
  <2>1. CASE s \in filter
    <3>1. rows[s] = view.rows[s] /\ (s \in past.stale => s \in stale)
      BY <2>1
    <3> HIDE DEF rows, stale
    <3> QED
      BY <1>1, <3>1 DEF PaymentsRow
  <2>2. CASE s \notin filter
    <3> DEFINE row == Payments!FreshRow
    <3>1. row \in PaymentsRows /\ row.payments = 0 /\ ~row.open /\ ~row.loaded
      BY DEF Payments!FreshRow, PaymentsRows
    <3>2. server[s] \in Nat /\ rows[s] = row
      BY <1>1, <2>2
    <3> HIDE DEF row, rows, stale
    <3> QED
      BY <3>1, <3>2 DEF PaymentsRow
  <2> QED
    BY <2>1, <2>2
<1>5. rows \in [Names -> PaymentsRows]
  BY <1>4 DEF PaymentsRow
<1> HIDE DEF rows
<1>6. view' \in PaymentsViews /\ view'.rows = rows
  BY <1>1, <1>2, <1>5 DEF PaymentsViews
<1>7. ASSUME NEW r \in PaymentsAll, PaymentsAsk(r, server, past.stale)
      PROVE  After(r) \in S
  <2>1. CASE r.op = "payments" /\ r.arg \notin filter
    <3>1. /\ Forgotten(r) \in PaymentsAll /\ Forgotten(r).op = "payments"
          /\ Forgotten(r).arg = {}
      BY <2>1 DEF Forgotten, PaymentsAll, Requests, PaymentsArgs
    <3> QED
      BY <2>1, <3>1 DEF PaymentsRequests, PaymentsAsk
  <2>2. CASE ~(r.op = "payments" /\ r.arg \notin filter)
    <3>1. PaymentsAsk(r, server, stale)
      BY <1>7, <2>2 DEF PaymentsAsk
    <3> QED
      BY <2>2, <3>1 DEF PaymentsRequests
  <2> QED
    BY <2>1, <2>2
<1>8. flight' \in Seq(S)
  <2>1. \A i \in DOMAIN flight : After(flight[i]) \in S
    BY <1>7, PaymentsFacts
  <2>2. DOMAIN flight = 1..Len(flight) /\ Len(flight) \in Nat
    BY PaymentsFacts
  <2> HIDE DEF S, After
  <2> QED
    BY <1>2, <2>1, <2>2
<1> QED
  BY <1>1, <1>2, <1>3, <1>4, <1>6, <1>8 DEF PaymentsInv

\* Opening and closing a row.
LEMMA PaymentsToggles ==
  ASSUME PaymentsInv, NEW s \in Names, Payments!Toggle(s) \/ Payments!FirstToggle(s)
  PROVE  PaymentsInv'
<1> DEFINE S == PaymentsRequests(server, past.stale)
<1>1. /\ server \in [Names -> Nat] /\ view \in PaymentsViews /\ past \in PaymentsPasts
      /\ \A t \in Names : PaymentsRow(view.rows[t], t, server, past.stale)
      /\ flight \in Seq(S)
  BY DEF PaymentsInv
<1>2. Payments!Acted \in PaymentsPasts /\ Payments!Acted.stale = past.stale
  BY PaymentsActs
<1>3. CASE Payments!Toggle(s)
  <2> DEFINE row == [view.rows[s] EXCEPT !.open = ~view.rows[s].open]
             rows == [view.rows EXCEPT ![s] = row]
  <2>1. /\ past' = Payments!Acted /\ UNCHANGED <<server, flight>>
        /\ view' = [view EXCEPT !.rows = rows]
        /\ view.rows[s].open \/ view.rows[s].loaded
    BY <1>3 DEF Payments!Toggle
  <2>2. view.rows \in [Names -> PaymentsRows]
    BY <1>1 DEF PaymentsViews
  <2>3. /\ row \in PaymentsRows /\ row.payments = view.rows[s].payments
        /\ row.loaded = view.rows[s].loaded
    BY <2>2 DEF PaymentsRows
  <2> HIDE DEF row
  <2>4. PaymentsRow(row, s, server, past.stale)
    BY <1>1, <2>1, <2>3 DEF PaymentsRow
  <2>5. rows \in [Names -> PaymentsRows] /\ rows[s] = row
        /\ \A t \in Names : t # s => rows[t] = view.rows[t]
    BY <2>2, <2>3
  <2> HIDE DEF rows, S
  <2>6. view' \in PaymentsViews /\ view'.rows = rows
    BY <1>1, <2>1, <2>5 DEF PaymentsViews
  <2>7. \A t \in Names : PaymentsRow(rows[t], t, server, past.stale)
    BY <1>1, <2>4, <2>5
  <2> QED
    BY <1>1, <1>2, <2>1, <2>6, <2>7 DEF PaymentsInv, S
<1>4. CASE Payments!FirstToggle(s)
  <2>1. /\ past' = Payments!Acted /\ UNCHANGED <<server, view>>
        /\ flight' = Append(flight, F!Request("payments", s))
    BY <1>4, PaymentsFetch DEF Payments!FirstToggle
  <2>2. /\ \A r \in PaymentsAll : r.op = "payments" /\ r.arg = s /\ r.outcome = "none" => r \in S
        /\ "payments" \in PaymentsOps /\ s \in PaymentsArgs
    BY DEF PaymentsRequests, PaymentsAsk, PaymentsOps, PaymentsArgs
  <2>3. Closed(S, PaymentsOps, PaymentsArgs, PaymentsData) /\ {} \in PaymentsData
    BY PaymentsClosed
  <2> HIDE DEF S
  <2>4. flight' \in Seq(S)
    BY <1>1, <2>1, <2>2, <2>3, SentIn DEF PaymentsAll
  <2> QED
    BY <1>1, <1>2, <2>1, <2>4 DEF PaymentsInv, S
<1> QED
  BY <1>3, <1>4

\* A payment arrives: what is shown, or on its way, is old.
LEMMA PaymentsPays ==
  ASSUME PaymentsInv, NEW s \in Names, Payments!Pays(s)
  PROVE  PaymentsInv'
<1> DEFINE seen == view.rows[s].loaded \/ \E i \in Payments!Answers(flight, "payments") : flight[i].arg = s
           stale == IF seen THEN past.stale \cup {s} ELSE past.stale
           S == PaymentsRequests(server', stale)
<1>1. /\ server \in [Names -> Nat] /\ view \in PaymentsViews /\ past \in PaymentsPasts
      /\ \A t \in Names : PaymentsRow(view.rows[t], t, server, past.stale)
  BY DEF PaymentsInv
<1>2. stale \in SUBSET Names /\ past.stale \subseteq stale
  BY <1>1 DEF PaymentsPasts
<1>3. /\ UNCHANGED <<view, flight>> /\ server' = [server EXCEPT ![s] = server[s] + 1]
      /\ past' = IF seen THEN [Payments!Acted EXCEPT !.stale = Payments!Acted.stale \cup {s}]
                 ELSE Payments!Acted
  BY DEF Payments!Pays
<1>4. past' \in PaymentsPasts /\ past'.stale = stale
  BY <1>2, <1>3, PaymentsActs
<1>5. /\ server' \in [Names -> Nat] /\ server'[s] = server[s] + 1
      /\ \A t \in Names : t # s => server'[t] = server[t]
  BY <1>1, <1>3
<1>6. seen => s \in stale
  OBVIOUS
<1>7. ASSUME NEW i \in DOMAIN flight
      PROVE  flight[i] \in S
  <2> DEFINE r == flight[i]
  <2>1. /\ r \in PaymentsAll /\ PaymentsAsk(r, server, past.stale)
        /\ r.op = "payments" /\ r.arg = s /\ r.outcome = "ok" => seen
    BY PaymentsFacts DEF Payments!Answers
  <2> HIDE DEF seen, stale, r
  <2>2. r.arg \in Names => server[r.arg] \in Nat
    BY <1>1
  <2>3. PaymentsAsk(r, server', stale)
    <3>1. CASE r.arg = s
      BY <1>2, <1>5, <1>6, <2>1, <2>2, <3>1 DEF PaymentsAsk
    <3>2. CASE r.arg # s
      BY <1>2, <1>5, <2>1, <3>2 DEF PaymentsAsk
    <3> QED
      BY <3>1, <3>2
  <2> QED
    BY <2>1, <2>3 DEF PaymentsRequests, r
<1>8. flight' \in Seq(S)
  BY <1>3, <1>7, PaymentsFacts, LegalStill
<1>9. ASSUME NEW t \in Names
      PROVE  PaymentsRow(view.rows[t], t, server', stale)
  <2>1. server[t] \in Nat /\ view.rows[t].payments \in Nat /\ PaymentsRow(view.rows[t], t, server, past.stale)
    BY <1>1 DEF PaymentsRow, PaymentsRows
  <2>2. t = s /\ view.rows[t].loaded => seen
    OBVIOUS
  <2> HIDE DEF seen, stale
  <2>3. CASE t = s
    BY <1>5, <1>6, <2>1, <2>2, <2>3 DEF PaymentsRow
  <2>4. CASE t # s
    BY <1>2, <1>5, <2>1, <2>4 DEF PaymentsRow
  <2> QED
    BY <2>3, <2>4
<1> QED
  BY <1>1, <1>3, <1>4, <1>5, <1>8, <1>9 DEF PaymentsInv

\* The banker's answers and failures.
LEMMA PaymentsServes ==
  ASSUME PaymentsInv, NEW i \in DOMAIN flight,
         \/ Payments!ServeSubscriptions(i) \/ Payments!ServePayments(i) \/ Payments!Fail(i)
  PROVE  PaymentsInv'
<1> DEFINE r == flight[i]
           S == PaymentsRequests(server, past.stale)
<1>1. /\ server \in [Names -> Nat] /\ view \in PaymentsViews /\ past \in PaymentsPasts
      /\ \A t \in Names : PaymentsRow(view.rows[t], t, server, past.stale)
      /\ flight \in Seq(S) /\ PaymentsAsk(r, server, past.stale) /\ r.op \in PaymentsOps
  BY PaymentsFacts DEF PaymentsInv
<1>2. ASSUME NEW outcome \in {"ok", "throws"}, NEW data \in PaymentsData,
             flight' = F!Served(flight, i, outcome, data), UNCHANGED <<server, view>>,
             past' \in PaymentsPasts, past'.stale = past.stale,
             outcome = "ok" /\ r.op = "load" => data \in SUBSET Names,
             outcome = "ok" /\ r.op = "payments" => r.arg \in Names /\ data = server[r.arg]
      PROVE  PaymentsInv'
  <2>1. \A t \in Names : server[t] \in Nat /\ server[t] <= server[t]
    BY <1>1
  <2>2. /\ \A q \in PaymentsAll :
             q.op = r.op /\ q.arg = r.arg /\ q.outcome = outcome /\ q.data = data => q \in S
        /\ outcome \in F!Outcomes
    BY <1>1, <1>2, <2>1 DEF PaymentsRequests, PaymentsAsk, F!Outcomes
  <2>3. Closed(S, PaymentsOps, PaymentsArgs, PaymentsData)
    BY PaymentsClosed
  <2> HIDE DEF S, r
  <2>4. flight' \in Seq(S)
    BY <1>1, <1>2, <2>2, <2>3, ServedIn DEF PaymentsAll, r
  <2> QED
    BY <1>1, <1>2, <2>4 DEF PaymentsInv, S
<1>3. CASE Payments!ServeSubscriptions(i)
  <2>1. /\ r.op = "load" /\ flight' = F!Served(flight, i, "ok", DOMAIN server)
        /\ UNCHANGED <<server, view, past>>
    BY <1>3, PaymentsFetch DEF Payments!ServeSubscriptions, Payments!Waiting
  <2>2. DOMAIN server \in SUBSET Names /\ DOMAIN server \in PaymentsData
    BY <1>1 DEF PaymentsData
  <2> HIDE DEF r
  <2> QED
    BY <1>1, <1>2, <2>1, <2>2
<1>4. CASE Payments!ServePayments(i)
  <2>1. /\ r.op = "payments" /\ r.arg # {} /\ flight' = F!Served(flight, i, "ok", server[r.arg])
        /\ UNCHANGED <<server, view, past>>
    BY <1>4, PaymentsFetch DEF Payments!ServePayments, Payments!Waiting
  <2>2. r.arg \in Names /\ server[r.arg] \in PaymentsData
    BY <1>1, <2>1 DEF PaymentsAsk, PaymentsData
  <2> HIDE DEF r
  <2> QED
    BY <1>1, <1>2, <2>1, <2>2
<1>5. CASE Payments!Fail(i)
  <2>1. /\ flight' = F!Served(flight, i, "throws", {}) /\ UNCHANGED <<server, view>>
        /\ past' = [past EXCEPT !.faults = past.faults + 1] /\ {} \in PaymentsData
    BY <1>5, PaymentsFetch, PaymentsClosed DEF Payments!Fail
  <2>2. past' \in PaymentsPasts /\ past'.stale = past.stale
    BY <1>1, <2>1 DEF PaymentsPasts
  <2> HIDE DEF r
  <2> QED
    BY <1>2, <2>1, <2>2
<1> QED
  BY <1>3, <1>4, <1>5

\* What the page does with them.
LEMMA PaymentsHandles ==
  ASSUME PaymentsInv, NEW i \in DOMAIN flight,
         Payments!HandleLoad(i) \/ Payments!HandlePayments(i) \/ Payments!Drop(i)
  PROVE  PaymentsInv'
<1> DEFINE r == flight[i]
           S == PaymentsRequests(server, past.stale)
<1>1. /\ server \in [Names -> Nat] /\ view \in PaymentsViews /\ past \in PaymentsPasts
      /\ \A t \in Names : PaymentsRow(view.rows[t], t, server, past.stale)
      /\ flight \in Seq(S) /\ PaymentsAsk(r, server, past.stale)
  BY PaymentsFacts DEF PaymentsInv
<1>2. flight' \in Seq(S) /\ UNCHANGED <<server, past>>
  <2>1. flight' = F!Handled(flight, i) /\ UNCHANGED <<server, past>>
    BY PaymentsFetch DEF Payments!HandleLoad, Payments!HandlePayments, Payments!Drop
  <2>2. Closed(S, PaymentsOps, PaymentsArgs, PaymentsData)
    BY PaymentsClosed
  <2> HIDE DEF S
  <2> QED
    BY <1>1, <2>1, <2>2, HandledIn
<1>3. /\ view' \in PaymentsViews
      /\ \A t \in Names : PaymentsRow(view'.rows[t], t, server, past.stale)
  <2>1. CASE view' = view
    BY <1>1, <2>1
  <2>2. CASE Payments!HandleLoad(i) /\ view' # view
    <3>1. r.op = "load" /\ r.outcome = "ok" /\ view' = [view EXCEPT !.all = r.data]
      BY <2>2 DEF Payments!HandleLoad, Payments!Answers
    <3>2. r.data \in SUBSET Names
      BY <1>1, <3>1 DEF PaymentsAsk
    <3> HIDE DEF r
    <3>3. view' \in PaymentsViews /\ view'.rows = view.rows
      BY <1>1, <3>1, <3>2 DEF PaymentsViews
    <3> QED
      BY <1>1, <3>3
  <2>3. CASE Payments!HandlePayments(i) /\ view' # view
    <3> DEFINE row == [open |-> TRUE, loaded |-> TRUE, payments |-> r.data]
               rows == [view.rows EXCEPT ![r.arg] = row]
    <3>1. /\ r.op = "payments" /\ r.outcome = "ok" /\ r.arg # {}
          /\ view' = [view EXCEPT !.rows = rows]
      <4>1. /\ r.op = "payments" /\ r.outcome \notin {"none", "throws"} /\ r.arg # {}
            /\ r.outcome = "ok" => view' = [view EXCEPT !.rows = rows]
        BY <2>3 DEF Payments!HandlePayments, Payments!Answers
      <4>2. r.outcome \in F!Outcomes /\ r.outcome # "refused"
        BY <1>1, <4>1, PaymentsFacts DEF PaymentsAsk
      <4> QED
        BY <4>1, <4>2 DEF F!Outcomes
    <3>2. /\ r.arg \in Names /\ r.data \in Nat /\ r.data <= server[r.arg]
          /\ r.arg \in past.stale \/ r.data = server[r.arg]
      BY <1>1, <3>1 DEF PaymentsAsk
    <3>3. row \in PaymentsRows /\ row.payments = r.data /\ row.loaded
      BY <3>2 DEF PaymentsRows
    <3> HIDE DEF row, r
    <3>4. PaymentsRow(row, r.arg, server, past.stale)
      BY <3>2, <3>3 DEF PaymentsRow
    <3>5. view.rows \in [Names -> PaymentsRows]
      BY <1>1 DEF PaymentsViews
    <3>6. rows \in [Names -> PaymentsRows] /\ rows[r.arg] = row
          /\ \A t \in Names : t # r.arg => rows[t] = view.rows[t]
      BY <3>2, <3>3, <3>5
    <3> HIDE DEF rows
    <3>7. view' \in PaymentsViews /\ view'.rows = rows
      BY <1>1, <3>1, <3>6 DEF PaymentsViews
    <3> QED
      BY <1>1, <3>4, <3>6, <3>7
  <2> QED
    BY <2>1, <2>2, <2>3 DEF Payments!Drop
<1> QED
  BY <1>1, <1>2, <1>3 DEF PaymentsInv

LEMMA PaymentsInit == ASSUME Payments!Init PROVE PaymentsInv
<1> DEFINE S == PaymentsRequests(server, past.stale)
           row == Payments!FreshRow
           rows == [s \in Names |-> row]
<1>1. /\ server = [s \in Names |-> 1] /\ view = [all |-> {}, filter |-> Names, rows |-> rows]
      /\ past = [stale |-> {}, steps |-> 0, faults |-> 0]
      /\ flight = Append(<<>>, F!Request("load", Names)) /\ <<>> \in Seq(S)
  BY PaymentsFetch DEF Payments!Init
<1>2. server \in [Names -> Nat] /\ past \in PaymentsPasts
  BY <1>1 DEF PaymentsPasts
<1>3. row \in PaymentsRows /\ row.payments = 0 /\ ~row.open /\ ~row.loaded
  BY DEF Payments!FreshRow, PaymentsRows
<1>4. /\ \A q \in PaymentsAll : q.op = "load" /\ q.arg = Names /\ q.outcome = "none" => q \in S
      /\ "load" \in PaymentsOps /\ Names \in PaymentsArgs
  BY DEF PaymentsRequests, PaymentsAsk, PaymentsOps, PaymentsArgs
<1>5. Closed(S, PaymentsOps, PaymentsArgs, PaymentsData) /\ {} \in PaymentsData
  BY PaymentsClosed
<1> HIDE DEF row
<1>6. rows \in [Names -> PaymentsRows] /\ \A s \in Names : rows[s] = row
  BY <1>3
<1> HIDE DEF rows, S
<1>7. view \in PaymentsViews /\ view.rows = rows
  BY <1>1, <1>6 DEF PaymentsViews
<1>8. \A s \in Names : PaymentsRow(rows[s], s, server, past.stale)
  BY <1>2, <1>3, <1>6 DEF PaymentsRow
<1>9. flight \in Seq(S)
  BY <1>1, <1>4, <1>5, SentIn DEF PaymentsAll
<1> QED
  BY <1>2, <1>7, <1>8, <1>9 DEF PaymentsInv, S

LEMMA PaymentsNext ==
  ASSUME PaymentsInv, Payments!Next
  PROVE  PaymentsInv'
  BY PaymentsFilters, PaymentsToggles, PaymentsPays, PaymentsServes, PaymentsHandles
  DEF Payments!Next

\* The properties of the page.
LEMMA PaymentsShows ==
  ASSUME PaymentsInv
  PROVE  Payments!TypeOK /\ Payments!ViewConverges
<1>1. /\ server \in [Names -> Nat] /\ view \in PaymentsViews
      /\ \A t \in Names : PaymentsRow(view.rows[t], t, server, past.stale)
  BY DEF PaymentsInv
<1>2. Payments!TypeOK
  <2>1. \A i \in DOMAIN flight : Payments!IsRequest(flight[i], {"load", "payments"})
    BY PaymentsFacts DEF Payments!IsRequest, Payments!Outcomes, F!Outcomes, PaymentsOps
  <2>2. view.all \subseteq Names /\ view.filter \subseteq Names
    BY <1>1 DEF PaymentsViews
  <2>3. ASSUME NEW s \in Names
        PROVE  /\ view.rows[s].open \in BOOLEAN /\ view.rows[s].payments \in 0..server[s]
               /\ view.rows[s].open => view.rows[s].loaded
    <3>1. PaymentsRow(view.rows[s], s, server, past.stale) /\ server[s] \in Nat
      BY <1>1
    <3> QED
      BY <3>1 DEF PaymentsRow, PaymentsRows
  <2> QED
    BY <2>1, <2>2, <2>3 DEF Payments!TypeOK
<1>3. Payments!ViewConverges
  BY <1>1 DEF Payments!ViewConverges, Payments!ShowsPayments, PaymentsRow
<1> QED
  BY <1>2, <1>3

-----------------------------------------------------------------------------
(* MonitorPages: what a page shows of a service that others change all the time. *)

\* Requests of a kind that are not served yet, counted.
LEMMA WaitingCounted ==
  ASSUME NEW O, NEW A, NEW D, NEW fs \in Seq(Requests(O, A, D)), NEW op
  PROVE  /\ IsFiniteSet(F!Waiting(fs, op)) /\ Cardinality(F!Waiting(fs, op)) \in Nat
         /\ F!Waiting(fs, op) \subseteq DOMAIN fs
<1>1. Len(fs) \in Nat /\ F!Waiting(fs, op) \subseteq 1..Len(fs) /\ DOMAIN fs = 1..Len(fs)
  BY DEF F!Waiting
<1>2. IsFiniteSet(1..Len(fs))
  BY <1>1, FS_Interval
<1> QED
  BY <1>1, <1>2, FS_Subset, FS_CardinalityType

LEMMA WaitingSent ==
  ASSUME NEW O, NEW A, NEW D, NEW fs \in Seq(Requests(O, A, D)), NEW ask \in O, NEW arg \in A,
         {} \in D, NEW op
  PROVE  /\ Cardinality(F!Waiting(Append(fs, F!Request(ask, arg)), op))
              <= Cardinality(F!Waiting(fs, op)) + 1
         /\ ask # op => Cardinality(F!Waiting(Append(fs, F!Request(ask, arg)), op))
                          <= Cardinality(F!Waiting(fs, op))
<1> DEFINE gs == Append(fs, F!Request(ask, arg))
           n == Len(fs)
           V == F!Waiting(fs, op)
           W == F!Waiting(gs, op)
<1>1. /\ n \in Nat /\ DOMAIN fs = 1..n /\ DOMAIN gs = 1..(n + 1)
      /\ \A j \in DOMAIN fs : gs[j] = fs[j]
      /\ gs[n + 1].op = ask
  <2>1. F!Request(ask, arg).op = ask
    BY DEF F!Request
  <2> QED
    BY <2>1, SentFacts
<1>2. IsFiniteSet(V) /\ Cardinality(V) \in Nat
  BY WaitingCounted
<1> HIDE DEF gs, n
<1>3. W \subseteq V \cup {n + 1} /\ (ask # op => W \subseteq V)
  BY <1>1 DEF F!Waiting
<1> HIDE DEF V, W
<1>4. IsFiniteSet(V \cup {n + 1}) /\ Cardinality(V \cup {n + 1}) <= Cardinality(V) + 1
      /\ Cardinality(V \cup {n + 1}) \in Nat
  <2>1. /\ IsFiniteSet(V \cup {n + 1})
        /\ Cardinality(V \cup {n + 1}) \in {Cardinality(V), Cardinality(V) + 1}
    BY <1>2, FS_AddElement
  <2> QED
    BY <1>2, <2>1
<1>5. Cardinality(W) \in Nat /\ Cardinality(W) <= Cardinality(V \cup {n + 1})
      /\ (ask # op => Cardinality(W) <= Cardinality(V))
  BY <1>2, <1>3, <1>4, FS_Subset, FS_CardinalityType
<1> QED
  BY <1>2, <1>4, <1>5 DEF gs, V, W

LEMMA WaitingServed ==
  ASSUME NEW O, NEW A, NEW D, NEW fs \in Seq(Requests(O, A, D)), NEW i \in DOMAIN fs,
         NEW outcome \in F!Outcomes, outcome # "none", NEW data \in D, NEW op
  PROVE  /\ Cardinality(F!Waiting(F!Served(fs, i, outcome, data), op))
              <= Cardinality(F!Waiting(fs, op))
         /\ i \in F!Waiting(fs, op) =>
              Cardinality(F!Waiting(F!Served(fs, i, outcome, data), op)) + 1
                <= Cardinality(F!Waiting(fs, op))
<1> DEFINE gs == F!Served(fs, i, outcome, data)
           V == F!Waiting(fs, op)
           W == F!Waiting(gs, op)
<1>1. /\ DOMAIN gs = DOMAIN fs /\ gs[i].outcome = outcome
      /\ \A j \in DOMAIN fs \ {i} : gs[j] = fs[j]
  BY ServedFacts
<1>2. IsFiniteSet(V) /\ Cardinality(V) \in Nat
  BY WaitingCounted
<1> HIDE DEF gs
<1>3. W = V \ {i}
  BY <1>1 DEF F!Waiting
<1> HIDE DEF V, W
<1>4. IsFiniteSet(V \ {i}) /\ Cardinality(V \ {i}) = IF i \in V THEN Cardinality(V) - 1 ELSE Cardinality(V)
  BY <1>2, FS_RemoveElement
<1> QED
  BY <1>2, <1>3, <1>4 DEF gs, V, W

LEMMA WaitingHandled ==
  ASSUME NEW O, NEW A, NEW D, NEW fs \in Seq(Requests(O, A, D)), NEW i \in DOMAIN fs, NEW op
  PROVE  Cardinality(F!Waiting(F!Handled(fs, i), op)) <= Cardinality(F!Waiting(fs, op))
<1> DEFINE gs == F!Handled(fs, i)
           m == Len(fs)
           V == F!Waiting(fs, op)
           W == F!Waiting(gs, op)
           f == [k \in W |-> Skip(i, k)]
<1>1. /\ m \in Nat /\ DOMAIN gs = 1..(m - 1) /\ i \in 1..m
      /\ \A k \in 1..(m - 1) : Skip(i, k) \in DOMAIN fs \ {i} /\ Alike(gs[k], fs[Skip(i, k)])
  BY HandledFacts
<1>2. IsFiniteSet(V)
  BY WaitingCounted
<1> HIDE DEF gs, m
<1>3. W \subseteq 1..(m - 1) /\ \A k \in W : Skip(i, k) \in V
  BY <1>1 DEF F!Waiting, Alike
<1> HIDE DEF V, W
<1>4. \A j, k \in 1..(m - 1) : Skip(i, j) = Skip(i, k) => j = k
  BY <1>1 DEF Skip
<1>5. f \in Injection(W, V)
  BY <1>3, <1>4 DEF Injection, IsInjective
<1>6. Cardinality(W) <= Cardinality(V)
  BY <1>2, <1>5, FS_Injection
<1> QED
  BY <1>6 DEF gs, V, W

LEMMA WaitingOutdated ==
  ASSUME NEW O, NEW A, NEW D, NEW fs \in Seq(Requests(O, A, D)), NEW loads, NEW op
  PROVE  F!Waiting(F!Outdated(fs, loads), op) = F!Waiting(fs, op)
<1>1. /\ DOMAIN F!Outdated(fs, loads) = DOMAIN fs
      /\ \A j \in DOMAIN fs : Alike(F!Outdated(fs, loads)[j], fs[j])
  BY OutdatedFacts
<1> QED
  BY <1>1 DEF F!Waiting, Alike

\* A load that is not late asks for what is selected, or another load will follow.
Aimed(fs, op, selected) ==
  \A i \in DOMAIN fs : fs[i].op = op /\ ~fs[i].late => fs[i].arg = selected \/ SentAfter(fs, i, op)

LEMMA SentAimed ==
  ASSUME NEW O, NEW A, NEW D, NEW fs \in Seq(Requests(O, A, D)), NEW ask \in O, NEW arg \in A,
         {} \in D, NEW op, NEW selected,
         (ask = op /\ arg = selected) \/ (ask # op /\ Aimed(fs, op, selected))
  PROVE  Aimed(Append(fs, F!Request(ask, arg)), op, selected)
<1> DEFINE gs == Append(fs, F!Request(ask, arg))
           n == Len(fs)
<1>1. /\ n \in Nat /\ DOMAIN fs = 1..n /\ DOMAIN gs = 1..(n + 1)
      /\ \A j \in DOMAIN fs : gs[j] = fs[j]
      /\ gs[n + 1].op = ask /\ gs[n + 1].arg = arg
  <2>1. F!Request(ask, arg).op = ask /\ F!Request(ask, arg).arg = arg
    BY DEF F!Request
  <2> QED
    BY <2>1, SentFacts
<1> HIDE DEF gs, n
<1>2. /\ n + 1 \in DOMAIN gs /\ \A j \in 1..n : j \in DOMAIN gs /\ n + 1 > j
      /\ \A j \in DOMAIN gs : j \in 1..n \/ j = n + 1
  BY <1>1
<1>3. ASSUME ask # op, NEW j \in 1..n, SentAfter(fs, j, op)
      PROVE  SentAfter(gs, j, op)
  BY <1>1, <1>2, <1>3 DEF SentAfter
<1>4. ask = op => \A j \in 1..n : SentAfter(gs, j, op)
  BY <1>1, <1>2 DEF SentAfter
<1>5. Aimed(gs, op, selected)
  BY <1>1, <1>2, <1>3, <1>4 DEF Aimed
<1> QED
  BY <1>5 DEF gs

LEMMA ServedAimed ==
  ASSUME NEW O, NEW A, NEW D, NEW fs \in Seq(Requests(O, A, D)), NEW i \in DOMAIN fs,
         NEW outcome \in F!Outcomes, NEW data \in D, NEW op, NEW selected, Aimed(fs, op, selected)
  PROVE  Aimed(F!Served(fs, i, outcome, data), op, selected)
<1> DEFINE gs == F!Served(fs, i, outcome, data)
<1>1. /\ DOMAIN gs = DOMAIN fs
      /\ \A j \in DOMAIN fs : gs[j].op = fs[j].op /\ gs[j].arg = fs[j].arg /\ gs[j].late = fs[j].late
  BY ServedFacts
<1> HIDE DEF gs
<1>2. \A j \in DOMAIN fs : SentAfter(fs, j, op) => SentAfter(gs, j, op)
  BY <1>1 DEF SentAfter
<1>3. Aimed(gs, op, selected)
  BY <1>1, <1>2 DEF Aimed
<1> QED
  BY <1>3 DEF gs

LEMMA OutdatedAimed ==
  ASSUME NEW O, NEW A, NEW D, NEW fs \in Seq(Requests(O, A, D)), NEW op, NEW selected
  PROVE  Aimed(F!Outdated(fs, {op}), op, selected)
<1> DEFINE gs == F!Outdated(fs, {op})
<1>1. /\ DOMAIN gs = DOMAIN fs
      /\ \A j \in DOMAIN fs : Alike(gs[j], fs[j]) /\ (gs[j].late <=> fs[j].late \/ fs[j].op \in {op})
  BY OutdatedFacts
<1> HIDE DEF gs
<1>2. Aimed(gs, op, selected)
  BY <1>1 DEF Aimed, Alike
<1> QED
  BY <1>2 DEF gs

LEMMA HandledAimed ==
  ASSUME NEW O, NEW A, NEW D, NEW fs \in Seq(Requests(O, A, D)), NEW i \in DOMAIN fs,
         NEW op, NEW selected, Aimed(fs, op, selected)
  PROVE  /\ Aimed(F!Handled(fs, i), op, selected)
         /\ fs[i].op # op /\ Sent(fs, op) => Sent(F!Handled(fs, i), op)
         /\ SentAfter(fs, i, op) => Sent(F!Handled(fs, i), op)
<1> DEFINE gs == F!Handled(fs, i)
           m == Len(fs)
<1>1. /\ m \in Nat /\ DOMAIN fs = 1..m /\ DOMAIN gs = 1..(m - 1) /\ i \in 1..m
      /\ \A k \in 1..(m - 1) :
           /\ Skip(i, k) \in DOMAIN fs \ {i} /\ Alike(gs[k], fs[Skip(i, k)])
           /\ fs[Skip(i, k)].late => gs[k].late
           /\ Skip(i, k) < i /\ fs[Skip(i, k)].op = fs[i].op => gs[k].late
  BY HandledFacts
<1> HIDE DEF gs, m
<1>2. \A j \in (1..m) \ {i} : \E k \in 1..(m - 1) : Skip(i, k) = j
  BY <1>1, SkipOnto
<1>3. ASSUME NEW j \in (1..m) \ {i}, fs[j].op = op
      PROVE  \E k \in 1..(m - 1) : Skip(i, k) = j /\ gs[k].op = op
  BY <1>1, <1>2, <1>3 DEF Alike
<1>4. (fs[i].op # op /\ Sent(fs, op)) \/ SentAfter(fs, i, op) => Sent(gs, op)
  BY SMTT(30), <1>1, <1>3 DEF Sent, SentAfter
<1>5. ASSUME NEW k \in 1..(m - 1), gs[k].op = op, ~gs[k].late
      PROVE  gs[k].arg = selected \/ SentAfter(gs, k, op)
  <2> DEFINE j == Skip(i, k)
  <2>1. /\ j \in (1..m) \ {i} /\ fs[j].op = op /\ ~fs[j].late /\ gs[k].arg = fs[j].arg
        /\ ~(j < i /\ fs[i].op = op)
    BY <1>1, <1>5 DEF Alike
  <2>2. CASE fs[j].arg = selected
    BY <2>1, <2>2
  <2>3. CASE SentAfter(fs, j, op)
    <3>1. PICK l \in 1..m : l > j /\ fs[l].op = op
      BY <1>1, <2>3 DEF SentAfter
    <3>2. l # i
      BY <2>1, <3>1
    <3>3. PICK p \in 1..(m - 1) : Skip(i, p) = l /\ gs[p].op = op
      BY <1>3, <3>1, <3>2
    <3>4. p > k
      BY <1>1, <3>1, <3>3 DEF Skip
    <3> QED
      BY <1>1, <3>3, <3>4 DEF SentAfter
  <2> HIDE DEF j
  <2> QED
    BY <1>1, <2>1, <2>2, <2>3 DEF Aimed
<1>6. Aimed(gs, op, selected)
  BY <1>1, <1>5 DEF Aimed
<1> QED
  BY <1>4, <1>6 DEF gs

MonitorOps == {"load", "command", "reconcile"}

MonitorArgs == Names \cup {None}

MonitorData == Nat \cup {{}}

MonitorAll == Requests(MonitorOps, MonitorArgs, MonitorData)

\* The director's count never goes back.
MonitorAsk(r, count) ==
  r.op = "load" => r.arg \in Names /\ (r.outcome = "ok" => r.data \in 0..count)

MonitorRequests(count) == {r \in MonitorAll : MonitorAsk(r, count)}

MonitorViews ==
  [kind : Monitor!Kinds, shown : Nat \cup {None}, of : Names \cup {None}, selected : Names,
   loading : BOOLEAN, auto : BOOLEAN, message : {"none", "failed"}, reconciled : BOOLEAN]

MonitorPasts == [stale : SUBSET {"load"}, steps : Nat, faults : Nat]

MonitorNow(count) == [service \in Names \cup {None} |-> count]

MonitorTracks(fs, count, v, p) ==
  Tracks(fs, "load", {"reconcile"}, MonitorNow(count), v.of, v.shown, p.stale)

MonitorAims(fs, v, p) ==
  /\ Aimed(fs, "load", v.selected)
  /\ "load" \in p.stale \/ v.of = v.selected \/ Sent(fs, "load")

\* Every change is a step, made or asked for.
MonitorCounts(fs, count, p) ==
  p.steps <= MaxSteps /\ count + Cardinality(F!Waiting(fs, "reconcile")) <= p.steps

MonitorInv ==
  /\ server \in Nat /\ view \in MonitorViews /\ past \in MonitorPasts
  /\ view.shown = None \/ view.shown \in 0..server
  /\ flight \in Seq(MonitorRequests(server))
  /\ MonitorTracks(flight, server, view, past) /\ MonitorAims(flight, view, past)
  /\ MonitorCounts(flight, server, past)

LEMMA MonitorFetch ==
  /\ \A fs, i : Monitor!Handled(fs, i) = F!Handled(fs, i)
  /\ \A fs, i, o, d : Monitor!Served(fs, i, o, d) = F!Served(fs, i, o, d)
  /\ \A op, a : Monitor!Request(op, a) = F!Request(op, a)
  /\ \A fs, l : Monitor!Outdated(fs, l) = F!Outdated(fs, l)
  BY DEF Monitor!Handled, F!Handled, Monitor!Served, F!Served,
         Monitor!Request, F!Request, Monitor!Outdated, F!Outdated

LEMMA MonitorClosed ==
  ASSUME NEW count
  PROVE  /\ Closed(MonitorRequests(count), MonitorOps, MonitorArgs, MonitorData)
         /\ \A r \in MonitorRequests(count) :
              /\ r \in MonitorAll /\ MonitorAsk(r, count)
              /\ r.op \in MonitorOps /\ r.outcome \in F!Outcomes /\ r.late \in BOOLEAN
         /\ {} \in MonitorData
<1>1. \A r \in MonitorAll : r.op \in MonitorOps /\ r.outcome \in F!Outcomes /\ r.late \in BOOLEAN
  BY DEF MonitorAll, Requests
<1>2. \A r \in MonitorAll, q \in MonitorRequests(count) :
        Alike(r, q) => r \in MonitorRequests(count)
  BY DEF MonitorRequests, MonitorAsk, Alike
<1> QED
  BY <1>1, <1>2 DEF Closed, MonitorRequests, MonitorAll, MonitorData

LEMMA MonitorFacts ==
  ASSUME MonitorInv
  PROVE  /\ flight \in Seq(MonitorAll)
         /\ \A i \in DOMAIN flight :
              /\ flight[i] \in MonitorAll /\ MonitorAsk(flight[i], server)
              /\ flight[i].op \in MonitorOps /\ flight[i].outcome \in F!Outcomes
              /\ flight[i].late \in BOOLEAN
         /\ Cardinality(F!Waiting(flight, "reconcile")) \in Nat
<1> DEFINE S == MonitorRequests(server)
<1>1. flight \in Seq(S)
  BY DEF MonitorInv
<1>2. \A r \in S : /\ r \in MonitorAll /\ MonitorAsk(r, server)
                   /\ r.op \in MonitorOps /\ r.outcome \in F!Outcomes /\ r.late \in BOOLEAN
  BY MonitorClosed
<1> HIDE DEF S
<1>3. \A i \in DOMAIN flight : flight[i] \in S
  BY <1>1
<1>4. \A i \in DOMAIN flight : flight[i] \in MonitorAll
  BY <1>2, <1>3
<1>5. flight \in Seq(MonitorAll)
  BY <1>1, <1>4, LegalStill
<1>6. Cardinality(F!Waiting(flight, "reconcile")) \in Nat
  BY <1>5, WaitingCounted DEF MonitorAll
<1> QED
  BY <1>2, <1>3, <1>4, <1>5, <1>6

LEMMA MonitorActs ==
  ASSUME MonitorInv, Monitor!MayAct
  PROVE  /\ Monitor!Acted \in MonitorPasts /\ Monitor!Acted.stale = past.stale
         /\ Monitor!Acted.steps = past.steps + 1 /\ past.steps + 1 <= MaxSteps
         /\ [Monitor!Acted EXCEPT !.stale = {"load"}] \in MonitorPasts
         /\ [Monitor!Acted EXCEPT !.stale = {"load"}].stale = {"load"}
         /\ [Monitor!Acted EXCEPT !.stale = {"load"}].steps = past.steps + 1
<1>1. past \in MonitorPasts /\ past.steps < MaxSteps /\ MaxSteps \in Nat
  BY BoundsAssumption DEF MonitorInv, Monitor!MayAct
<1>2. Monitor!Acted = [past EXCEPT !.steps = past.steps + 1]
  BY DEF Monitor!Acted
<1>3. /\ Monitor!Acted \in MonitorPasts /\ Monitor!Acted.stale = past.stale
      /\ Monitor!Acted.steps = past.steps + 1
  BY <1>1, <1>2 DEF MonitorPasts
<1>4. past.steps + 1 <= MaxSteps
  BY <1>1 DEF MonitorPasts
<1> QED
  BY <1>3, <1>4 DEF MonitorPasts

\* A request was sent, a load for the service that is selected then.
LEMMA MonitorSent ==
  ASSUME MonitorInv, Monitor!MayAct, NEW op \in MonitorOps, NEW arg \in MonitorArgs,
         flight' = Append(flight, Monitor!Request(op, arg)), past' = Monitor!Acted,
         UNCHANGED server, view' \in MonitorViews, view'.shown = view.shown, view'.of = view.of,
         IF op = "load" THEN arg = view'.selected ELSE view'.selected = view.selected
  PROVE  MonitorInv'
<1> DEFINE S == MonitorRequests(server)
<1>1. /\ flight' = Append(flight, F!Request(op, arg)) /\ flight \in Seq(S)
      /\ flight \in Seq(MonitorAll)
  BY MonitorFetch, MonitorFacts DEF MonitorInv
<1>2. /\ past' \in MonitorPasts /\ past'.stale = past.stale /\ past'.steps = past.steps + 1
      /\ past'.steps <= MaxSteps /\ past.steps \in Nat /\ server \in Nat
  BY MonitorActs DEF MonitorInv, MonitorPasts
<1>3. \A r \in MonitorAll : r.op = op /\ r.arg = arg /\ r.outcome = "none" => r \in S
  BY DEF MonitorRequests, MonitorAsk, MonitorViews
<1>4. Closed(S, MonitorOps, MonitorArgs, MonitorData) /\ {} \in MonitorData
  BY MonitorClosed
<1> HIDE DEF S
<1>5. flight' \in Seq(S)
  BY <1>1, <1>3, <1>4, SentIn DEF MonitorAll
<1>6. MonitorTracks(flight', server, view', past')
  <2>1. Tracks(flight', "load", {"reconcile"}, MonitorNow(server), view.of, view.shown, past.stale)
    BY <1>1, <1>4, SentTracks DEF MonitorInv, MonitorTracks, MonitorAll
  <2> QED
    BY <1>2, <2>1 DEF MonitorTracks
<1>7. MonitorAims(flight', view', past')
  <2>1. Aimed(flight', "load", view'.selected)
    BY <1>1, <1>4, SentAimed DEF MonitorInv, MonitorAims, MonitorAll
  <2>2. op = "load" \/ Sent(flight, "load") => Sent(flight', "load")
    <3>1. /\ \A j \in DOMAIN flight : j \in DOMAIN flight' /\ flight'[j] = flight[j]
          /\ Len(flight) + 1 \in DOMAIN flight' /\ flight'[Len(flight) + 1] = F!Request(op, arg)
      BY <1>1, <1>4, SentFacts DEF MonitorAll
    <3>2. F!Request(op, arg).op = op
      BY DEF F!Request
    <3> QED
      BY <3>1, <3>2 DEF Sent
  <2> QED
    BY <1>2, <2>1, <2>2 DEF MonitorInv, MonitorAims
<1>8. MonitorCounts(flight', server, past')
  <2> DEFINE c == Cardinality(F!Waiting(flight, "reconcile"))
             d == Cardinality(F!Waiting(flight', "reconcile"))
  <2>1. d <= c + 1
    BY <1>1, <1>4, WaitingSent DEF MonitorAll
  <2>2. c \in Nat /\ d \in Nat
    <3>1. flight' \in Seq(MonitorAll)
      BY <1>1, <1>4, SentFacts DEF MonitorAll
    <3>2. \A fs \in Seq(MonitorAll) : Cardinality(F!Waiting(fs, "reconcile")) \in Nat
      BY WaitingCounted DEF MonitorAll
    <3> QED
      BY <1>1, <3>1, <3>2
  <2>3. server + c <= past.steps
    BY DEF MonitorInv, MonitorCounts
  <2> HIDE DEF c, d
  <2>4. server + d <= past'.steps
    BY <1>2, <2>1, <2>2, <2>3
  <2> QED
    BY <1>2, <2>4 DEF MonitorCounts, d
<1> QED
  BY <1>2, <1>5, <1>6, <1>7, <1>8 DEF MonitorInv, S

LEMMA MonitorPage ==
  ASSUME MonitorInv,
         \/ Monitor!Refresh \/ Monitor!RefreshChain \/ Monitor!Timer \/ Monitor!ToggleAuto
         \/ Monitor!Reconcile
         \/ \E service \in Names : Monitor!Select(service) \/ Monitor!Command(service)
  PROVE  MonitorInv'
<1>1. /\ view \in MonitorViews /\ view.selected \in MonitorArgs /\ view.selected \in Names
      /\ {"load", "command", "reconcile"} \subseteq MonitorOps /\ None \in MonitorArgs
      /\ Names \subseteq MonitorArgs
  BY DEF MonitorInv, MonitorViews, MonitorArgs, MonitorOps
<1>2. CASE Monitor!Refresh \/ Monitor!Timer
  <2>1. /\ Monitor!MayAct /\ past' = Monitor!Acted /\ UNCHANGED <<server, view>>
        /\ flight' = Append(flight, Monitor!Request("load", view.selected))
    BY <1>2 DEF Monitor!Refresh, Monitor!Timer, Monitor!MaySend, Monitor!Loads, Monitor!Load
  <2> QED
    BY <1>1, <2>1, MonitorSent
<1>3. CASE Monitor!RefreshChain
  <2>1. /\ Monitor!MayAct /\ past' = Monitor!Acted /\ UNCHANGED server
        /\ view' = [view EXCEPT !.loading = TRUE]
        /\ flight' = Append(flight, Monitor!Request("load", view.selected))
    BY <1>3 DEF Monitor!RefreshChain, Monitor!MaySend, Monitor!Loads, Monitor!Load
  <2>2. /\ view' \in MonitorViews /\ view'.shown = view.shown /\ view'.of = view.of
        /\ view'.selected = view.selected
    BY <1>1, <2>1 DEF MonitorViews
  <2> QED
    BY <1>1, <2>1, <2>2, MonitorSent
<1>4. CASE Monitor!ToggleAuto
  <2>1. /\ Monitor!MayAct /\ past' = Monitor!Acted /\ UNCHANGED server
        /\ view' = [view EXCEPT !.auto = ~view.auto]
        /\ \/ flight' = Append(flight, Monitor!Request("load", view.selected))
           \/ UNCHANGED flight
    BY <1>4 DEF Monitor!ToggleAuto, Monitor!MaySend, Monitor!Loads, Monitor!Load
  <2>2. /\ view' \in MonitorViews /\ view'.shown = view.shown /\ view'.of = view.of
        /\ view'.selected = view.selected
    BY <1>1, <2>1 DEF MonitorViews
  <2>3. CASE UNCHANGED flight
    <3>1. /\ past' \in MonitorPasts /\ past'.stale = past.stale /\ past'.steps = past.steps + 1
          /\ past'.steps <= MaxSteps /\ past.steps \in Nat /\ server \in Nat
      BY <2>1, MonitorActs DEF MonitorInv, MonitorPasts
    <3>2. MonitorCounts(flight, server, past')
      BY <3>1, MonitorFacts DEF MonitorInv, MonitorCounts
    <3> QED
      BY <2>1, <2>2, <2>3, <3>1, <3>2 DEF MonitorInv, MonitorTracks, MonitorAims
  <2> QED
    BY <1>1, <2>1, <2>2, <2>3, MonitorSent
<1>5. CASE Monitor!Reconcile
  <2>1. /\ Monitor!MayAct /\ past' = Monitor!Acted /\ UNCHANGED <<server, view>>
        /\ flight' = Append(flight, Monitor!Request("reconcile", None))
    BY <1>5 DEF Monitor!Reconcile, Monitor!MaySend
  <2> QED
    BY <1>1, <2>1, MonitorSent
<1>6. ASSUME NEW service \in Names, Monitor!Select(service)
      PROVE  MonitorInv'
  <2>1. /\ Monitor!MayAct /\ past' = Monitor!Acted /\ UNCHANGED server
        /\ view' = [view EXCEPT !.selected = service]
        /\ flight' = Append(flight, Monitor!Request("load", service))
    BY <1>6 DEF Monitor!Select, Monitor!MaySend, Monitor!Loads, Monitor!Load
  <2>2. /\ view' \in MonitorViews /\ view'.shown = view.shown /\ view'.of = view.of
        /\ view'.selected = service
    BY <1>1, <2>1 DEF MonitorViews
  <2> QED
    BY <1>1, <2>1, <2>2, MonitorSent
<1>7. ASSUME NEW service \in Names, Monitor!Command(service)
      PROVE  MonitorInv'
  <2>1. /\ Monitor!MayAct /\ past' = Monitor!Acted /\ UNCHANGED server
        /\ view' = [view EXCEPT !.message = "none"]
        /\ flight' = Append(flight, Monitor!Request("command", service))
    BY <1>7 DEF Monitor!Command, Monitor!MaySend
  <2>2. /\ view' \in MonitorViews /\ view'.shown = view.shown /\ view'.of = view.of
        /\ view'.selected = view.selected
    BY <1>1, <2>1 DEF MonitorViews
  <2> QED
    BY <1>1, <2>1, <2>2, MonitorSent
<1> QED
  BY <1>2, <1>3, <1>4, <1>5, <1>6, <1>7

\* A request was served, or failed.
LEMMA MonitorAnswered ==
  ASSUME MonitorInv, NEW i \in DOMAIN flight, NEW outcome \in {"ok", "refused", "throws"},
         NEW data \in MonitorData, flight' = Monitor!Served(flight, i, outcome, data),
         UNCHANGED view, past' \in MonitorPasts, past'.stale = past.stale, past'.steps = past.steps,
         flight[i].op = "load" /\ outcome = "ok" => data = server,
         flight[i].op = "reconcile" => outcome # "refused" \/ flight[i].outcome = "none",
         \/ server' = server
         \/ /\ flight[i].op = "reconcile" /\ flight[i].outcome = "none" /\ outcome = "ok"
            /\ server' = server + 1
  PROVE  MonitorInv'
<1> DEFINE S == MonitorRequests(server')
           r == flight[i]
<1>1. /\ flight' = F!Served(flight, i, outcome, data) /\ outcome \in F!Outcomes /\ outcome # "none"
      /\ flight \in Seq(MonitorAll) /\ MonitorAsk(r, server)
  BY MonitorFetch, MonitorFacts DEF F!Outcomes
<1>2. /\ server \in Nat /\ server' \in Nat /\ 0..server \subseteq 0..server' /\ server \in 0..server'
  BY DEF MonitorInv
<1>3. flight' \in Seq(S)
  <2>1. flight \in Seq(S)
    <3>1. \A j \in DOMAIN flight : flight[j] \in S
      BY <1>2, MonitorFacts DEF MonitorRequests, MonitorAsk
    <3> QED
      BY <1>1, <3>1, LegalStill
  <2>2. \A q \in MonitorAll :
          q.op = r.op /\ q.arg = r.arg /\ q.outcome = outcome /\ q.data = data => q \in S
    BY <1>1, <1>2 DEF MonitorRequests, MonitorAsk
  <2>3. Closed(S, MonitorOps, MonitorArgs, MonitorData)
    BY MonitorClosed
  <2> HIDE DEF S, r
  <2> QED
    BY <1>1, <2>1, <2>2, <2>3, ServedIn DEF MonitorAll, r
<1>4. MonitorTracks(flight', server', view, past)
  <2>1. Tracks(flight, "load", {"reconcile"}, MonitorNow(server), view.of, view.shown, past.stale)
    BY DEF MonitorInv, MonitorTracks
  <2>2. /\ "load" \notin {"reconcile"}
        /\ r.op \in {"reconcile"} => outcome \in {"ok", "throws"} \/ r.outcome = "none"
        /\ MonitorNow(server') = MonitorNow(server)
           \/ (r.op \in {"reconcile"} /\ outcome \in {"ok", "throws"})
    OBVIOUS
  <2>3. r.op = "load" => outcome # "ok" \/ data = MonitorNow(server)[r.arg]
    BY <1>1 DEF MonitorAsk, MonitorNow
  <2> HIDE DEF r
  <2> QED
    BY <1>1, <2>1, <2>2, <2>3, ServedTracks DEF MonitorTracks, MonitorAll, r
<1>5. MonitorAims(flight', view, past)
  <2>1. Aimed(flight', "load", view.selected)
    BY <1>1, ServedAimed DEF MonitorAll, MonitorInv, MonitorAims
  <2>2. Sent(flight, "load") => Sent(flight', "load")
    BY <1>1, ServedFacts DEF MonitorAll, Sent
  <2> QED
    BY <2>1, <2>2 DEF MonitorInv, MonitorAims
<1>6. MonitorCounts(flight', server', past')
  <2> DEFINE V == F!Waiting(flight, "reconcile")
             W == F!Waiting(flight', "reconcile")
  <2>1. /\ Cardinality(W) <= Cardinality(V)
        /\ i \in V => Cardinality(W) + 1 <= Cardinality(V)
    BY <1>1, WaitingServed DEF MonitorAll
  <2>2. Cardinality(V) \in Nat /\ Cardinality(W) \in Nat
    <3>1. flight' \in Seq(MonitorAll)
      BY <1>1, ServedFacts DEF MonitorAll
    <3>2. \A fs \in Seq(MonitorAll) : Cardinality(F!Waiting(fs, "reconcile")) \in Nat
      BY WaitingCounted DEF MonitorAll
    <3> QED
      BY <1>1, <3>1, <3>2
  <2>3. server' = server \/ (i \in V /\ server' = server + 1)
    BY DEF F!Waiting
  <2>4. server + Cardinality(V) <= past.steps /\ past.steps <= MaxSteps /\ past.steps \in Nat
    BY DEF MonitorInv, MonitorCounts, MonitorPasts
  <2> HIDE DEF V, W
  <2>5. server' + Cardinality(W) <= past.steps
    BY <1>2, <2>1, <2>2, <2>3, <2>4
  <2> QED
    BY <2>4, <2>5 DEF MonitorCounts, W
<1>7. view.shown = None \/ view.shown \in 0..server'
  BY <1>2 DEF MonitorInv
<1> QED
  BY <1>2, <1>3, <1>4, <1>5, <1>6, <1>7 DEF MonitorInv, MonitorTracks, MonitorAims

LEMMA MonitorServes ==
  ASSUME MonitorInv, NEW i \in DOMAIN flight,
         \/ Monitor!ServeLoad(i) \/ Monitor!ServeCommand(i) \/ Monitor!ServeReconcile(i)
         \/ Monitor!Fail(i)
  PROVE  MonitorInv'
<1> DEFINE r == flight[i]
<1>1. server \in MonitorData /\ {} \in MonitorData /\ past \in MonitorPasts
  BY DEF MonitorInv, MonitorData
<1>2. CASE Monitor!ServeLoad(i)
  <2>1. /\ r.op = "load" /\ flight' = Monitor!Served(flight, i, "ok", server)
        /\ UNCHANGED <<server, view, past>>
    BY <1>2 DEF Monitor!ServeLoad, Monitor!Waiting
  <2> QED
    BY <1>1, <2>1, MonitorAnswered
<1>3. CASE Monitor!ServeCommand(i)
  <2>1. /\ r.op = "command" /\ flight' = Monitor!Served(flight, i, "refused", {})
        /\ UNCHANGED <<server, view, past>>
    BY <1>3 DEF Monitor!ServeCommand, Monitor!Waiting
  <2> QED
    BY <1>1, <2>1, MonitorAnswered
<1>4. CASE Monitor!ServeReconcile(i)
  <2>1. /\ r.op = "reconcile" /\ r.outcome = "none"
        /\ flight' = Monitor!Served(flight, i, "ok", {}) /\ server' = server + 1
        /\ UNCHANGED <<view, past>>
    BY <1>4 DEF Monitor!ServeReconcile, Monitor!Waiting
  <2> QED
    BY <1>1, <2>1, MonitorAnswered
<1>5. CASE Monitor!Fail(i)
  <2>1. /\ flight' = Monitor!Served(flight, i, "throws", {}) /\ UNCHANGED <<server, view>>
        /\ past' = [past EXCEPT !.faults = past.faults + 1]
    BY <1>5 DEF Monitor!Fail
  <2>2. past' \in MonitorPasts /\ past'.stale = past.stale /\ past'.steps = past.steps
    BY <1>1, <2>1 DEF MonitorPasts
  <2> QED
    BY <1>1, <2>1, <2>2, MonitorAnswered
<1> QED
  BY <1>2, <1>3, <1>4, <1>5

\* Another service reports.
LEMMA MonitorReports ==
  ASSUME MonitorInv, Monitor!Heartbeat
  PROVE  MonitorInv'
<1> DEFINE S == MonitorRequests(server')
<1>1. /\ Monitor!MayAct /\ server' = server + 1 /\ UNCHANGED view
      /\ flight' = F!Outdated(flight, {"load"})
      /\ past' = [Monitor!Acted EXCEPT !.stale = {"load"}]
  BY MonitorFetch DEF Monitor!Heartbeat
<1>2. /\ past' \in MonitorPasts /\ past'.stale = {"load"} /\ past'.steps = past.steps + 1
      /\ past'.steps <= MaxSteps
  BY <1>1, MonitorActs
<1>3. /\ server \in Nat /\ server' \in Nat /\ 0..server \subseteq 0..server'
      /\ past.steps \in Nat /\ flight \in Seq(MonitorAll)
  BY <1>1, MonitorFacts DEF MonitorInv, MonitorPasts
<1>4. flight' \in Seq(S)
  <2>1. flight \in Seq(S)
    <3>1. \A j \in DOMAIN flight : flight[j] \in S
      BY <1>3, MonitorFacts DEF MonitorRequests, MonitorAsk
    <3> QED
      BY <1>3, <3>1, LegalStill
  <2>2. Closed(S, MonitorOps, MonitorArgs, MonitorData)
    BY MonitorClosed
  <2> HIDE DEF S
  <2> QED
    BY <1>1, <2>1, <2>2, OutdatedIn
<1>5. MonitorTracks(flight', server', view, past')
  <2>1. IF "load" \in {"load"} THEN "load" \in {"load"} ELSE FALSE
    OBVIOUS
  <2>2. Tracks(flight', "load", {"reconcile"}, MonitorNow(server'), view.of, view.shown, {"load"})
    BY <1>1, <1>3, <2>1, OutdatedTracks DEF MonitorAll
  <2> QED
    BY <1>2, <2>2 DEF MonitorTracks
<1>6. MonitorAims(flight', view, past')
  BY <1>1, <1>2, <1>3, OutdatedAimed DEF MonitorAims, MonitorAll
<1>7. MonitorCounts(flight', server', past')
  <2>1. F!Waiting(flight', "reconcile") = F!Waiting(flight, "reconcile")
    BY <1>1, <1>3, WaitingOutdated DEF MonitorAll
  <2> QED
    BY <1>1, <1>2, <1>3, <2>1, MonitorFacts DEF MonitorInv, MonitorCounts
<1>8. view.shown = None \/ view.shown \in 0..server'
  BY <1>3 DEF MonitorInv
<1> QED
  BY <1>1, <1>2, <1>3, <1>4, <1>5, <1>6, <1>7, <1>8
  DEF MonitorInv, MonitorTracks, MonitorAims

\* The answers.
LEMMA MonitorLoaded ==
  ASSUME MonitorInv, NEW i \in DOMAIN flight, Monitor!HandleLoad(i)
  PROVE  MonitorInv'
<1> DEFINE r == flight[i]
           S == MonitorRequests(server)
           stale == Monitor!StaleAfterLoad(past.stale, r)
<1>1. /\ view \in MonitorViews /\ past \in MonitorPasts /\ MonitorAsk(r, server)
      /\ flight \in Seq(S) /\ flight \in Seq(MonitorAll)
      /\ view.shown = None \/ view.shown \in 0..server
      /\ MonitorTracks(flight, server, view, past) /\ MonitorAims(flight, view, past)
      /\ MonitorCounts(flight, server, past) /\ server \in Nat
  BY MonitorFacts DEF MonitorInv
<1>2. /\ r.op = "load" /\ flight' = F!Handled(flight, i) /\ UNCHANGED server
      /\ view' = IF r.outcome = "ok"
                 THEN [view EXCEPT !.shown = r.data, !.of = r.arg, !.loading = FALSE]
                 ELSE [view EXCEPT !.loading = view.loading /\ ~Monitor!ShowsNodes]
      /\ past' = [past EXCEPT !.stale = stale]
  BY MonitorFetch DEF Monitor!HandleLoad, Monitor!Answers
<1>3. /\ stale \in SUBSET {"load"}
      /\ "load" \in stale \/ (r.outcome = "ok" /\ ~r.late)
  BY <1>1, <1>2 DEF MonitorPasts, Monitor!StaleAfterLoad
<1>4. /\ r.arg \in Names /\ (r.outcome = "ok" => r.data \in 0..server /\ r.data \in Nat)
  BY <1>1, <1>2 DEF MonitorAsk
<1>5. Closed(S, MonitorOps, MonitorArgs, MonitorData)
  BY MonitorClosed
<1> HIDE DEF stale, S
<1>6. flight' \in Seq(S)
  BY <1>1, <1>2, <1>5, HandledIn
<1>7. past' \in MonitorPasts /\ past'.stale = stale /\ past'.steps = past.steps
  BY <1>1, <1>2, <1>3 DEF MonitorPasts
<1> HIDE DEF r
<1>8. /\ view' \in MonitorViews /\ view'.selected = view.selected
      /\ view'.shown = None \/ view'.shown \in 0..server
      /\ r.outcome = "ok" => view'.shown = r.data /\ view'.of = r.arg
  <2>1. CASE r.outcome = "ok"
    BY <1>1, <1>2, <1>4, <2>1 DEF MonitorViews
  <2>2. CASE r.outcome # "ok"
    <3> DEFINE loading == view.loading /\ ~Monitor!ShowsNodes
    <3>1. loading \in BOOLEAN /\ view' = [view EXCEPT !.loading = loading]
      BY <1>2, <2>2
    <3> HIDE DEF loading
    <3>2. view' \in MonitorViews /\ view'.selected = view.selected /\ view'.shown = view.shown
      BY <1>1, <3>1 DEF MonitorViews
    <3> QED
      BY <1>1, <2>2, <3>2
  <2> QED
    BY <2>1, <2>2
<1>9. MonitorTracks(flight', server, view', past')
  <2>1. /\ r.op = "load" /\ "load" \notin {"reconcile"} /\ r.op \notin {"reconcile"}
        /\ "load" \in stale
           \/ (r.outcome = "ok" /\ ~r.late /\ view'.of = r.arg /\ view'.shown = r.data)
    BY <1>2, <1>3, <1>8
  <2> QED
    BY <1>1, <1>2, <1>7, <2>1, HandledTracks DEF MonitorTracks, MonitorAll, r
<1>10. MonitorAims(flight', view', past')
  <2>1. /\ Aimed(flight', "load", view.selected)
        /\ SentAfter(flight, i, "load") => Sent(flight', "load")
    BY <1>1, <1>2, HandledAimed DEF MonitorAims, MonitorAll
  <2>2. "load" \notin stale => r.arg = view.selected \/ SentAfter(flight, i, "load")
    BY <1>1, <1>2, <1>3 DEF MonitorAims, Aimed, r
  <2> QED
    BY <1>3, <1>7, <1>8, <2>1, <2>2 DEF MonitorAims
<1>11. MonitorCounts(flight', server, past')
  <2>1. Cardinality(F!Waiting(flight', "reconcile")) <= Cardinality(F!Waiting(flight, "reconcile"))
    BY <1>1, <1>2, WaitingHandled DEF MonitorAll
  <2>2. \A fs \in Seq(MonitorAll) : Cardinality(F!Waiting(fs, "reconcile")) \in Nat
    BY WaitingCounted DEF MonitorAll
  <2>3. flight' \in Seq(MonitorAll)
    BY <1>1, <1>2, HandledFacts DEF MonitorAll
  <2> QED
    BY <1>1, <1>7, <2>1, <2>2, <2>3 DEF MonitorCounts, MonitorPasts
<1> QED
  BY <1>1, <1>2, <1>6, <1>7, <1>8, <1>9, <1>10, <1>11 DEF MonitorInv, S

LEMMA MonitorCommanded ==
  ASSUME MonitorInv, NEW i \in DOMAIN flight, Monitor!HandleCommand(i)
  PROVE  MonitorInv'
<1> DEFINE r == flight[i]
           S == MonitorRequests(server)
<1>1. /\ view \in MonitorViews /\ past \in MonitorPasts
      /\ flight \in Seq(S) /\ flight \in Seq(MonitorAll)
      /\ MonitorTracks(flight, server, view, past) /\ MonitorAims(flight, view, past)
      /\ MonitorCounts(flight, server, past) /\ server \in Nat
  BY MonitorFacts DEF MonitorInv
<1>2. /\ r.op = "command" /\ flight' = F!Handled(flight, i) /\ UNCHANGED <<server, past>>
      /\ view' = IF r.outcome = "refused" THEN [view EXCEPT !.message = "failed"] ELSE view
  BY MonitorFetch DEF Monitor!HandleCommand, Monitor!Answers
<1>3. Closed(S, MonitorOps, MonitorArgs, MonitorData)
  BY MonitorClosed
<1> HIDE DEF S
<1>4. flight' \in Seq(S)
  BY <1>1, <1>2, <1>3, HandledIn
<1> HIDE DEF r
<1>5. /\ view' \in MonitorViews /\ view'.selected = view.selected
      /\ view'.shown = view.shown /\ view'.of = view.of
  BY <1>1, <1>2 DEF MonitorViews
<1>6. MonitorTracks(flight', server, view', past)
  <2>1. "load" \notin {"reconcile"} /\ r.op # "load" /\ r.op \notin {"reconcile"}
    BY <1>2
  <2>2. Tracks(flight', "load", {"reconcile"}, MonitorNow(server), view.of, view.shown, past.stale)
    BY <1>1, <1>2, <2>1, HandledTracks DEF MonitorTracks, MonitorAll, r
  <2> QED
    BY <1>5, <2>2 DEF MonitorTracks
<1>7. MonitorAims(flight', view', past)
  <2>1. Aimed(flight', "load", view.selected) /\ (Sent(flight, "load") => Sent(flight', "load"))
    BY <1>1, <1>2, HandledAimed DEF MonitorAims, MonitorAll, r
  <2> QED
    BY <1>1, <1>5, <2>1 DEF MonitorAims
<1>8. MonitorCounts(flight', server, past)
  <2>1. Cardinality(F!Waiting(flight', "reconcile")) <= Cardinality(F!Waiting(flight, "reconcile"))
    BY <1>1, <1>2, WaitingHandled DEF MonitorAll
  <2>2. \A fs \in Seq(MonitorAll) : Cardinality(F!Waiting(fs, "reconcile")) \in Nat
    BY WaitingCounted DEF MonitorAll
  <2>3. flight' \in Seq(MonitorAll)
    BY <1>1, <1>2, HandledFacts DEF MonitorAll
  <2> QED
    BY <1>1, <2>1, <2>2, <2>3 DEF MonitorCounts, MonitorPasts
<1> QED
  BY <1>1, <1>2, <1>4, <1>5, <1>6, <1>7, <1>8 DEF MonitorInv, S

\* A reconciliation was answered: the page loads again if it was good.
LEMMA MonitorReconciled ==
  ASSUME MonitorInv, NEW i \in DOMAIN flight, Monitor!HandleReconcile(i)
  PROVE  MonitorInv'
<1> DEFINE r == flight[i]
           rest == F!Handled(flight, i)
           S == MonitorRequests(server)
<1>1. /\ view \in MonitorViews /\ past \in MonitorPasts
      /\ flight \in Seq(S) /\ flight \in Seq(MonitorAll)
      /\ MonitorTracks(flight, server, view, past) /\ MonitorAims(flight, view, past)
      /\ MonitorCounts(flight, server, past) /\ server \in Nat
  BY MonitorFacts DEF MonitorInv
<1>2. /\ r.op = "reconcile" /\ UNCHANGED server
      /\ view' = IF r.outcome = "ok" THEN [view EXCEPT !.reconciled = TRUE] ELSE view
      /\ flight' = IF r.outcome = "ok" THEN Append(rest, F!Request("load", view.selected))
                   ELSE F!Outdated(rest, {"load"})
      /\ past' = [past EXCEPT !.stale = IF r.outcome = "ok" THEN past.stale ELSE {"load"}]
  BY MonitorFetch DEF Monitor!HandleReconcile, Monitor!Answers, Monitor!Load
<1>3. /\ Closed(S, MonitorOps, MonitorArgs, MonitorData) /\ {} \in MonitorData
      /\ "load" \in MonitorOps /\ view.selected \in MonitorArgs /\ view.selected \in Names
  BY <1>1, MonitorClosed DEF MonitorOps, MonitorArgs, MonitorViews
<1>4. \A q \in MonitorAll :
        q.op = "load" /\ q.arg = view.selected /\ q.outcome = "none" => q \in S
  BY <1>3 DEF MonitorRequests, MonitorAsk
<1> HIDE DEF S
<1>5. rest \in Seq(S) /\ rest \in Seq(MonitorAll)
  <2>1. rest \in Seq(MonitorAll)
    BY <1>1, HandledFacts DEF MonitorAll
  <2> QED
    BY <1>1, <1>3, <2>1, HandledIn
<1>6. /\ past' \in MonitorPasts /\ past'.steps = past.steps
      /\ past'.stale = IF r.outcome = "ok" THEN past.stale ELSE {"load"}
  BY <1>1, <1>2 DEF MonitorPasts
<1>7. /\ view' \in MonitorViews /\ view'.selected = view.selected
      /\ view'.shown = view.shown /\ view'.of = view.of
  <2> HIDE DEF r
  <2> QED
    BY <1>1, <1>2 DEF MonitorViews
<1>8. /\ Aimed(rest, "load", view.selected)
      /\ Cardinality(F!Waiting(rest, "reconcile")) <= Cardinality(F!Waiting(flight, "reconcile"))
  BY <1>1, HandledAimed, WaitingHandled DEF MonitorAims, MonitorAll
<1>9. \A fs \in Seq(MonitorAll) : Cardinality(F!Waiting(fs, "reconcile")) \in Nat
  BY WaitingCounted DEF MonitorAll
<1> HIDE DEF rest, r
<1>10. flight' \in Seq(S) /\ flight' \in Seq(MonitorAll)
  <2>1. CASE r.outcome = "ok"
    BY <1>2, <1>3, <1>4, <1>5, <2>1, SentIn, SentFacts DEF MonitorAll
  <2>2. CASE r.outcome # "ok"
    BY <1>2, <1>3, <1>5, <2>2, OutdatedIn, OutdatedFacts DEF MonitorAll
  <2> QED
    BY <2>1, <2>2
<1>11. Cardinality(F!Waiting(flight', "reconcile")) <= Cardinality(F!Waiting(rest, "reconcile"))
  <2>1. CASE r.outcome = "ok"
    BY <1>2, <1>3, <1>5, <2>1, WaitingSent DEF MonitorAll
  <2>2. CASE r.outcome # "ok"
    <3>1. F!Waiting(flight', "reconcile") = F!Waiting(rest, "reconcile")
      BY <1>2, <1>5, <2>2, WaitingOutdated DEF MonitorAll
    <3> QED
      BY <1>5, <1>9, <3>1
  <2> QED
    BY <2>1, <2>2
<1>12. MonitorCounts(flight', server, past')
  BY <1>1, <1>5, <1>6, <1>8, <1>9, <1>10, <1>11 DEF MonitorCounts, MonitorPasts
<1>13. CASE r.outcome = "ok"
  <2>1. flight' = Append(rest, F!Request("load", view.selected)) /\ past'.stale = past.stale
    BY <1>2, <1>6, <1>13
  <2>2. MonitorTracks(flight', server, view', past')
    <3>1. Tracks(flight', "load", {"reconcile"}, MonitorNow(server), view.of, view.shown, past.stale)
      BY <1>3, <1>5, <2>1, SentTracks DEF MonitorAll
    <3> QED
      BY <1>7, <2>1, <3>1 DEF MonitorTracks
  <2>3. Aimed(flight', "load", view.selected)
    BY <1>3, <1>5, <1>8, <2>1, SentAimed DEF MonitorAll
  <2>4. Sent(flight', "load")
    <3>1. /\ Len(rest) + 1 \in DOMAIN flight'
          /\ flight'[Len(rest) + 1] = F!Request("load", view.selected)
      BY <1>3, <1>5, <2>1, SentFacts DEF MonitorAll
    <3> QED
      BY <3>1 DEF Sent, F!Request
  <2> QED
    BY <1>1, <1>2, <1>6, <1>7, <1>10, <1>12, <2>2, <2>3, <2>4, MonitorFacts
    DEF MonitorInv, MonitorAims, S
<1>14. CASE r.outcome # "ok"
  <2>1. flight' = F!Outdated(rest, {"load"}) /\ past'.stale = {"load"}
    BY <1>2, <1>6, <1>14
  <2>2. MonitorTracks(flight', server, view', past')
    <3>1. IF "load" \in {"load"} THEN "load" \in {"load"} ELSE FALSE
      OBVIOUS
    <3>2. Tracks(flight', "load", {"reconcile"}, MonitorNow(server), view.of, view.shown, {"load"})
      BY <1>5, <2>1, <3>1, OutdatedTracks DEF MonitorAll
    <3> QED
      BY <1>7, <2>1, <3>2 DEF MonitorTracks
  <2>3. Aimed(flight', "load", view.selected)
    BY <1>5, <2>1, OutdatedAimed DEF MonitorAll
  <2> QED
    BY <1>1, <1>2, <1>6, <1>7, <1>10, <1>12, <2>1, <2>2, <2>3, MonitorFacts
    DEF MonitorInv, MonitorAims, S
<1> QED
  BY <1>13, <1>14

LEMMA MonitorInit == ASSUME Monitor!Init PROVE MonitorInv
<1> DEFINE S == MonitorRequests(server)
<1>1. PICK kind \in Monitor!Kinds, service \in Names :
        /\ view = [kind |-> kind, shown |-> None, of |-> None, selected |-> service,
                   loading |-> TRUE, auto |-> FALSE, message |-> "none", reconciled |-> FALSE]
        /\ flight = <<F!Request("load", service)>>
  BY MonitorFetch DEF Monitor!Init, Monitor!Load
<1>2. server = 0 /\ past = [stale |-> {}, steps |-> 0, faults |-> 0]
  BY DEF Monitor!Init
<1>3. /\ view \in MonitorViews /\ view.shown = None /\ view.selected = service
      /\ server \in Nat
  BY <1>1, <1>2 DEF MonitorViews
<1>4. past \in MonitorPasts /\ past.steps = 0
  BY <1>2 DEF MonitorPasts
<1>5. /\ flight = Append(<<>>, F!Request("load", service)) /\ <<>> \in Seq(S)
      /\ <<>> \in Seq(MonitorAll)
  BY <1>1
<1>6. \A q \in MonitorAll : q.op = "load" /\ q.arg = service /\ q.outcome = "none" => q \in S
  BY DEF MonitorRequests, MonitorAsk
<1>7. /\ "load" \in MonitorOps /\ service \in MonitorArgs /\ {} \in MonitorData
      /\ Closed(S, MonitorOps, MonitorArgs, MonitorData)
  BY MonitorClosed DEF MonitorOps, MonitorArgs
<1> HIDE DEF S
<1>8. flight \in Seq(S)
  BY ZenonT(60), <1>5, <1>6, <1>7, SentIn DEF MonitorAll
<1>9. MonitorTracks(flight, server, view, past)
  BY <1>5, <1>7, SentTracks DEF MonitorTracks, MonitorAll
<1>10. MonitorAims(flight, view, past)
  <2>1. Aimed(flight, "load", service)
    BY <1>5, <1>7, SentAimed DEF MonitorAll
  <2>2. Sent(flight, "load")
    BY <1>1 DEF Sent, F!Request
  <2> QED
    BY <1>3, <2>1, <2>2 DEF MonitorAims
<1>11. F!Waiting(flight, "reconcile") = {}
  BY <1>1 DEF F!Waiting, F!Request
<1>12. MonitorCounts(flight, server, past)
  BY <1>2, <1>4, <1>11, FS_EmptySet, BoundsAssumption DEF MonitorCounts
<1> QED
  BY <1>3, <1>4, <1>8, <1>9, <1>10, <1>12 DEF MonitorInv, S

LEMMA MonitorNext ==
  ASSUME MonitorInv, Monitor!Next
  PROVE  MonitorInv'
  BY MonitorPage, MonitorServes, MonitorReports, MonitorLoaded, MonitorCommanded,
     MonitorReconciled DEF Monitor!Next

\* The properties of the page.
LEMMA MonitorShows ==
  ASSUME MonitorInv
  PROVE  Monitor!TypeOK /\ Monitor!ViewConverges
<1>1. /\ server \in Nat /\ view \in MonitorViews
      /\ view.shown = None \/ view.shown \in 0..server
      /\ MonitorTracks(flight, server, view, past) /\ MonitorAims(flight, view, past)
      /\ MonitorCounts(flight, server, past) /\ past.steps \in Nat
  BY DEF MonitorInv, MonitorPasts
<1>2. Monitor!TypeOK
  <2>1. \A i \in DOMAIN flight : Monitor!IsRequest(flight[i], {"load", "command", "reconcile"})
    BY MonitorFacts DEF Monitor!IsRequest, Monitor!Outcomes, F!Outcomes, MonitorOps
  <2>2. server \in 0..MaxSteps
    BY <1>1, MonitorFacts, BoundsAssumption DEF MonitorCounts
  <2>3. /\ view.kind \in Monitor!Kinds /\ view.selected \in Names /\ view.of \in Names \cup {None}
        /\ view.message \in {"none", "failed"} /\ view.loading \in BOOLEAN
    BY <1>1 DEF MonitorViews
  <2> QED
    BY <1>1, <2>1, <2>2, <2>3 DEF Monitor!TypeOK
<1>3. Monitor!ViewConverges
  <2>1. ASSUME flight = <<>>, past.stale = {}
        PROVE  view.shown = server /\ view.of = view.selected
    <3>1. view.shown = MonitorNow(server)[view.of]
      BY <1>1, <2>1, TracksIdle DEF MonitorTracks
    <3>2. MonitorNow(server)[view.of] = server
      BY <1>1 DEF MonitorNow, MonitorViews
    <3>3. view.of = view.selected
      BY <1>1, <2>1 DEF MonitorAims, Sent
    <3> QED
      BY <3>1, <3>2, <3>3
  <2> QED
    BY <2>1 DEF Monitor!ViewConverges
<1> QED
  BY <1>2, <1>3

-----------------------------------------------------------------------------
(* All pages. *)

Inv ==
  /\ page = "session" => SessionInv
  /\ page = "users" => UsersInv
  /\ page = "brokers" => BrokersInv
  /\ page = "settings" => SettingsInv
  /\ page = "documents" => DocumentsInv
  /\ page = "nodes" => NodesInv
  /\ page = "templates" => TemplatesInv
  /\ page = "flasher" => FlasherInv
  /\ page = "keywords" => KeywordsInv
  /\ page = "support" => SupportInv
  /\ page = "mail" => MailInv
  /\ page = "payments" => PaymentsInv
  /\ page = "monitor" => MonitorInv

\* The invariant of each page holds while it is open.  The page that is open never
\* changes in a behaviour, so each step is one of that page.
LEMMA Invariant == Spec => []Inv
<1>1. ASSUME Init
      PROVE  Inv
  BY <1>1, SessionInit, UsersInit, BrokersInit, SettingsInit, DocumentsInit, NodesInit,
     TemplatesInit, FlasherInit, KeywordsInit, SupportInit, MailInit, PaymentsInit, MonitorInit
  DEF Init, Inv
<1>2. ASSUME Inv, Next
      PROVE  Inv'
  <2>1. CASE page = "session" /\ Session!Next /\ UNCHANGED page
    BY <1>2, <2>1, SessionNext DEF Inv
  <2>2. CASE page = "users" /\ Users!Next /\ UNCHANGED page
    BY <1>2, <2>2, UsersNext DEF Inv
  <2>3. CASE page = "brokers" /\ Brokers!Next /\ UNCHANGED page
    BY <1>2, <2>3, BrokersNext DEF Inv
  <2>4. CASE page = "settings" /\ Settings!Next /\ UNCHANGED page
    BY <1>2, <2>4, SettingsNext DEF Inv
  <2>5. CASE page = "documents" /\ Documents!Next /\ UNCHANGED page
    BY <1>2, <2>5, DocumentsNext DEF Inv
  <2>6. CASE page = "nodes" /\ Nodes!Next /\ UNCHANGED page
    BY <1>2, <2>6, NodesNext DEF Inv
  <2>7. CASE page = "templates" /\ Templates!Next /\ UNCHANGED page
    BY <1>2, <2>7, TemplatesNext DEF Inv
  <2>8. CASE page = "flasher" /\ Flasher!Next /\ UNCHANGED page
    BY <1>2, <2>8, FlasherNext DEF Inv
  <2>9. CASE page = "keywords" /\ Keywords!Next /\ UNCHANGED page
    BY <1>2, <2>9, KeywordsNext DEF Inv
  <2>10. CASE page = "support" /\ Support!Next /\ UNCHANGED page
    BY <1>2, <2>10, SupportNext DEF Inv
  <2>11. CASE page = "mail" /\ Mail!Next /\ UNCHANGED page
    BY <1>2, <2>11, MailNext DEF Inv
  <2>12. CASE page = "payments" /\ Payments!Next /\ UNCHANGED page
    BY <1>2, <2>12, PaymentsNext DEF Inv
  <2>13. CASE page = "monitor" /\ Monitor!Next /\ UNCHANGED page
    BY <1>2, <2>13, MonitorNext DEF Inv
  <2> QED
    BY <1>2, <2>1, <2>2, <2>3, <2>4, <2>5, <2>6, <2>7, <2>8, <2>9, <2>10, <2>11, <2>12, <2>13
    DEF Next
<1>3. ASSUME Inv, UNCHANGED vars
      PROVE  Inv'
  <2>1. /\ page' = page /\ server' = server /\ view' = view /\ flight' = flight
        /\ past' = past
    BY <1>3 DEF vars
  <2> QED
    BY <1>3, <2>1 DEF Inv, SessionInv, UsersInv, BrokersInv, SettingsInv, DocumentsInv, NodesInv,
       TemplatesInv, FlasherInv, KeywordsInv, SupportInv, MailInv, PaymentsInv, MonitorInv
<1> QED
  BY <1>1, <1>2, <1>3, PTL DEF Spec

\* Every page of the console keeps the type of what it shows, of its dialogs and of its
\* requests, and each service that of its rows and of the changes that wait for their commit
\* (the handlers of src/pages and the routers behind them).
THEOREM PagesAreTyped == Spec => []TypeOK
<1>1. Inv => TypeOK
  BY SessionShows, UsersShows, BrokersShows, SettingsShows, DocumentsShows, NodesShows,
     TemplatesShows, FlasherShows, KeywordsShows, SupportShows, MailShows, PaymentsShows,
     MonitorShows
  DEF Inv, TypeOK
<1> QED
  BY <1>1, Invariant, PTL

\* Once nothing is in flight a page shows what its service has, whatever the order in which
\* requests were served, committed and answered, unless its history says that an answer came
\* out of turn or not at all, or that it loaded before a commit and was not asked to load
\* again: the lists that handlers load again after a change, and the key pair that
\* UserSettings shows once.
THEOREM PagesConverge == Spec => []ViewsConverge
<1>1. Inv => ViewsConverge
  BY UsersShows, BrokersShows, SettingsShows, DocumentsShows, NodesShows, TemplatesShows,
     KeywordsShows, SupportShows, MailShows, PaymentsShows, MonitorShows
  DEF Inv, ViewsConverge
<1> QED
  BY <1>1, Invariant, PTL

\* What is edited goes where the page says, and is not lost on the way: imports are of the
\* file that is named, letters and messages outlive their forms, templates are saved under
\* their names, boards get the firmware that is shown, mails go out
\* (BrokerManagement.tsx, UserDocuments.tsx, SupportChat.tsx, admin/Documents.tsx,
\* Flasher.tsx, EmailSettings.tsx and inboxer/app.py).
THEOREM EditsAreNotMisplaced == Spec => []EditsLand
<1>1. Inv => EditsLand
  BY BrokersShows, DocumentsShows, TemplatesShows, FlasherShows, SupportShows, MailShows
  DEF Inv, EditsLand
<1> QED
  BY <1>1, Invariant, PTL

\* An address that was added to the blacklist stays until somebody deletes a row with its id
\* on the page, unless the director's threads overlapped (NodeManagement.tsx, the director's
\* blacklist).
THEOREM OnlyTheRowIsRemoved == Spec => []RemovedAsAsked
<1>1. Inv => RemovedAsAsked
  BY NodesShows DEF Inv, RemovedAsAsked
<1> QED
  BY <1>1, Invariant, PTL

\* A tab shows the profile of the account whose token it holds, unless its session changed
\* while a profile was on its way, another tab replaced the token that the request for it
\* carried, or such a request failed (AuthContext.tsx, and the session in localStorage that
\* the tabs of a browser share).
THEOREM ProfileIsOfItsSession == Spec => []ProfileIsOfSession
<1>1. Inv => ProfileIsOfSession
  BY SessionShows DEF Inv, ProfileIsOfSession
<1> QED
  BY <1>1, Invariant, PTL
=============================================================================
