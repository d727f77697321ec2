-------------------------- MODULE UserPagesProofs --------------------------
(***************************************************************************)
(* Proofs about the pages of the web console, for any number of accounts,  *)
(* tabs, names, steps, requests and failures: what the operators of        *)
(* Fetch, which all pages have in common, do to a sequence of requests,    *)
(* and then the pages of a user, one section for each: the invariant,      *)
(* that every step of the page keeps it, and what the page promises.       *)
(* WebPagesProofs has the pages of administrators and puts all of them     *)
(* together.                                                               *)
(***************************************************************************)
EXTENDS WebPages, TLAPS, SequenceTheorems, FiniteSetTheorems

\* The operators of Fetch by themselves: each page has its own instance of them.
F == INSTANCE Fetch

\* Requests with these kinds, arguments and data.
Requests(O, A, D) ==
  [op : O, arg : A, outcome : F!Outcomes, data : D, late : BOOLEAN]

-----------------------------------------------------------------------------
(* Sequences of requests. *)

\* Where request k of Handled(fs, i) was.
Skip(i, k) == IF k < i THEN k ELSE k + 1

\* r is q, except that it may be marked as late.
Alike(r, q) == r.op = q.op /\ r.arg = q.arg /\ r.outcome = q.outcome /\ r.data = q.data

\* Handled(fs, i) has the other requests in their order; the older ones of the kind of
\* request i are late.
LEMMA HandledFacts ==
  ASSUME NEW O, NEW A, NEW D, NEW fs \in Seq(Requests(O, A, D)), NEW i \in DOMAIN fs
  PROVE  /\ F!Handled(fs, i) \in Seq(Requests(O, A, D))
         /\ Len(F!Handled(fs, i)) = Len(fs) - 1
         /\ DOMAIN F!Handled(fs, i) = 1..(Len(fs) - 1)
         /\ \A k \in 1..(Len(fs) - 1) :
              /\ Skip(i, k) \in DOMAIN fs \ {i}
              /\ Alike(F!Handled(fs, i)[k], fs[Skip(i, k)])
              /\ F!Handled(fs, i)[k].late <=>
                   fs[Skip(i, k)].late \/ (Skip(i, k) < i /\ fs[Skip(i, k)].op = fs[i].op)
<1> DEFINE S == Requests(O, A, D)
           m == Len(fs)
           h == F!Handled(fs, i)
<1>1. m \in Nat /\ DOMAIN fs = 1..m /\ i \in 1..m /\ \A j \in 1..m : fs[j] \in S
  OBVIOUS
<1>2. \A k \in 1..(m - 1) : Skip(i, k) \in (1..m) \ {i}
  BY <1>1 DEF Skip
<1>3. DOMAIN h = 1..(m - 1) /\ h = [k \in 1..(m - 1) |-> h[k]]
  BY DEF F!Handled
<1>4. ASSUME NEW k \in 1..(m - 1)
      PROVE  /\ h[k] \in S
             /\ Alike(h[k], fs[Skip(i, k)])
             /\ h[k].late <=> fs[Skip(i, k)].late \/ (Skip(i, k) < i /\ fs[Skip(i, k)].op = fs[i].op)
  <2> DEFINE j == Skip(i, k)
             q == fs[j]
             b == j < i /\ q.op = fs[i].op
  <2>1. h[k] = IF b THEN [q EXCEPT !.late = TRUE] ELSE q
    BY DEF F!Handled, Skip
  <2>2. q \in S
    BY <1>1, <1>2
  <2> HIDE DEF h, j, q, b
  <2>3. /\ h[k] \in S
        /\ Alike(h[k], q)
        /\ h[k].late <=> q.late \/ b
    BY <2>1, <2>2 DEF Requests, Alike
  <2> QED
    BY <2>3 DEF q, j, b
<1> HIDE DEF S, h
<1>5. h \in Seq(S) /\ Len(h) = m - 1
  <2>1. m - 1 \in Nat
    BY <1>1
  <2> QED
    BY <1>3, <1>4, <2>1
<1> QED
  BY <1>1, <1>2, <1>3, <1>4, <1>5 DEF h, S

\* Every other request is still there.
LEMMA SkipOnto ==
  ASSUME NEW m \in Nat, NEW i \in 1..m, NEW j \in (1..m) \ {i}
  PROVE  \E k \in 1..(m - 1) : Skip(i, k) = j
<1>1. CASE j < i
  BY <1>1 DEF Skip
<1>2. CASE ~(j < i)
  BY <1>2, j - 1 \in 1..(m - 1) DEF Skip
<1> QED
  BY <1>1, <1>2

\* Served changes one request.
LEMMA ServedFacts ==
  ASSUME NEW O, NEW A, NEW D, NEW fs \in Seq(Requests(O, A, D)), NEW i \in DOMAIN fs,
         NEW outcome \in F!Outcomes, NEW data \in D
  PROVE  /\ F!Served(fs, i, outcome, data) \in Seq(Requests(O, A, D))
         /\ Len(F!Served(fs, i, outcome, data)) = Len(fs)
         /\ DOMAIN F!Served(fs, i, outcome, data) = DOMAIN fs
         /\ \A j \in DOMAIN fs \ {i} : F!Served(fs, i, outcome, data)[j] = fs[j]
         /\ F!Served(fs, i, outcome, data)[i].op = fs[i].op
         /\ F!Served(fs, i, outcome, data)[i].arg = fs[i].arg
         /\ F!Served(fs, i, outcome, data)[i].outcome = outcome
         /\ F!Served(fs, i, outcome, data)[i].data = data
         /\ F!Served(fs, i, outcome, data)[i].late = fs[i].late
<1> DEFINE S == Requests(O, A, D)
           r == [fs[i] EXCEPT !.outcome = outcome, !.data = data]
           m == Len(fs)
           h == F!Served(fs, i, outcome, data)
<1>1. m \in Nat /\ DOMAIN fs = 1..m /\ fs[i] \in S /\ \A j \in 1..m : fs[j] \in S
  OBVIOUS
<1>2. r \in S
  BY <1>1 DEF Requests
<1>3. r.op = fs[i].op /\ r.arg = fs[i].arg /\ r.outcome = outcome /\ r.data = data /\ r.late = fs[i].late
  BY <1>1 DEF Requests
<1>4. h = [fs EXCEPT ![i] = r]
  BY Zenon DEF F!Served
<1> HIDE DEF S, r, h
<1>5. h \in Seq(S) /\ DOMAIN h = DOMAIN fs /\ h[i] = r /\ \A j \in DOMAIN fs \ {i} : h[j] = fs[j]
  BY <1>1, <1>2, <1>4
<1> QED
  BY <1>1, <1>3, <1>5 DEF S, h

\* One request more.
LEMMA SentFacts ==
  ASSUME NEW O, NEW A, NEW D, NEW fs \in Seq(Requests(O, A, D)), NEW op \in O, NEW arg \in A,
         {} \in D
  PROVE  /\ F!Request(op, arg) \in Requests(O, A, D)
         /\ Append(fs, F!Request(op, arg)) \in Seq(Requests(O, A, D))
         /\ Len(Append(fs, F!Request(op, arg))) = Len(fs) + 1
         /\ DOMAIN Append(fs, F!Request(op, arg)) = 1..(Len(fs) + 1)
         /\ \A j \in DOMAIN fs : Append(fs, F!Request(op, arg))[j] = fs[j]
         /\ Append(fs, F!Request(op, arg))[Len(fs) + 1] = F!Request(op, arg)
<1>1. F!Request(op, arg) \in Requests(O, A, D)
  BY DEF Requests, F!Request, F!Outcomes
<1> DEFINE S == Requests(O, A, D)
           r == F!Request(op, arg)
<1>2. r \in S
  BY <1>1
<1> HIDE DEF S, r
<1>3. /\ Append(fs, r) \in Seq(S) /\ Len(Append(fs, r)) = Len(fs) + 1
      /\ DOMAIN Append(fs, r) = 1..(Len(fs) + 1)
      /\ \A j \in DOMAIN fs : Append(fs, r)[j] = fs[j]
      /\ Append(fs, r)[Len(fs) + 1] = r
  BY <1>2 DEF S
<1> QED
  BY <1>1, <1>3 DEF S, r

\* Requests of some kinds are marked as late.
LEMMA OutdatedFacts ==
  ASSUME NEW O, NEW A, NEW D, NEW fs \in Seq(Requests(O, A, D)), NEW loads
  PROVE  /\ F!Outdated(fs, loads) \in Seq(Requests(O, A, D))
         /\ Len(F!Outdated(fs, loads)) = Len(fs)
         /\ DOMAIN F!Outdated(fs, loads) = DOMAIN fs
         /\ \A j \in DOMAIN fs :
              /\ Alike(F!Outdated(fs, loads)[j], fs[j])
              /\ F!Outdated(fs, loads)[j].late <=> fs[j].late \/ fs[j].op \in loads
<1> DEFINE S == Requests(O, A, D)
           m == Len(fs)
           h == [j \in DOMAIN fs |->
                   IF fs[j].op \in loads THEN [fs[j] EXCEPT !.late = TRUE] ELSE fs[j]]
<1>1. m \in Nat /\ DOMAIN fs = 1..m /\ \A j \in 1..m : fs[j] \in S
  OBVIOUS
<1>2. \A j \in 1..m : /\ h[j] \in S
                      /\ Alike(h[j], fs[j])
                      /\ h[j].late <=> fs[j].late \/ fs[j].op \in loads
  BY <1>1 DEF Requests, Alike
<1>3. h = F!Outdated(fs, loads) /\ DOMAIN h = 1..m
  BY <1>1 DEF F!Outdated
<1> HIDE DEF S, h
<1>4. h \in Seq(S) /\ Len(h) = m
  <2>1. h = [j \in 1..m |-> h[j]]
    BY <1>1, <1>3 DEF h
  <2> QED
    BY <1>1, <1>2, <1>3, <2>1
<1> QED
  BY <1>1, <1>2, <1>3, <1>4 DEF S

\* Requests that were answered are marked as late.
LEMMA OvertakenFacts ==
  ASSUME NEW O, NEW A, NEW D, NEW fs \in Seq(Requests(O, A, D)), NEW loads
  PROVE  /\ F!Overtaken(fs, loads) \in Seq(Requests(O, A, D))
         /\ Len(F!Overtaken(fs, loads)) = Len(fs)
         /\ DOMAIN F!Overtaken(fs, loads) = DOMAIN fs
         /\ \A j \in DOMAIN fs :
              /\ Alike(F!Overtaken(fs, loads)[j], fs[j])
              /\ F!Overtaken(fs, loads)[j].late <=>
                   fs[j].late \/ (fs[j].op \in loads /\ fs[j].outcome # "none")
<1> DEFINE S == Requests(O, A, D)
           m == Len(fs)
           h == [j \in DOMAIN fs |->
                   IF fs[j].op \in loads /\ fs[j].outcome # "none"
                   THEN [fs[j] EXCEPT !.late = TRUE] ELSE fs[j]]
<1>1. m \in Nat /\ DOMAIN fs = 1..m /\ \A j \in 1..m : fs[j] \in S
  OBVIOUS
<1>2. \A j \in 1..m : /\ h[j] \in S
                      /\ Alike(h[j], fs[j])
                      /\ h[j].late <=> fs[j].late \/ (fs[j].op \in loads /\ fs[j].outcome # "none")
  BY <1>1 DEF Requests, Alike
<1>3. h = F!Overtaken(fs, loads) /\ DOMAIN h = 1..m
  BY <1>1 DEF F!Overtaken
<1> HIDE DEF S, h
<1>4. h \in Seq(S) /\ Len(h) = m
  <2>1. h = [j \in 1..m |-> h[j]]
    BY <1>1, <1>3 DEF h
  <2> QED
    BY <1>1, <1>2, <1>3, <2>1
<1> QED
  BY <1>1, <1>2, <1>3, <1>4 DEF S

-----------------------------------------------------------------------------
(* A list that is loaded again after each change. *)

\* A change was made, or may have been, and its handler has yet to react.
Pending(fs, changes) ==
  \E i \in DOMAIN fs : fs[i].op \in changes /\ fs[i].outcome \in {"ok", "throws"}

Sent(fs, op) == \E i \in DOMAIN fs : fs[i].op = op

SentAfter(fs, i, op) == \E k \in DOMAIN fs : k > i /\ fs[k].op = op

\* The answers to loads are what the service has now for their argument, or another load will
\* follow.
Fresh(fs, op, changes, now) ==
  \A i \in DOMAIN fs :
    fs[i].op = op /\ fs[i].outcome = "ok" /\ ~fs[i].late =>
      fs[i].data = now[fs[i].arg] \/ Pending(fs, changes) \/ SentAfter(fs, i, op)

\* The page shows what the service has now for `of`, or another load will follow, or it missed
\* one.
Tracks(fs, op, changes, now, of, shown, stale) ==
  /\ Fresh(fs, op, changes, now)
  /\ op \in stale \/ shown = now[of] \/ Pending(fs, changes) \/ Sent(fs, op)

\* One request more, which was not served yet.
LEMMA TracksSent ==
  ASSUME NEW fs, NEW n \in Nat, DOMAIN fs = 1..n, NEW gs, DOMAIN gs = 1..(n + 1),
         \A j \in 1..n : gs[j] = fs[j],
         gs[n + 1].outcome = "none",
         NEW op, NEW changes, NEW now, NEW of, NEW shown, NEW stale,
         Tracks(fs, op, changes, now, of, shown, stale)
  PROVE  Tracks(gs, op, changes, now, of, shown, stale)
<1>1. /\ \A j \in 1..n : j \in DOMAIN gs
      /\ \A j \in DOMAIN gs : j \in 1..n \/ j = n + 1
  OBVIOUS
<1>2. Pending(fs, changes) => Pending(gs, changes)
  BY <1>1 DEF Pending
<1>3. Sent(fs, op) => Sent(gs, op)
  BY <1>1 DEF Sent
<1>4. ASSUME NEW j \in 1..n, SentAfter(fs, j, op)
      PROVE  SentAfter(gs, j, op)
  BY <1>1, <1>4 DEF SentAfter
<1> QED
  BY <1>1, <1>2, <1>3, <1>4 DEF Tracks, Fresh

\* A load after everything else.
LEMMA TracksLoad ==
  ASSUME NEW gs, NEW n \in Nat, DOMAIN gs = 1..(n + 1), NEW op, NEW changes, NEW now, NEW of,
         NEW shown, NEW stale, gs[n + 1].op = op, gs[n + 1].outcome = "none"
  PROVE  Tracks(gs, op, changes, now, of, shown, stale)
<1>1. n + 1 \in DOMAIN gs /\ \A j \in DOMAIN gs : j = n + 1 \/ n + 1 > j
  OBVIOUS
<1> QED
  BY <1>1 DEF Tracks, Fresh, Sent, SentAfter

\* All loads are late.
LEMMA TracksOutdated ==
  ASSUME NEW gs, NEW op, \A j \in DOMAIN gs : gs[j].op = op => gs[j].late,
         NEW changes, NEW now, NEW of, NEW shown, NEW stale, op \in stale
  PROVE  Tracks(gs, op, changes, now, of, shown, stale)
  BY DEF Tracks, Fresh

\* One request is answered: a load with what the service has, or not with "ok"; a change,
\* or any other request that may have changed nothing.
LEMMA TracksServed ==
  ASSUME NEW fs, NEW gs, NEW i \in DOMAIN fs, DOMAIN gs = DOMAIN fs,
         \A j \in DOMAIN fs \ {i} : gs[j] = fs[j],
         gs[i].op = fs[i].op, gs[i].arg = fs[i].arg, gs[i].late = fs[i].late,
         NEW op, NEW changes, NEW now, NEW next, NEW of, NEW shown, NEW stale,
         op \notin changes,
         Tracks(fs, op, changes, now, of, shown, stale),
         fs[i].op = op => gs[i].outcome # "ok" \/ gs[i].data = now[fs[i].arg],
         fs[i].op \in changes => gs[i].outcome \in {"ok", "throws"} \/ fs[i].outcome = "none",
         next = now \/ Pending(gs, changes)
  PROVE  Tracks(gs, op, changes, next, of, shown, stale)
<1>1. Pending(fs, changes) => Pending(gs, changes)
  BY DEF Pending
<1>2. Sent(fs, op) => Sent(gs, op)
  BY DEF Sent
<1>3. ASSUME NEW j \in DOMAIN fs, SentAfter(fs, j, op)
      PROVE  SentAfter(gs, j, op)
  BY <1>3 DEF SentAfter
<1> QED
  BY <1>1, <1>2, <1>3 DEF Tracks, Fresh

\* A load was handled.
LEMMA TracksLoaded ==
  ASSUME NEW fs, NEW m \in Nat, DOMAIN fs = 1..m, NEW i \in 1..m, NEW gs, DOMAIN gs = 1..(m - 1),
         \A k \in 1..(m - 1) :
           /\ Skip(i, k) \in DOMAIN fs \ {i}
           /\ Alike(gs[k], fs[Skip(i, k)])
           /\ fs[Skip(i, k)].late => gs[k].late
           /\ Skip(i, k) < i /\ fs[Skip(i, k)].op = fs[i].op => gs[k].late,
         NEW op, NEW changes, NEW now, NEW of, NEW shown, NEW stale, NEW about, NEW after,
         NEW missing,
         op \notin changes,
         Tracks(fs, op, changes, now, of, shown, stale),
         fs[i].op = op => \/ op \in missing
                           \/ /\ fs[i].outcome = "ok" /\ ~fs[i].late
                              /\ about = fs[i].arg /\ after = fs[i].data,
         fs[i].op # op => about = of /\ after = shown /\ (op \in stale => op \in missing),
         fs[i].op \in changes => fs[i].outcome \notin {"ok", "throws"}
  PROVE  Tracks(gs, op, changes, now, about, after, missing)
<1>1. \A j \in (1..m) \ {i} : \E k \in 1..(m - 1) : Skip(i, k) = j
  BY SkipOnto
<1>2. Pending(fs, changes) => Pending(gs, changes)
  <2> SUFFICES ASSUME Pending(fs, changes)
               PROVE  Pending(gs, changes)
    OBVIOUS
  <2>1. PICK j \in 1..m : fs[j].op \in changes /\ fs[j].outcome \in {"ok", "throws"}
    BY DEF Pending
  <2>2. PICK k \in 1..(m - 1) : Skip(i, k) = j
    BY <1>1, <2>1
  <2> QED
    BY <2>1, <2>2 DEF Pending, Alike
<1>3. ASSUME NEW k \in 1..(m - 1), SentAfter(fs, Skip(i, k), op),
             fs[i].op = op => Skip(i, k) > i
      PROVE  SentAfter(gs, k, op)
  <2>1. PICK j \in 1..m : j > Skip(i, k) /\ fs[j].op = op
    BY <1>3 DEF SentAfter
  <2>2. j # i
    BY <1>3, <2>1
  <2>3. PICK l \in 1..(m - 1) : Skip(i, l) = j
    BY <1>1, <2>1, <2>2
  <2>4. l > k
    BY <2>1, <2>3 DEF Skip
  <2> QED
    BY <2>1, <2>3, <2>4 DEF SentAfter, Alike
<1>4. Sent(fs, op) /\ fs[i].op # op => Sent(gs, op)
  <2> SUFFICES ASSUME Sent(fs, op), fs[i].op # op
               PROVE  Sent(gs, op)
    OBVIOUS
  <2>1. PICK j \in 1..m : fs[j].op = op
    BY DEF Sent
  <2>2. PICK k \in 1..(m - 1) : Skip(i, k) = j
    BY <1>1, <2>1
  <2> QED
    BY <2>1, <2>2 DEF Sent, Alike
<1>5. Fresh(gs, op, changes, now)
  <2> SUFFICES ASSUME NEW k \in 1..(m - 1), gs[k].op = op, gs[k].outcome = "ok", ~gs[k].late
               PROVE  gs[k].data = now[gs[k].arg] \/ Pending(gs, changes) \/ SentAfter(gs, k, op)
    BY DEF Fresh
  <2> DEFINE j == Skip(i, k)
  <2>1. /\ j \in DOMAIN fs /\ j # i /\ fs[j].op = op /\ fs[j].outcome = "ok" /\ ~fs[j].late
        /\ fs[j].data = gs[k].data /\ fs[j].arg = gs[k].arg
        /\ fs[i].op = op => ~(j < i)
    BY DEF Alike
  <2>2. fs[i].op = op => j > i
    BY <2>1
  <2>3. fs[j].data = now[fs[j].arg] \/ Pending(fs, changes) \/ SentAfter(fs, j, op)
    BY <2>1 DEF Tracks, Fresh
  <2> QED
    BY <1>2, <1>3, <2>1, <2>2, <2>3
<1>6. op \in missing \/ after = now[about] \/ Pending(gs, changes) \/ Sent(gs, op)
  <2>1. CASE fs[i].op # op
    BY <1>2, <1>4, <2>1 DEF Tracks
  <2>2. CASE fs[i].op = op /\ op \notin missing
    <3>1. fs[i].data = now[fs[i].arg] \/ Pending(fs, changes) \/ SentAfter(fs, i, op)
      BY <2>2 DEF Tracks, Fresh
    <3>2. ASSUME SentAfter(fs, i, op)
          PROVE  Sent(gs, op)
      <4>1. PICK j \in 1..m : j > i /\ fs[j].op = op
        BY <3>2 DEF SentAfter
      <4>2. PICK k \in 1..(m - 1) : Skip(i, k) = j
        BY <1>1, <4>1
      <4> QED
        BY <4>1, <4>2 DEF Sent, Alike
    <3> QED
      BY <1>2, <2>2, <3>1, <3>2
  <2> QED
    BY <2>1, <2>2
<1> QED
  BY <1>5, <1>6 DEF Tracks

\* Where loads have no argument that matters.
Now(arg, value) == [a \in {arg} |-> value]

LEMMA NowIs ==
  ASSUME NEW arg, NEW value
  PROVE  Now(arg, value)[arg] = value
  BY DEF Now

\* Nothing is left to follow.
LEMMA TracksIdle ==
  ASSUME NEW fs, fs = <<>>, NEW op, NEW changes, NEW now, NEW of, NEW shown, NEW stale,
         Tracks(fs, op, changes, now, of, shown, stale), op \notin stale
  PROVE  shown = now[of]
  BY DEF Tracks, Pending, Sent

\* The same for the operators of Fetch.
LEMMA SentTracks ==
  ASSUME NEW O, NEW A, NEW D, NEW fs \in Seq(Requests(O, A, D)), NEW ask \in O, NEW arg \in A,
         {} \in D, NEW op, NEW changes, NEW now, NEW of, NEW shown, NEW stale,
         Tracks(fs, op, changes, now, of, shown, stale) \/ ask = op
  PROVE  Tracks(Append(fs, F!Request(ask, arg)), op, changes, now, of, shown, stale)
<1> DEFINE n == Len(fs)
           r == F!Request(ask, arg)
           gs == Append(fs, r)
<1>1. n \in Nat /\ DOMAIN fs = 1..n
  OBVIOUS
<1>2. DOMAIN gs = 1..(n + 1) /\ (\A j \in 1..n : gs[j] = fs[j]) /\ gs[n + 1] = r
  BY <1>1, SentFacts
<1>3. r.op = ask /\ r.outcome = "none"
  BY DEF F!Request
<1> HIDE DEF n, r, gs
<1>4. CASE ask = op
  BY <1>1, <1>2, <1>3, <1>4, TracksLoad DEF gs, r
<1>5. CASE Tracks(fs, op, changes, now, of, shown, stale)
  BY <1>1, <1>2, <1>3, <1>5, TracksSent DEF gs, r
<1> QED
  BY <1>4, <1>5

LEMMA OutdatedTracks ==
  ASSUME NEW O, NEW A, NEW D, NEW fs \in Seq(Requests(O, A, D)), NEW loads,
         NEW op, NEW changes, NEW now, NEW of, NEW shown, NEW stale,
         IF op \in loads THEN op \in stale
         ELSE Tracks(fs, op, changes, now, of, shown, stale)
  PROVE  Tracks(F!Outdated(fs, loads), op, changes, now, of, shown, stale)
<1> DEFINE gs == F!Outdated(fs, loads)
<1>1. DOMAIN gs = DOMAIN fs
      /\ \A j \in DOMAIN fs : /\ Alike(gs[j], fs[j])
                              /\ gs[j].late <=> fs[j].late \/ fs[j].op \in loads
  BY OutdatedFacts
<1> HIDE DEF gs
<1>2. CASE op \in loads
  BY <1>1, <1>2 DEF Alike, Tracks, Fresh, gs
<1>3. CASE op \notin loads
  <2>1. Pending(fs, changes) => Pending(gs, changes)
    BY <1>1 DEF Pending, Alike
  <2>2. Sent(fs, op) => Sent(gs, op)
    BY <1>1 DEF Sent, Alike
  <2>3. ASSUME NEW j \in DOMAIN fs, SentAfter(fs, j, op)
        PROVE  SentAfter(gs, j, op)
    BY <1>1, <2>3 DEF SentAfter, Alike
  <2>4. ASSUME NEW j \in DOMAIN fs, gs[j].op = op, gs[j].outcome = "ok", ~gs[j].late
        PROVE  fs[j].op = op /\ fs[j].outcome = "ok" /\ ~fs[j].late
               /\ gs[j].data = fs[j].data /\ gs[j].arg = fs[j].arg
    BY <1>1, <2>4 DEF Alike
  <2> QED
    BY <1>1, <1>3, <2>1, <2>2, <2>3, <2>4 DEF Tracks, Fresh, gs
<1> QED
  BY <1>2, <1>3

\* A commit: what was loaded is outdated; a change whose answer is still to come, or a load
\* that was not served yet, will follow it up, or the page missed it.
LEMMA OvertakenTracks ==
  ASSUME NEW O, NEW A, NEW D, NEW fs \in Seq(Requests(O, A, D)), NEW loads,
         NEW op, NEW changes, NEW now, NEW next, NEW of, NEW shown, NEW stale, NEW missing,
         missing = F!StaleAfterCommit(stale, fs, changes, loads),
         op \in loads \/ next = now,
         Tracks(fs, op, changes, now, of, shown, stale)
  PROVE  Tracks(F!Overtaken(fs, loads), op, changes, next, of, shown, missing)
<1> DEFINE gs == F!Overtaken(fs, loads)
<1>1. DOMAIN gs = DOMAIN fs
      /\ \A j \in DOMAIN fs : /\ Alike(gs[j], fs[j])
                              /\ gs[j].late <=>
                                   fs[j].late \/ (fs[j].op \in loads /\ fs[j].outcome # "none")
  BY OvertakenFacts
<1> HIDE DEF gs
<1>2. Pending(fs, changes) => Pending(gs, changes)
  BY <1>1 DEF Pending, Alike
<1>3. F!Reacting(fs, changes) => Pending(gs, changes)
  BY <1>2 DEF F!Reacting, Pending
<1>4. op \in stale => op \in missing
  BY DEF F!StaleAfterCommit
<1>5. CASE op \in loads
  <2>1. Fresh(gs, op, changes, next)
    BY <1>1, <1>5 DEF Fresh, Alike
  <2>2. op \in missing \/ Pending(gs, changes)
    BY <1>3, <1>5 DEF F!StaleAfterCommit
  <2> QED
    BY <2>1, <2>2 DEF Tracks, gs
<1>6. CASE op \notin loads
  <2>1. Sent(fs, op) => Sent(gs, op)
    BY <1>1 DEF Sent, Alike
  <2>2. ASSUME NEW j \in DOMAIN fs, SentAfter(fs, j, op)
        PROVE  SentAfter(gs, j, op)
    BY <1>1, <2>2 DEF SentAfter, Alike
  <2>3. ASSUME NEW j \in DOMAIN fs, gs[j].op = op, gs[j].outcome = "ok", ~gs[j].late
        PROVE  fs[j].op = op /\ fs[j].outcome = "ok" /\ ~fs[j].late
               /\ gs[j].data = fs[j].data /\ gs[j].arg = fs[j].arg
    BY <1>1, <2>3 DEF Alike
  <2> QED
    BY <1>1, <1>2, <1>4, <1>6, <2>1, <2>2, <2>3 DEF Tracks, Fresh, gs
<1> QED
  BY <1>5, <1>6 DEF gs

\* What such a commit leaves alone.
LEMMA OvertakenOthers ==
  ASSUME NEW O, NEW A, NEW D, NEW fs \in Seq(Requests(O, A, D)), NEW loads,
         NEW op, NEW changes, NEW now, NEW of, NEW shown, NEW stale, NEW missing,
         op \notin loads, op \in stale => op \in missing,
         Tracks(fs, op, changes, now, of, shown, stale)
  PROVE  Tracks(F!Overtaken(fs, loads), op, changes, now, of, shown, missing)
<1> DEFINE left == F!StaleAfterCommit(stale, fs, changes, loads)
<1>1. Tracks(F!Overtaken(fs, loads), op, changes, now, of, shown, left)
  BY OvertakenTracks
<1>2. op \in left => op \in missing
  BY DEF F!StaleAfterCommit
<1> HIDE DEF left
<1> QED
  BY <1>1, <1>2 DEF Tracks

LEMMA ServedTracks ==
  ASSUME NEW O, NEW A, NEW D, NEW fs \in Seq(Requests(O, A, D)), NEW i \in DOMAIN fs,
         NEW outcome \in F!Outcomes, NEW data \in D,
         NEW op, NEW changes, NEW now, NEW next, NEW of, NEW shown, NEW stale,
         op \notin changes,
         Tracks(fs, op, changes, now, of, shown, stale),
         fs[i].op = op => outcome # "ok" \/ data = now[fs[i].arg],
         fs[i].op \in changes => outcome \in {"ok", "throws"} \/ fs[i].outcome = "none",
         next = now \/ (fs[i].op \in changes /\ outcome \in {"ok", "throws"})
  PROVE  Tracks(F!Served(fs, i, outcome, data), op, changes, next, of, shown, stale)
<1> DEFINE gs == F!Served(fs, i, outcome, data)
<1>1. /\ DOMAIN gs = DOMAIN fs /\ \A j \in DOMAIN fs \ {i} : gs[j] = fs[j]
      /\ gs[i].op = fs[i].op /\ gs[i].arg = fs[i].arg /\ gs[i].late = fs[i].late
      /\ gs[i].outcome = outcome /\ gs[i].data = data
  BY ServedFacts
<1> HIDE DEF gs
<1>2. next = now \/ Pending(gs, changes)
  BY <1>1 DEF Pending
<1> QED
  BY <1>1, <1>2, TracksServed DEF gs

LEMMA HandledTracks ==
  ASSUME NEW O, NEW A, NEW D, NEW fs \in Seq(Requests(O, A, D)), NEW i \in DOMAIN fs,
         NEW op, NEW changes, NEW now, NEW of, NEW shown, NEW stale, NEW about, NEW after,
         NEW missing, op \notin changes,
         Tracks(fs, op, changes, now, of, shown, stale),
         fs[i].op = op => \/ op \in missing
                          \/ /\ fs[i].outcome = "ok" /\ ~fs[i].late
                             /\ about = fs[i].arg /\ after = fs[i].data,
         fs[i].op # op => about = of /\ after = shown /\ (op \in stale => op \in missing),
         fs[i].op \in changes => fs[i].outcome \notin {"ok", "throws"}
  PROVE  Tracks(F!Handled(fs, i), op, changes, now, about, after, missing)
<1> DEFINE m == Len(fs)
           gs == F!Handled(fs, i)
<1>1. DOMAIN gs = 1..(m - 1)
  BY HandledFacts
<1>2. ASSUME NEW k \in 1..(m - 1)
      PROVE  /\ Skip(i, k) \in DOMAIN fs \ {i}
             /\ Alike(gs[k], fs[Skip(i, k)])
             /\ fs[Skip(i, k)].late => gs[k].late
             /\ Skip(i, k) < i /\ fs[Skip(i, k)].op = fs[i].op => gs[k].late
  BY HandledFacts
<1>3. m \in Nat /\ DOMAIN fs = 1..m /\ i \in 1..m
  OBVIOUS
<1> HIDE DEF m, gs
<1> QED
  BY ZenonT(60), <1>1, <1>2, <1>3, TracksLoaded DEF gs

\* A handler that loads a list again, and one that leaves lists outdated.
LEMMA FollowedTracks ==
  ASSUME NEW O, NEW A, NEW D, NEW fs \in Seq(Requests(O, A, D)), NEW i \in DOMAIN fs,
         NEW list \in O, NEW arg \in A, {} \in D,
         NEW op, NEW changes, NEW now, NEW of, NEW shown, NEW stale, op \notin changes,
         list # op => /\ Tracks(fs, op, changes, now, of, shown, stale)
                      /\ fs[i].op # op /\ fs[i].op \notin changes
  PROVE  Tracks(Append(F!Handled(fs, i), F!Request(list, arg)), op, changes, now, of, shown, stale)
<1>1. F!Handled(fs, i) \in Seq(Requests(O, A, D))
  BY HandledFacts
<1>2. CASE list = op
  BY <1>1, <1>2, SentTracks
<1>3. CASE list # op
  <2>1. Tracks(F!Handled(fs, i), op, changes, now, of, shown, stale)
    BY <1>3, HandledTracks
  <2> QED
    BY <1>1, <2>1, SentTracks
<1> QED
  BY <1>2, <1>3

LEMMA MissedTracks ==
  ASSUME NEW O, NEW A, NEW D, NEW fs \in Seq(Requests(O, A, D)), NEW i \in DOMAIN fs, NEW loads,
         NEW op, NEW changes, NEW now, NEW of, NEW shown, NEW stale, NEW missing,
         op \notin changes, op \in stale => op \in missing,
         IF op \in loads THEN op \in missing
         ELSE /\ Tracks(fs, op, changes, now, of, shown, stale)
              /\ fs[i].op # op /\ fs[i].op \notin changes
  PROVE  Tracks(F!Outdated(F!Handled(fs, i), loads), op, changes, now, of, shown, missing)
<1>1. F!Handled(fs, i) \in Seq(Requests(O, A, D))
  BY HandledFacts
<1>2. CASE op \in loads
  BY <1>1, <1>2, OutdatedTracks
<1>3. CASE op \notin loads
  <2>1. Tracks(F!Handled(fs, i), op, changes, now, of, shown, missing)
    BY <1>3, HandledTracks
  <2> QED
    BY <1>1, <1>3, <2>1, OutdatedTracks
<1> QED
  BY <1>2, <1>3

-----------------------------------------------------------------------------
(* What the requests of a page are about and what their answers carry: a set of requests *)
(* that may become late. *)

Closed(S, O, A, D) ==
  /\ S \subseteq Requests(O, A, D)
  /\ \A r \in Requests(O, A, D), q \in S : Alike(r, q) => r \in S

LEMMA HandledIn ==
  ASSUME NEW O, NEW A, NEW D, NEW S, Closed(S, O, A, D), NEW fs \in Seq(S), NEW i \in DOMAIN fs
  PROVE  /\ F!Handled(fs, i) \in Seq(S)
         /\ DOMAIN F!Handled(fs, i) = 1..(Len(fs) - 1)
         /\ \A k \in 1..(Len(fs) - 1) :
              /\ Skip(i, k) \in DOMAIN fs \ {i}
              /\ Alike(F!Handled(fs, i)[k], fs[Skip(i, k)])
<1> DEFINE R == Requests(O, A, D)
           h == F!Handled(fs, i)
<1>1. fs \in Seq(R) /\ \A j \in DOMAIN fs : fs[j] \in S
  BY DEF Closed
<1>2. /\ h \in Seq(R) /\ Len(h) = Len(fs) - 1 /\ DOMAIN h = 1..(Len(fs) - 1)
      /\ \A k \in 1..(Len(fs) - 1) : Skip(i, k) \in DOMAIN fs \ {i} /\ Alike(h[k], fs[Skip(i, k)])
  BY <1>1, HandledFacts
<1> HIDE DEF R, h
<1>3. \A k \in DOMAIN h : h[k] \in S
  <2>1. \A k \in DOMAIN h : h[k] \in R
    BY <1>2
  <2> QED
    BY <1>1, <1>2, <2>1 DEF Closed, R
<1>4. h \in Seq(S)
  BY <1>2, <1>3
<1> QED
  BY <1>2, <1>4 DEF h

LEMMA OutdatedIn ==
  ASSUME NEW O, NEW A, NEW D, NEW S, Closed(S, O, A, D), NEW fs \in Seq(S), NEW loads
  PROVE  /\ F!Outdated(fs, loads) \in Seq(S)
         /\ DOMAIN F!Outdated(fs, loads) = DOMAIN fs
         /\ \A k \in DOMAIN fs : Alike(F!Outdated(fs, loads)[k], fs[k])
<1> DEFINE R == Requests(O, A, D)
           h == F!Outdated(fs, loads)
<1>1. fs \in Seq(R) /\ \A j \in DOMAIN fs : fs[j] \in S
  BY DEF Closed
<1>2. h \in Seq(R) /\ DOMAIN h = DOMAIN fs /\ \A k \in DOMAIN fs : Alike(h[k], fs[k])
  BY <1>1, OutdatedFacts
<1> HIDE DEF R, h
<1>3. \A k \in DOMAIN h : h[k] \in S
  <2>1. \A k \in DOMAIN h : h[k] \in R
    BY <1>2
  <2> QED
    BY <1>1, <1>2, <2>1 DEF Closed, R
<1>4. h \in Seq(S)
  BY <1>2, <1>3
<1> QED
  BY <1>2, <1>4 DEF h

LEMMA OvertakenIn ==
  ASSUME NEW O, NEW A, NEW D, NEW S, Closed(S, O, A, D), NEW fs \in Seq(S), NEW loads
  PROVE  /\ F!Overtaken(fs, loads) \in Seq(S)
         /\ DOMAIN F!Overtaken(fs, loads) = DOMAIN fs
         /\ \A k \in DOMAIN fs : Alike(F!Overtaken(fs, loads)[k], fs[k])
<1> DEFINE R == Requests(O, A, D)
           h == F!Overtaken(fs, loads)
<1>1. fs \in Seq(R) /\ \A j \in DOMAIN fs : fs[j] \in S
  BY DEF Closed
<1>2. h \in Seq(R) /\ DOMAIN h = DOMAIN fs /\ \A k \in DOMAIN fs : Alike(h[k], fs[k])
  BY <1>1, OvertakenFacts
<1> HIDE DEF R, h
<1>3. \A k \in DOMAIN h : h[k] \in S
  <2>1. \A k \in DOMAIN h : h[k] \in R
    BY <1>2
  <2> QED
    BY <1>1, <1>2, <2>1 DEF Closed, R
<1>4. h \in Seq(S)
  BY <1>2, <1>3
<1> QED
  BY <1>2, <1>4 DEF h

LEMMA ServedIn ==
  ASSUME NEW O, NEW A, NEW D, NEW S, Closed(S, O, A, D), NEW fs \in Seq(S), NEW i \in DOMAIN fs,
         NEW outcome \in F!Outcomes, NEW data \in D,
         \A r \in Requests(O, A, D) :
           r.op = fs[i].op /\ r.arg = fs[i].arg /\ r.outcome = outcome /\ r.data = data => r \in S
  PROVE  /\ F!Served(fs, i, outcome, data) \in Seq(S)
         /\ DOMAIN F!Served(fs, i, outcome, data) = DOMAIN fs
         /\ \A j \in DOMAIN fs \ {i} : F!Served(fs, i, outcome, data)[j] = fs[j]
         /\ F!Served(fs, i, outcome, data)[i].op = fs[i].op
         /\ F!Served(fs, i, outcome, data)[i].arg = fs[i].arg
         /\ F!Served(fs, i, outcome, data)[i].outcome = outcome
         /\ F!Served(fs, i, outcome, data)[i].data = data
<1> DEFINE R == Requests(O, A, D)
           h == F!Served(fs, i, outcome, data)
<1>1. fs \in Seq(R) /\ \A j \in DOMAIN fs : fs[j] \in S
  BY DEF Closed
<1>2. /\ h \in Seq(R) /\ DOMAIN h = DOMAIN fs /\ \A j \in DOMAIN fs \ {i} : h[j] = fs[j]
      /\ h[i].op = fs[i].op /\ h[i].arg = fs[i].arg /\ h[i].outcome = outcome /\ h[i].data = data
  BY <1>1, ServedFacts
<1> HIDE DEF R, h
<1>3. \A k \in DOMAIN h : h[k] \in S
  <2>1. h[i] \in R
    BY <1>2
  <2>2. h[i] \in S
    BY <1>2, <2>1 DEF R
  <2> QED
    BY <1>1, <1>2, <2>2
<1>4. h \in Seq(S)
  BY <1>2, <1>3
<1> QED
  BY <1>2, <1>4 DEF h

LEMMA SentIn ==
  ASSUME NEW O, NEW A, NEW D, NEW S, Closed(S, O, A, D), NEW fs \in Seq(S), NEW op \in O,
         NEW arg \in A, {} \in D,
         \A r \in Requests(O, A, D) :
           r.op = op /\ r.arg = arg /\ r.outcome = "none" /\ r.data = {} => r \in S
  PROVE  /\ Append(fs, F!Request(op, arg)) \in Seq(S)
         /\ DOMAIN Append(fs, F!Request(op, arg)) = 1..(Len(fs) + 1)
         /\ \A j \in DOMAIN fs : Append(fs, F!Request(op, arg))[j] = fs[j]
         /\ Append(fs, F!Request(op, arg))[Len(fs) + 1] = F!Request(op, arg)
<1> DEFINE R == Requests(O, A, D)
           q == F!Request(op, arg)
           h == Append(fs, q)
<1>1. fs \in Seq(R) /\ \A j \in DOMAIN fs : fs[j] \in S
  BY DEF Closed
<1>2. /\ q \in R /\ DOMAIN h = 1..(Len(fs) + 1) /\ (\A j \in DOMAIN fs : h[j] = fs[j])
      /\ h[Len(fs) + 1] = q
  BY <1>1, SentFacts
<1>3. q.op = op /\ q.arg = arg /\ q.outcome = "none" /\ q.data = {}
  BY DEF F!Request
<1>4. q \in S
  BY <1>2, <1>3
<1> HIDE DEF R, q
<1>5. h \in Seq(S)
  BY <1>4
<1> QED
  BY <1>2, <1>5 DEF q

\* The others, one by one.
Rest(gs, fs, i) ==
  /\ \A k \in DOMAIN gs : Skip(i, k) \in DOMAIN fs \ {i} /\ Alike(gs[k], fs[Skip(i, k)])
  /\ \A j, k \in DOMAIN gs : Skip(i, j) = Skip(i, k) => j = k
  /\ \A j \in DOMAIN fs \ {i} : \E k \in DOMAIN gs : Skip(i, k) = j

LEMMA HandledRest ==
  ASSUME NEW O, NEW A, NEW D, NEW S, Closed(S, O, A, D), NEW fs \in Seq(S), NEW i \in DOMAIN fs
  PROVE  F!Handled(fs, i) \in Seq(S) /\ Rest(F!Handled(fs, i), fs, i)
<1> DEFINE m == Len(fs)
           gs == F!Handled(fs, i)
<1>1. m \in Nat /\ DOMAIN fs = 1..m /\ i \in 1..m
  OBVIOUS
<1>2. /\ gs \in Seq(S) /\ DOMAIN gs = 1..(m - 1)
      /\ \A k \in 1..(m - 1) : Skip(i, k) \in DOMAIN fs \ {i} /\ Alike(gs[k], fs[Skip(i, k)])
  BY HandledIn
<1> HIDE DEF m, gs
<1>3. \A j, k \in 1..(m - 1) : Skip(i, j) = Skip(i, k) => j = k
  BY <1>1 DEF Skip
<1>4. \A j \in (1..m) \ {i} : \E k \in 1..(m - 1) : Skip(i, k) = j
  BY <1>1, SkipOnto
<1>5. Rest(gs, fs, i)
  BY <1>1, <1>2, <1>3, <1>4 DEF Rest
<1> QED
  BY <1>2, <1>5 DEF gs

\* Requests that are legal at one moment may be legal at another.
LEMMA LegalStill ==
  ASSUME NEW S, NEW T, NEW fs \in Seq(S), \A i \in DOMAIN fs : fs[i] \in T
  PROVE  fs \in Seq(T)
<1>1. fs = [i \in 1..Len(fs) |-> fs[i]] /\ Len(fs) \in Nat /\ DOMAIN fs = 1..Len(fs)
  OBVIOUS
<1> QED
  BY <1>1
-----------------------------------------------------------------------------
(* WebSession: which tab has which profile.                                *)

Purposes == {"login", "register"}

Codes == [user : Accounts, purpose : Purposes, device : BOOLEAN, used : BOOLEAN]

Profiles == [of : Accounts, complete : BOOLEAN]

SessionTabs ==
  [route : Session!Routes, otp : [user : Accounts, purpose : Purposes] \cup {None},
   keys : BOOLEAN, busy : BOOLEAN, token : Session!Holders, profile : Profiles \cup {None}]

SessionArgs ==
  [tab : Tabs \cup {None}, user : Session!Holders, nr : Nat, as : Session!Holders, here : BOOLEAN]

SessionData == {{}} \cup [otp : Purposes \cup {None}] \cup Profiles

SessionRequests == Requests(Session!Ops, SessionArgs, SessionData)

\* A request is about an account and a code that exist.
SessionAsk(r, codes) ==
  /\ r.op \in {"login", "register", "verify"} => r.arg.user \in Accounts
  /\ r.op \in {"verify", "resend"} => r.arg.nr \in DOMAIN codes
  /\ r.op = "me" /\ r.outcome = "ok" => r.data \in Profiles /\ r.data.of = r.arg.as

Sets(codes) == [used : SUBSET DOMAIN codes, complete : SUBSET Accounts]

SessionServer(s) ==
  /\ s \in [registered : SUBSET Accounts, codes : Seq(Codes), complete : SUBSET Accounts,
            open : SUBSET Sets(s.codes)]
  /\ \A k \in DOMAIN s.codes : s.codes[k].user \in s.registered

TabOK(tab) == tab \in SessionTabs /\ tab.route = Session!Landed(tab.route, tab.token)

SessionView(v) ==
  /\ v \in [storage : Session!Holders, dismissed : BOOLEAN, tabs : [Tabs -> SessionTabs]]
  /\ \A t \in Tabs : TabOK(v.tabs[t])

SessionFlight(fs, codes) ==
  fs \in Seq(SessionRequests) /\ \A i \in DOMAIN fs : SessionAsk(fs[i], codes)

SessionPast(p) == p \in [unsure : SUBSET Tabs, steps : {p.steps}, faults : {p.faults}]

\* The tab asks for its profile.
AsksMe(fs, t) == \E i \in DOMAIN fs : fs[i].op = "me" /\ fs[i].arg.tab = t

\* A tab that is sure of its profiles shows that of another account only until it gets its
\* own, and no other one is on its way.
ProfileOK(tab, t, fs, p) ==
  \/ t \in p.unsure
  \/ /\ tab.profile # None /\ tab.profile.of # tab.token => AsksMe(fs, t)
     /\ ~Session!Foreign(fs, t, tab.token)

\* The same profiles are on their way to the tab, or fewer of others.
Follows(fs, gs, t) ==
  /\ AsksMe(fs, t) => AsksMe(gs, t)
  /\ \A token : Session!Foreign(gs, t, token) => Session!Foreign(fs, t, token)

SessionInv ==
  /\ SessionServer(server) /\ SessionView(view) /\ SessionFlight(flight, server.codes)
  /\ SessionPast(past)
  /\ \A t \in Tabs : ProfileOK(view.tabs[t], t, flight, past)

LEMMA SessionFetch ==
  /\ \A fs, i : Session!Handled(fs, i) = F!Handled(fs, i)
  /\ \A fs, i, o, d : Session!Served(fs, i, o, d) = F!Served(fs, i, o, d)
  /\ \A op, a : Session!Request(op, a) = F!Request(op, a)
  BY DEF Session!Handled, F!Handled, Session!Served, F!Served,
         Session!Request, F!Request

\* Fewer requests: what is left is as it should be, and only the requests for a profile of
\* the one that was handled are gone.
LEMMA SessionHandled ==
  ASSUME NEW fs, NEW codes, SessionFlight(fs, codes), NEW i \in DOMAIN fs
  PROVE  /\ SessionFlight(Session!Handled(fs, i), codes)
         /\ \A t : ~(fs[i].op = "me" /\ fs[i].arg.tab = t) => Follows(fs, Session!Handled(fs, i), t)
         /\ \A t, token : Session!Foreign(Session!Handled(fs, i), t, token)
                            => Session!Foreign(fs, t, token)
<1> DEFINE h == F!Handled(fs, i)
           m == Len(fs)
<1>1. /\ h \in Seq(SessionRequests) /\ Len(h) = m - 1 /\ DOMAIN h = 1..(m - 1)
      /\ \A k \in 1..(m - 1) : Skip(i, k) \in DOMAIN fs \ {i} /\ Alike(h[k], fs[Skip(i, k)])
  BY HandledFacts DEF SessionFlight, SessionRequests
<1>2. m \in Nat /\ DOMAIN fs = 1..m
  BY DEF SessionFlight
<1> HIDE DEF h, m
<1>3. SessionFlight(h, codes)
  BY <1>1 DEF SessionFlight, SessionAsk, Alike
<1>4. ASSUME NEW t, AsksMe(fs, t), ~(fs[i].op = "me" /\ fs[i].arg.tab = t)
      PROVE  AsksMe(h, t)
  <2>1. PICK j \in 1..m : fs[j].op = "me" /\ fs[j].arg.tab = t
    BY <1>2, <1>4 DEF AsksMe
  <2>2. i \in 1..m /\ j \in (1..m) \ {i}
    BY <1>2, <1>4, <2>1
  <2>3. PICK k \in 1..(m - 1) : Skip(i, k) = j
    BY ONLY <1>2, <2>2, SkipOnto
  <2>4. k \in DOMAIN h /\ h[k].op = "me" /\ h[k].arg.tab = t
    BY <1>1, <2>1, <2>3 DEF Alike
  <2> QED
    BY <2>4 DEF AsksMe
<1>5. \A t, token : Session!Foreign(h, t, token) => Session!Foreign(fs, t, token)
  BY <1>1 DEF Session!Foreign, Alike
<1> QED
  BY <1>3, <1>4, <1>5, SessionFetch DEF h, Follows

\* A request is answered.
LEMMA SessionServed ==
  ASSUME NEW fs, NEW codes, SessionFlight(fs, codes), NEW i \in DOMAIN fs,
         NEW outcome \in F!Outcomes, NEW data \in SessionData,
         fs[i].op = "me" /\ outcome = "ok" => data \in Profiles /\ data.of = fs[i].arg.as
  PROVE  /\ SessionFlight(Session!Served(fs, i, outcome, data), codes)
         /\ \A t : Follows(fs, Session!Served(fs, i, outcome, data), t)
<1> DEFINE h == F!Served(fs, i, outcome, data)
<1>1. /\ h \in Seq(SessionRequests) /\ DOMAIN h = DOMAIN fs
      /\ \A j \in DOMAIN fs \ {i} : h[j] = fs[j]
      /\ h[i].op = fs[i].op /\ h[i].arg = fs[i].arg
      /\ h[i].outcome = outcome /\ h[i].data = data
  BY ServedFacts DEF SessionFlight, SessionRequests
<1> HIDE DEF h
<1>2. SessionFlight(h, codes)
  BY <1>1 DEF SessionFlight, SessionAsk
<1>3. \A j \in DOMAIN fs : h[j].op = fs[j].op /\ h[j].arg = fs[j].arg
  BY <1>1
<1>4. \A t : Follows(fs, h, t)
  BY <1>1, <1>3 DEF AsksMe, Follows, Session!Foreign
<1> QED
  BY <1>2, <1>4, SessionFetch DEF h

\* One request more.
LEMMA SessionSent ==
  ASSUME NEW fs, NEW codes, SessionFlight(fs, codes), NEW r \in SessionRequests,
         SessionAsk(r, codes)
  PROVE  /\ SessionFlight(Append(fs, r), codes)
         /\ \A t : ~(r.op = "me" /\ r.arg.tab = t) => Follows(fs, Append(fs, r), t)
         /\ r.op = "me" =>
              /\ AsksMe(Append(fs, r), r.arg.tab)
              /\ Session!Foreign(Append(fs, r), r.arg.tab, r.arg.as)
                   => Session!Foreign(fs, r.arg.tab, r.arg.as)
<1> DEFINE h == Append(fs, r)
           m == Len(fs)
<1>1. /\ h \in Seq(SessionRequests) /\ m \in Nat /\ DOMAIN fs = 1..m /\ DOMAIN h = 1..(m + 1)
      /\ \A j \in 1..m : h[j] = fs[j]
      /\ h[m + 1] = r
  BY DEF SessionFlight
<1>2. \A j \in 1..(m + 1) : j \in 1..m \/ j = m + 1
  BY <1>1
<1> HIDE DEF h, m
<1>3. SessionFlight(h, codes)
  BY <1>1, <1>2 DEF SessionFlight
<1>4. \A j \in 1..m : j \in 1..(m + 1)
  BY <1>1
<1>5. m + 1 \in 1..(m + 1)
  BY <1>1
<1>6. \A t : AsksMe(fs, t) \/ (r.op = "me" /\ r.arg.tab = t) => AsksMe(h, t)
  BY <1>1, <1>4, <1>5 DEF AsksMe
<1>7. \A t, token : Session!Foreign(h, t, token) =>
        Session!Foreign(fs, t, token) \/ (r.op = "me" /\ r.arg.tab = t /\ r.arg.as # token)
  BY <1>1, <1>2 DEF Session!Foreign
<1>8. \A t : ~(r.op = "me" /\ r.arg.tab = t) => Follows(fs, h, t)
  BY <1>6, <1>7 DEF Follows
<1>9. r.op = "me" => AsksMe(h, r.arg.tab)
  BY <1>6
<1>10. Session!Foreign(h, r.arg.tab, r.arg.as) => Session!Foreign(fs, r.arg.tab, r.arg.as)
  BY <1>7
<1> QED
  BY <1>3, <1>8, <1>9, <1>10 DEF h

\* The requests of a tab are marked, or lose their tab.
LEMMA SessionMarked ==
  ASSUME NEW fs, NEW codes, SessionFlight(fs, codes), NEW gs \in [DOMAIN fs -> SessionRequests],
         \A i \in DOMAIN fs : gs[i].op = fs[i].op
           /\ gs[i].outcome = fs[i].outcome /\ gs[i].data = fs[i].data
           /\ gs[i].arg.user = fs[i].arg.user /\ gs[i].arg.nr = fs[i].arg.nr
           /\ gs[i].arg.as = fs[i].arg.as
  PROVE  /\ SessionFlight(gs, codes)
         /\ \A t : (\A i \in DOMAIN fs : fs[i].arg.tab = t <=> gs[i].arg.tab = t)
                     => Follows(fs, gs, t)
<1>1. Len(fs) \in Nat /\ DOMAIN fs = 1..Len(fs)
  BY DEF SessionFlight
<1>2. gs \in Seq(SessionRequests)
  BY <1>1
<1>3. SessionFlight(gs, codes)
  BY <1>2 DEF SessionFlight, SessionAsk
<1>4. DOMAIN gs = DOMAIN fs
  OBVIOUS
<1> QED
  BY <1>3, <1>4 DEF AsksMe, Follows, Session!Foreign

LEMMA SessionLeft ==
  ASSUME NEW fs, NEW codes, SessionFlight(fs, codes), NEW t
  PROVE  /\ SessionFlight(Session!Left(fs, t), codes)
         /\ \A u : Follows(fs, Session!Left(fs, t), u)
<1> DEFINE gs == Session!Left(fs, t)
<1>1. \A i \in DOMAIN fs : fs[i] \in SessionRequests
  BY DEF SessionFlight
<1>2. DOMAIN gs = DOMAIN fs /\ gs = [i \in DOMAIN gs |-> gs[i]]
  BY DEF Session!Left
<1>3. ASSUME NEW r \in SessionRequests
      PROVE  LET q == [r EXCEPT !.arg.here = FALSE]
             IN /\ q \in SessionRequests
                /\ q.op = r.op /\ q.outcome = r.outcome /\ q.data = r.data
                /\ q.arg.user = r.arg.user /\ q.arg.nr = r.arg.nr /\ q.arg.tab = r.arg.tab
                /\ q.arg.as = r.arg.as
  BY DEF SessionRequests, Requests, SessionArgs
<1>4. \A i \in DOMAIN fs : gs[i] = fs[i] \/ gs[i] = [fs[i] EXCEPT !.arg.here = FALSE]
  BY DEF Session!Left
<1> HIDE DEF gs
<1>5. \A i \in DOMAIN fs : gs[i] \in SessionRequests /\ gs[i].op = fs[i].op
           /\ gs[i].outcome = fs[i].outcome /\ gs[i].data = fs[i].data
           /\ gs[i].arg.user = fs[i].arg.user /\ gs[i].arg.nr = fs[i].arg.nr
           /\ gs[i].arg.tab = fs[i].arg.tab /\ gs[i].arg.as = fs[i].arg.as
  BY ZenonT(60), <1>1, <1>3, <1>4
<1>6. gs \in [DOMAIN fs -> SessionRequests]
  BY <1>2, <1>5
<1> QED
  BY <1>5, <1>6, SessionMarked DEF gs

\* Where AuthGuard leads stays where it is.
LEMMA SessionLanded ==
  ASSUME NEW route \in Session!Routes, NEW token
  PROVE  /\ Session!Landed(route, token) \in Session!Routes
         /\ Session!Landed(Session!Landed(route, token), token) = Session!Landed(route, token)
  BY DEF Session!Landed, Session!Routes

\* A page that is left.
LEMMA SessionMoved ==
  ASSUME NEW tab \in SessionTabs, NEW route \in Session!Routes
  PROVE  /\ TabOK(Session!Moved(tab, route))
         /\ Session!Moved(tab, route).token = tab.token
         /\ Session!Moved(tab, route).profile = tab.profile
<1> DEFINE w == Session!Landed(route, tab.token)
           m == [tab EXCEPT !.route = w, !.otp = None, !.keys = FALSE, !.busy = FALSE]
<1>1. w \in Session!Routes /\ Session!Landed(w, tab.token) = w
  BY SessionLanded
<1>2. Session!Moved(tab, route) = m
  BY DEF Session!Moved
<1> HIDE DEF w
<1>3. m \in SessionTabs /\ m.token = tab.token /\ m.profile = tab.profile /\ m.route = w
  BY <1>1 DEF SessionTabs
<1> QED
  BY <1>1, <1>2, <1>3 DEF TabOK

\* A tab that was just loaded.
LEMMA SessionLoaded ==
  ASSUME NEW token \in Session!Holders, NEW route \in Session!Routes
  PROVE  /\ TabOK(Session!Loaded(token, route))
         /\ Session!Loaded(token, route).profile = None
<1>1. /\ Session!Landed(route, token) \in Session!Routes
      /\ Session!Landed(Session!Landed(route, token), token) = Session!Landed(route, token)
  BY SessionLanded
<1> QED
  BY <1>1 DEF TabOK, SessionTabs, Session!Loaded

\* One tab changes, and localStorage.
WithTab(v, t, tab) == [v EXCEPT !.tabs[t] = tab]

WithStored(v, token, t, tab) == [v EXCEPT !.storage = token, !.tabs[t] = tab]

LEMMA SessionTabSet ==
  ASSUME NEW v, SessionView(v), NEW t \in Tabs, NEW tab, TabOK(tab)
  PROVE  /\ SessionView(WithTab(v, t, tab))
         /\ WithTab(v, t, tab).tabs[t] = tab
         /\ \A u \in Tabs \ {t} : WithTab(v, t, tab).tabs[u] = v.tabs[u]
  BY DEF SessionView, TabOK, WithTab

LEMMA SessionStored ==
  ASSUME NEW v, SessionView(v), NEW t \in Tabs, NEW tab, TabOK(tab), NEW token \in Session!Holders
  PROVE  /\ SessionView(WithStored(v, token, t, tab))
         /\ WithStored(v, token, t, tab).tabs[t] = tab
         /\ \A u \in Tabs \ {t} : WithStored(v, token, t, tab).tabs[u] = v.tabs[u]
  BY DEF SessionView, TabOK, WithStored

\* A tab with the same token and profile as before.
LEMMA ProfileKept ==
  ASSUME NEW a, NEW b, NEW t, NEW fs, NEW gs, NEW p, NEW q, ProfileOK(a, t, fs, p),
         b.token = a.token, b.profile = a.profile, Follows(fs, gs, t),
         t \in p.unsure => t \in q.unsure
  PROVE  ProfileOK(b, t, gs, q)
  BY DEF ProfileOK, Follows

\* A step of the page of tab t that leaves its token and its profile alone.
LEMMA SessionQuiet ==
  ASSUME SessionInv, NEW t \in Tabs, NEW tab, TabOK(tab),
         tab.token = view.tabs[t].token, tab.profile = view.tabs[t].profile,
         view' = WithTab(view, t, tab), UNCHANGED server,
         SessionFlight(flight', server.codes),
         \A u \in Tabs : Follows(flight, flight', u),
         SessionPast(past'), past'.unsure = past.unsure
  PROVE  SessionInv'
<1>1. /\ SessionView(view') /\ view'.tabs[t] = tab
      /\ \A u \in Tabs \ {t} : view'.tabs[u] = view.tabs[u]
  BY SessionTabSet DEF SessionInv
<1>2. \A u \in Tabs : view'.tabs[u].token = view.tabs[u].token
                   /\ view'.tabs[u].profile = view.tabs[u].profile
  BY <1>1
<1>3. \A u \in Tabs : ProfileOK(view'.tabs[u], u, flight', past')
  BY <1>2, ProfileKept DEF SessionInv
<1> QED
  BY <1>1, <1>3 DEF SessionInv

\* What the user does counts.
LEMMA SessionActed ==
  ASSUME SessionPast(past)
  PROVE  /\ SessionPast(Session!Acted) /\ Session!Acted.unsure = past.unsure
         /\ \A U \in SUBSET Tabs : LET p == [Session!Acted EXCEPT !.unsure = U]
                                  IN SessionPast(p) /\ p.unsure = U
<1> DEFINE a == Session!Acted
<1>1. a = [past EXCEPT !.steps = past.steps + 1]
  BY DEF Session!Acted
<1> HIDE DEF a
<1>2. SessionPast(a) /\ a.unsure = past.unsure
  BY <1>1 DEF SessionPast
<1>3. ASSUME NEW U \in SUBSET Tabs
      PROVE  LET p == [a EXCEPT !.unsure = U]
             IN SessionPast(p) /\ p.unsure = U
  BY <1>2 DEF SessionPast
<1> QED
  BY <1>2, <1>3 DEF a

\* The requests that tabs send.
LEMMA SessionAsking ==
  ASSUME SessionFlight(flight, server.codes), NEW t \in Tabs, NEW op \in Session!Ops,
         NEW user \in Session!Holders, NEW nr \in Nat, NEW as \in Session!Holders,
         op \in {"login", "register", "verify"} => user \in Accounts,
         op \in {"verify", "resend"} => nr \in DOMAIN server.codes
  PROVE  /\ Session!SessionRequest(t, op, user, nr, as) \in SessionRequests
         /\ SessionAsk(Session!SessionRequest(t, op, user, nr, as), server.codes)
         /\ Session!SessionRequest(t, op, user, nr, as).op = op
         /\ Session!SessionRequest(t, op, user, nr, as).arg.tab = t
         /\ Session!SessionRequest(t, op, user, nr, as).arg.as = as
<1> DEFINE arg == [tab |-> t, user |-> user, nr |-> nr, as |-> as, here |-> TRUE]
           r == Session!SessionRequest(t, op, user, nr, as)
<1>1. arg \in SessionArgs
  BY DEF SessionArgs
<1>2. r = F!Request(op, arg)
  BY SessionFetch DEF Session!SessionRequest
<1>3. F!Request(op, arg) \in SessionRequests
  BY <1>1, SentFacts DEF SessionRequests, SessionData, SessionFlight
<1>4. r.op = op /\ r.arg = arg /\ r.outcome = "none"
  BY <1>2 DEF F!Request
<1>5. r.arg.user = user /\ r.arg.nr = nr /\ r.arg.tab = t /\ r.arg.as = as
  BY <1>4
<1> HIDE DEF r, arg
<1>6. SessionAsk(r, server.codes)
  BY <1>4, <1>5 DEF SessionAsk
<1> QED
  BY <1>2, <1>3, <1>4, <1>5, <1>6 DEF r

LEMMA SessionFacts ==
  ASSUME SessionInv
  PROVE  /\ view.storage \in Session!Holders
         /\ \A t : Session!Tab(t) = view.tabs[t]
         /\ \A t \in Tabs : /\ TabOK(view.tabs[t]) /\ view.tabs[t] \in SessionTabs
                            /\ view.tabs[t].route \in Session!Routes
                            /\ view.tabs[t].token \in Session!Holders
         /\ SessionFlight(flight, server.codes) /\ Len(flight) \in Nat
         /\ \A i \in DOMAIN flight : /\ flight[i] \in SessionRequests
                                     /\ SessionAsk(flight[i], server.codes)
                                     /\ flight[i].op \in Session!Ops
                                     /\ flight[i].arg \in SessionArgs
<1>1. view.storage \in Session!Holders /\ \A t : Session!Tab(t) = view.tabs[t]
  BY DEF SessionInv, SessionView, Session!Tab
<1>2. \A t \in Tabs : TabOK(view.tabs[t]) /\ view.tabs[t] \in SessionTabs
  BY DEF SessionInv, SessionView, TabOK
<1>3. ASSUME NEW tab \in SessionTabs
      PROVE  tab.route \in Session!Routes /\ tab.token \in Session!Holders
  BY DEF SessionTabs
<1>4. /\ SessionFlight(flight, server.codes) /\ Len(flight) \in Nat
      /\ \A i \in DOMAIN flight : flight[i] \in SessionRequests /\ SessionAsk(flight[i], server.codes)
  BY DEF SessionInv, SessionFlight
<1>5. ASSUME NEW r \in SessionRequests
      PROVE  r.op \in Session!Ops /\ r.arg \in SessionArgs
  BY DEF SessionRequests, Requests
<1> QED
  BY <1>1, <1>2, <1>3, <1>4, <1>5

Busy(tab, b) == [tab EXCEPT !.busy = b]

\* The button of a form is pressed and its request is sent.
LEMMA SessionPressed ==
  ASSUME SessionInv, NEW t \in Tabs, NEW busy \in BOOLEAN, NEW op \in Session!Ops,
         NEW user \in Session!Holders, NEW nr \in Nat,
         op \in {"login", "register", "verify"} => user \in Accounts,
         op \in {"verify", "resend"} => nr \in DOMAIN server.codes, op # "me",
         view' = WithTab(view, t, Busy(view.tabs[t], busy)),
         Session!Sending(t, op, user, nr), UNCHANGED server
  PROVE  SessionInv'
<1> DEFINE tab == Busy(view.tabs[t], busy)
           r == Session!SessionRequest(t, op, user, nr, view.storage)
<1>1. TabOK(tab) /\ tab.token = view.tabs[t].token /\ tab.profile = view.tabs[t].profile
  BY SessionFacts DEF TabOK, SessionTabs, Busy
<1>2. r \in SessionRequests /\ SessionAsk(r, server.codes) /\ r.op # "me"
  BY SessionFacts, SessionAsking
<1>3. flight' = Append(flight, r) /\ past' = Session!Acted
  BY DEF Session!Sending
<1>4. view' = WithTab(view, t, tab)
  OBVIOUS
<1> HIDE DEF r, tab
<1>5. /\ SessionFlight(flight', server.codes)
      /\ \A u \in Tabs : Follows(flight, flight', u)
  BY <1>2, <1>3, SessionFacts, SessionSent
<1>6. SessionPast(past') /\ past'.unsure = past.unsure
  BY <1>3, SessionActed DEF SessionInv
<1> QED
  BY <1>1, <1>4, <1>5, <1>6, SessionQuiet

LEMMA SessionNavigate ==
  ASSUME SessionInv, NEW t \in Tabs, NEW route \in Session!Routes, Session!Navigate(t, route)
  PROVE  SessionInv'
<1> DEFINE tab == Session!Moved(view.tabs[t], route)
<1>1. TabOK(tab) /\ tab.token = view.tabs[t].token /\ tab.profile = view.tabs[t].profile
  BY SessionFacts, SessionMoved
<1>2. /\ view' = WithTab(view, t, tab) /\ flight' = Session!Left(flight, t)
      /\ past' = Session!Acted /\ UNCHANGED server
  BY SessionFacts DEF Session!Navigate, Session!SetTab, WithTab
<1> HIDE DEF tab
<1>3. /\ SessionFlight(flight', server.codes)
      /\ \A u \in Tabs : Follows(flight, flight', u)
  BY <1>2, SessionFacts, SessionLeft
<1>4. SessionPast(past') /\ past'.unsure = past.unsure
  BY <1>2, SessionActed DEF SessionInv
<1> QED
  BY <1>1, <1>2, <1>3, <1>4, SessionQuiet

\* The tab has no profile until it gets an answer to the request it makes, if it makes one.
LEMMA SessionReload ==
  ASSUME SessionInv, NEW t \in Tabs, Session!Reload(t)
  PROVE  SessionInv'
<1> DEFINE tab == Session!Loaded(view.storage, view.tabs[t].route)
           orphans == [j \in DOMAIN flight |->
             IF flight[j].arg.tab = t THEN [flight[j] EXCEPT !.arg.tab = None] ELSE flight[j]]
           r == Session!SessionRequest(t, "me", None, 0, view.storage)
<1>1. TabOK(tab) /\ tab.profile = None /\ tab.token = view.storage
  BY SessionFacts, SessionLoaded DEF Session!Loaded
<1>2. /\ view' = WithTab(view, t, tab)
      /\ flight' = IF view.storage = None THEN orphans ELSE Append(orphans, r)
      /\ past' = [Session!Acted EXCEPT !.unsure = past.unsure \ {t}] /\ UNCHANGED server
  BY SessionFacts, SessionActed DEF SessionInv, Session!Reload, Session!SetTab, WithTab
<1>3. ASSUME NEW q \in SessionRequests
      PROVE  LET o == [q EXCEPT !.arg.tab = None]
             IN /\ o \in SessionRequests
                /\ o.op = q.op /\ o.outcome = q.outcome /\ o.data = q.data
                /\ o.arg.user = q.arg.user /\ o.arg.nr = q.arg.nr /\ o.arg.as = q.arg.as
                /\ o.arg.tab = None
  BY DEF SessionRequests, Requests, SessionArgs
<1>4. /\ DOMAIN orphans = DOMAIN flight /\ orphans = [i \in DOMAIN orphans |-> orphans[i]]
      /\ \A i \in DOMAIN flight :
           \/ flight[i].arg.tab # t /\ orphans[i] = flight[i]
           \/ flight[i].arg.tab = t /\ orphans[i] = [flight[i] EXCEPT !.arg.tab = None]
  OBVIOUS
<1> HIDE DEF orphans, tab, r
<1>5. \A i \in DOMAIN flight :
        /\ orphans[i] \in SessionRequests /\ orphans[i].op = flight[i].op
        /\ orphans[i].outcome = flight[i].outcome /\ orphans[i].data = flight[i].data
        /\ orphans[i].arg.user = flight[i].arg.user /\ orphans[i].arg.nr = flight[i].arg.nr
        /\ orphans[i].arg.as = flight[i].arg.as
  BY ZenonT(60), <1>3, <1>4, SessionFacts
<1>14. \A i \in DOMAIN flight :
         \/ flight[i].arg.tab # t /\ orphans[i].arg.tab = flight[i].arg.tab
         \/ flight[i].arg.tab = t /\ orphans[i].arg.tab = None
  <2> SUFFICES ASSUME NEW i \in DOMAIN flight
               PROVE  \/ flight[i].arg.tab # t /\ orphans[i].arg.tab = flight[i].arg.tab
                      \/ flight[i].arg.tab = t /\ orphans[i].arg.tab = None
    OBVIOUS
  <2>1. [flight[i] EXCEPT !.arg.tab = None].arg.tab = None
    BY <1>3, SessionFacts
  <2> QED
    BY <1>4, <2>1
<1>6. orphans \in [DOMAIN flight -> SessionRequests]
  BY <1>4, <1>5
<1>7. /\ SessionFlight(orphans, server.codes)
      /\ \A u \in Tabs \ {t} : Follows(flight, orphans, u)
      /\ \A token : ~Session!Foreign(orphans, t, token)
  <2>1. \A u \in Tabs : u # None
    BY NoneAssumption
  <2>2. \A u \in Tabs \ {t} : \A i \in DOMAIN flight :
          flight[i].arg.tab = u <=> orphans[i].arg.tab = u
    BY <1>14, <2>1
  <2>3. \A i \in DOMAIN orphans : orphans[i].arg.tab # t
    BY <1>4, <1>14, <2>1
  <2> QED
    BY <1>5, <1>6, <2>2, <2>3, SessionFacts, SessionMarked DEF Session!Foreign
<1>8. r \in SessionRequests /\ SessionAsk(r, server.codes) /\ r.arg.tab = t /\ r.arg.as = view.storage
      /\ r.op = "me"
  <2>1. "me" \in Session!Ops /\ None \in Session!Holders /\ 0 \in Nat
    BY DEF Session!Ops, Session!Holders
  <2> QED
    BY <2>1, SessionFacts, SessionAsking DEF r
<1>9. /\ SessionFlight(flight', server.codes)
      /\ \A u \in Tabs \ {t} : Follows(flight, flight', u)
      /\ ~Session!Foreign(flight', t, view.storage)
  <2>1. /\ SessionFlight(Append(orphans, r), server.codes)
        /\ \A u \in Tabs \ {t} : Follows(orphans, Append(orphans, r), u)
        /\ ~Session!Foreign(Append(orphans, r), t, view.storage)
    BY <1>7, <1>8, SessionSent
  <2>2. \A u \in Tabs \ {t} : Follows(flight, Append(orphans, r), u)
    BY <1>7, <2>1 DEF Follows
  <2> QED
    BY <1>2, <1>7, <2>1, <2>2
<1>10. SessionPast(past') /\ past'.unsure = past.unsure \ {t}
  BY <1>2, SessionActed DEF SessionInv, SessionPast
<1>11. /\ SessionView(view') /\ view'.tabs[t] = tab
       /\ \A u \in Tabs \ {t} : view'.tabs[u] = view.tabs[u]
  BY <1>1, <1>2, SessionTabSet DEF SessionInv
<1>12. \A u \in Tabs \ {t} : ProfileOK(view'.tabs[u], u, flight', past')
  BY <1>9, <1>10, <1>11, ProfileKept DEF SessionInv
<1>13. ProfileOK(view'.tabs[t], t, flight', past')
  BY <1>1, <1>9, <1>11 DEF ProfileOK
<1> QED
  BY <1>2, <1>9, <1>10, <1>11, <1>12, <1>13 DEF SessionInv

LEMMA SessionForms ==
  ASSUME SessionInv, NEW t \in Tabs,
         \/ \E a \in Accounts : Session!SignIn(t, a) \/ Session!SignUp(t, a)
         \/ \E k \in DOMAIN server.codes : Session!Verify(t, k)
         \/ Session!Resend(t) \/ Session!SaveProfile(t)
  PROVE  SessionInv'
<1> DEFINE Pressed(b) == view' = WithTab(view, t, Busy(view.tabs[t], b))
<1>0. 0 \in Nat /\ DOMAIN server.codes \subseteq Nat /\ None \in Session!Holders
      /\ Accounts \subseteq Session!Holders
  BY DEF SessionInv, SessionServer, Session!Holders
<1>1. ASSUME NEW a \in Accounts, Session!SignIn(t, a)
      PROVE  SessionInv'
  <2>1. Pressed(TRUE) /\ Session!Sending(t, "login", a, 0) /\ UNCHANGED server
    BY <1>1, SessionFacts DEF Session!SignIn, Session!SetTab, WithTab, Busy
  <2> QED
    BY <1>0, <2>1, SessionPressed DEF Session!Ops
<1>2. ASSUME NEW a \in Accounts, Session!SignUp(t, a)
      PROVE  SessionInv'
  <2>1. Pressed(TRUE) /\ Session!Sending(t, "register", a, 0) /\ UNCHANGED server
    BY <1>2, SessionFacts DEF Session!SignUp, Session!SetTab, WithTab, Busy
  <2> QED
    BY <1>0, <2>1, SessionPressed DEF Session!Ops
<1>3. Session!ShowsCodeForm(t) => view.tabs[t].otp.user \in Accounts
  BY SessionFacts DEF Session!ShowsCodeForm, SessionTabs
<1>4. ASSUME NEW k \in DOMAIN server.codes, Session!Verify(t, k)
      PROVE  SessionInv'
  <2>1. /\ Session!Sending(t, "verify", view.tabs[t].otp.user, k) /\ UNCHANGED <<server, view>>
        /\ Session!ShowsCodeForm(t)
    BY <1>4, SessionFacts DEF Session!Verify
  <2>2. view.tabs[t].busy \in BOOLEAN /\ Pressed(view.tabs[t].busy)
    <3>1. view \in [storage : Session!Holders, dismissed : BOOLEAN, tabs : [Tabs -> SessionTabs]]
      BY DEF SessionInv, SessionView
    <3>2. view.tabs[t].busy \in BOOLEAN
      BY SessionFacts DEF SessionTabs
    <3>3. [view.tabs[t] EXCEPT !.busy = view.tabs[t].busy] = view.tabs[t]
      BY SessionFacts DEF SessionTabs
    <3>4. [view EXCEPT !.tabs[t] = view.tabs[t]] = view
      BY <3>1
    <3> QED
      BY <2>1, <3>2, <3>3, <3>4 DEF WithTab, Busy
  <2> HIDE DEF Pressed
  <2>3. view.tabs[t].otp.user \in Session!Holders /\ k \in Nat
    BY <1>0, <1>3, <2>1
  <2> QED
    BY <1>3, <2>1, <2>2, <2>3, SessionPressed DEF Pressed, Session!Ops
<1>5. ASSUME Session!Resend(t)
      PROVE  SessionInv'
  <2>1. Pressed(TRUE) /\ UNCHANGED server /\ Session!ShowsCodeForm(t)
    BY <1>5, SessionFacts DEF Session!Resend, Session!SetTab, WithTab, Busy
  <2>2. PICK k \in DOMAIN server.codes : Session!Sending(t, "resend", view.tabs[t].otp.user, k)
    BY <1>5, SessionFacts DEF Session!Resend, Session!Mailed
  <2>3. view.tabs[t].otp.user \in Session!Holders /\ k \in Nat
    BY <1>0, <1>3, <2>1
  <2> QED
    BY <2>1, <2>2, <2>3, SessionPressed DEF Session!Ops
<1>6. ASSUME Session!SaveProfile(t)
      PROVE  SessionInv'
  <2>1. Pressed(TRUE) /\ Session!Sending(t, "profile", None, 0) /\ UNCHANGED server
    BY <1>6, SessionFacts DEF Session!SaveProfile, Session!SetTab, WithTab, Busy
  <2> QED
    BY <1>0, <2>1, SessionPressed DEF Session!Ops
<1> QED
  BY <1>1, <1>2, <1>4, <1>5, <1>6

LEMMA SessionKeysSaved ==
  ASSUME SessionInv, NEW t \in Tabs, Session!KeysSaved(t)
  PROVE  SessionInv'
<1> DEFINE tab == [view.tabs[t] EXCEPT !.keys = FALSE]
<1>1. TabOK(tab) /\ tab.token = view.tabs[t].token /\ tab.profile = view.tabs[t].profile
  BY SessionFacts DEF TabOK, SessionTabs
<1>2. view' = WithTab(view, t, tab) /\ UNCHANGED <<server, flight, past>>
  BY SessionFacts DEF Session!KeysSaved, Session!SetTab, WithTab
<1>3. \A u \in Tabs : Follows(flight, flight', u)
  BY <1>2 DEF Follows
<1> QED
  BY <1>1, <1>2, <1>3, SessionQuiet DEF SessionInv

LEMMA SessionLogout ==
  ASSUME SessionInv, NEW t \in Tabs, Session!Logout(t)
  PROVE  SessionInv'
<1> DEFINE bare == [view.tabs[t] EXCEPT !.token = None, !.profile = None]
           tab == Session!Moved(bare, "landing")
<1>1. bare \in SessionTabs /\ bare.profile = None
  BY SessionFacts DEF SessionTabs, Session!Holders
<1>2. TabOK(tab) /\ tab.profile = None /\ tab.token = None
  <2>1. bare.token = None
    BY SessionFacts DEF SessionTabs
  <2> HIDE DEF bare
  <2> QED
    BY <1>1, <2>1, SessionMoved DEF Session!Routes
<1> DEFINE unsure == IF Session!Foreign(flight, t, None) THEN past.unsure \cup {t}
                     ELSE past.unsure \ {t}
<1>3. /\ view' = WithStored(view, None, t, tab)
      /\ flight' = Session!Left(flight, t)
      /\ past' = [Session!Acted EXCEPT !.unsure = unsure] /\ UNCHANGED server
  BY SessionFacts, SessionActed DEF SessionInv, Session!Logout, Session!SignedOut, WithStored
<1> HIDE DEF tab
<1>4. /\ SessionFlight(flight', server.codes)
      /\ \A u \in Tabs : Follows(flight, flight', u)
  BY <1>3, SessionFacts, SessionLeft
<1>5. SessionPast(past') /\ past'.unsure = unsure
  BY <1>3, SessionActed DEF SessionInv, SessionPast
<1>6. /\ SessionView(view') /\ view'.tabs[t] = tab
      /\ \A u \in Tabs \ {t} : view'.tabs[u] = view.tabs[u]
  BY <1>2, <1>3, SessionStored DEF SessionInv, Session!Holders
<1>7. \A u \in Tabs \ {t} : ProfileOK(view'.tabs[u], u, flight', past')
  BY <1>4, <1>5, <1>6, ProfileKept DEF SessionInv
<1>8. ProfileOK(view'.tabs[t], t, flight', past')
  BY <1>2, <1>4, <1>5, <1>6 DEF ProfileOK, Follows
<1> QED
  BY <1>3, <1>4, <1>5, <1>6, <1>7, <1>8 DEF SessionInv

LEMMA SessionDismiss ==
  ASSUME SessionInv, NEW t \in Tabs, Session!Dismiss(t)
  PROVE  SessionInv'
<1>1. view' = [view EXCEPT !.dismissed = TRUE] /\ UNCHANGED <<server, flight, past>>
  BY DEF Session!Dismiss
<1>2. SessionView(view') /\ view'.tabs = view.tabs
  BY <1>1 DEF SessionInv, SessionView
<1> QED
  BY <1>1, <1>2 DEF SessionInv

\* More one-time codes are no harm to the requests.
LEMMA SessionCodesGrow ==
  ASSUME NEW fs, NEW codes, SessionFlight(fs, codes), NEW more, DOMAIN codes \subseteq DOMAIN more
  PROVE  SessionFlight(fs, more)
  BY DEF SessionFlight, SessionAsk

LEMMA SessionSets ==
  ASSUME NEW codes, NEW more, DOMAIN codes \subseteq DOMAIN more
  PROVE  Sets(codes) \subseteq Sets(more)
  BY DEF Sets

\* cityhall answers.
LEMMA SessionAnswered ==
  ASSUME SessionInv, NEW i \in DOMAIN flight, NEW outcome \in F!Outcomes, NEW data \in SessionData,
         flight[i].op = "me" /\ outcome = "ok" => data \in Profiles /\ data.of = flight[i].arg.as,
         flight' = Session!Served(flight, i, outcome, data),
         SessionServer(server'), DOMAIN server.codes \subseteq DOMAIN server'.codes,
         UNCHANGED view, SessionPast(past'), past'.unsure = past.unsure
  PROVE  SessionInv'
<1>1. /\ SessionFlight(flight', server.codes)
      /\ \A u \in Tabs : Follows(flight, flight', u)
  BY SessionServed DEF SessionInv
<1>2. SessionFlight(flight', server'.codes)
  BY <1>1, SessionCodesGrow
<1>3. \A u \in Tabs : ProfileOK(view'.tabs[u], u, flight', past')
  BY <1>1, ProfileKept DEF SessionInv
<1> QED
  BY <1>2, <1>3 DEF SessionInv

\* A code more, for a registered account.
LEMMA SessionCodeSent ==
  ASSUME NEW codes \in Seq(Codes), NEW a \in Accounts, NEW purpose \in Purposes,
         NEW device \in BOOLEAN, NEW R, a \in R, \A k \in DOMAIN codes : codes[k].user \in R
  PROVE  /\ Session!CodeSent(codes, a, purpose, device) \in Seq(Codes)
         /\ DOMAIN codes \subseteq DOMAIN Session!CodeSent(codes, a, purpose, device)
         /\ \A k \in DOMAIN Session!CodeSent(codes, a, purpose, device) :
              Session!CodeSent(codes, a, purpose, device)[k].user \in R
<1> DEFINE row == Session!CodeRow(a, purpose, device)
           more == Session!CodeSent(codes, a, purpose, device)
           n == Len(codes)
<1>1. row \in Codes /\ row.user = a
  BY DEF Codes, Session!CodeRow
<1>2. more = Append(codes, row)
  BY DEF Session!CodeSent
<1> HIDE DEF row, more
<1>3. /\ more \in Seq(Codes) /\ n \in Nat /\ DOMAIN codes = 1..n /\ DOMAIN more = 1..(n + 1)
      /\ \A k \in 1..n : more[k] = codes[k]
      /\ more[n + 1] = row
  BY <1>1, <1>2
<1>4. \A k \in 1..(n + 1) : k \in 1..n \/ k = n + 1
  BY <1>3
<1> QED
  BY <1>1, <1>3, <1>4 DEF more

\* Codes that are used up or void.
LEMMA SessionCodesUsed ==
  ASSUME NEW codes \in Seq(Codes), NEW more, DOMAIN more = DOMAIN codes,
         more \in [DOMAIN codes -> Codes], NEW R,
         \A k \in DOMAIN codes : codes[k].user \in R /\ more[k].user = codes[k].user
  PROVE  more \in Seq(Codes) /\ \A k \in DOMAIN more : more[k].user \in R
  OBVIOUS

LEMMA SessionVoided ==
  ASSUME NEW codes \in Seq(Codes), NEW a, NEW purpose
  PROVE  /\ Session!Voided(codes, a, purpose) \in Seq(Codes)
         /\ DOMAIN Session!Voided(codes, a, purpose) = DOMAIN codes
         /\ \A k \in DOMAIN codes : Session!Voided(codes, a, purpose)[k].user = codes[k].user
<1> DEFINE void == [k \in DOMAIN codes |->
             IF codes[k].user = a /\ codes[k].purpose = purpose
             THEN [codes[k] EXCEPT !.used = TRUE] ELSE codes[k]]
<1>1. void = Session!Voided(codes, a, purpose)
  BY DEF Session!Voided
<1>2. ASSUME NEW c \in Codes
      PROVE  [c EXCEPT !.used = TRUE] \in Codes /\ [c EXCEPT !.used = TRUE].user = c.user
  BY DEF Codes
<1>3. \A k \in DOMAIN codes : codes[k] \in Codes
  OBVIOUS
<1>4. \A k \in DOMAIN codes : void[k] = codes[k] \/ void[k] = [codes[k] EXCEPT !.used = TRUE]
  OBVIOUS
<1>5. \A k \in DOMAIN codes : void[k] \in Codes /\ void[k].user = codes[k].user
  <2> HIDE DEF void
  <2> QED
    BY <1>2, <1>3, <1>4
<1>6. void \in [DOMAIN codes -> Codes] /\ DOMAIN void = DOMAIN codes
  BY <1>5
<1> HIDE DEF void
<1>7. void \in Seq(Codes)
  BY <1>6
<1> QED
  BY <1>1, <1>5, <1>6, <1>7

LEMMA SessionServedOK ==
  ASSUME SessionInv, NEW i \in DOMAIN flight, Session!Cityhall(i) \/ Session!Fail(i)
  PROVE  SessionInv'
<1> DEFINE regs == server.registered
           codes == server.codes
<1>1. /\ server \in [registered : SUBSET Accounts, codes : Seq(Codes), complete : SUBSET Accounts,
                     open : SUBSET Sets(codes)]
      /\ regs \subseteq Accounts /\ codes \in Seq(Codes) /\ server.complete \subseteq Accounts
      /\ \A k \in DOMAIN codes : codes[k].user \in regs
      /\ SessionPast(past) /\ SessionServer(server)
  BY DEF SessionInv, SessionServer
<1>2. {"ok", "refused", "throws"} \subseteq F!Outcomes /\ {} \in SessionData
  BY DEF F!Outcomes, SessionData
<1>3. /\ flight[i].op = "me" => "none" # "ok"
      /\ SessionAsk(flight[i], codes) /\ flight[i].arg \in SessionArgs
  BY SessionFacts
<1> HIDE DEF regs, codes
<1>4. ASSUME UNCHANGED <<server, view, past>>, NEW outcome \in F!Outcomes, NEW data \in SessionData,
             flight[i].op = "me" /\ outcome = "ok" => data \in Profiles /\ data.of = flight[i].arg.as,
             flight' = Session!Served(flight, i, outcome, data)
      PROVE  SessionInv'
  BY <1>1, <1>4, SessionAnswered
<1>5. ASSUME Session!ServeLogin(i)
      PROVE  SessionInv'
  <2> DEFINE a == flight[i].arg.user
  <2>1. /\ a \in regs /\ flight[i].op = "login" /\ UNCHANGED <<view, past>>
        /\ \/ /\ flight' = Session!Served(flight, i, "ok", [otp |-> None])
              /\ UNCHANGED server
           \/ /\ flight' = Session!Served(flight, i, "ok", [otp |-> "login"])
              /\ server' = [server EXCEPT !.codes = Session!CodeSent(server.codes, a, "login", TRUE)]
    BY <1>5 DEF Session!ServeLogin, Session!Waiting, regs
  <2> HIDE DEF a
  <2>2. [otp |-> None] \in SessionData /\ [otp |-> "login"] \in SessionData /\ "login" \in Purposes
    BY DEF SessionData, Purposes
  <2>3. CASE flight' = Session!Served(flight, i, "ok", [otp |-> None]) /\ UNCHANGED server
    BY <1>2, <1>4, <2>1, <2>2, <2>3
  <2>4. CASE /\ flight' = Session!Served(flight, i, "ok", [otp |-> "login"])
             /\ server' = [server EXCEPT !.codes = Session!CodeSent(server.codes, a, "login", TRUE)]
    <3> DEFINE more == Session!CodeSent(codes, a, "login", TRUE)
    <3>1. a \in Accounts
      BY <1>1, <2>1
    <3>2. /\ more \in Seq(Codes) /\ DOMAIN codes \subseteq DOMAIN more
          /\ \A k \in DOMAIN more : more[k].user \in regs
      BY <1>1, <2>1, <2>2, <3>1, SessionCodeSent
    <3>3. server' = [server EXCEPT !.codes = more]
      BY <2>4 DEF codes
    <3> HIDE DEF more
    <3>4. SessionServer(server') /\ server'.codes = more
      BY <1>1, <3>2, <3>3, SessionSets DEF SessionServer, regs
    <3> QED
      BY <1>1, <1>2, <2>1, <2>2, <2>4, <3>2, <3>4, SessionAnswered DEF codes
  <2> QED
    BY <2>1, <2>3, <2>4
<1>6. ASSUME Session!RefuseLogin(i)
      PROVE  SessionInv'
  BY <1>2, <1>4, <1>6 DEF Session!RefuseLogin
<1>7. ASSUME Session!ServeRegister(i)
      PROVE  SessionInv'
  <2> DEFINE a == flight[i].arg.user
  <2>1. /\ flight[i].op = "register" /\ UNCHANGED <<view, past>>
        /\ \/ flight' = Session!Served(flight, i, "refused", {}) /\ UNCHANGED server
           \/ /\ flight' = Session!Served(flight, i, "ok", [otp |-> "register"])
              /\ server' = [server EXCEPT !.registered = regs \cup {a},
                             !.codes = Session!CodeSent(codes, a, "register", FALSE)]
    BY <1>7 DEF Session!ServeRegister, Session!Waiting, regs, codes
  <2>2. a \in Accounts /\ [otp |-> "register"] \in SessionData /\ "register" \in Purposes
    BY <1>3, <2>1 DEF SessionAsk, SessionData, Purposes
  <2> HIDE DEF a
  <2>3. CASE flight' = Session!Served(flight, i, "refused", {}) /\ UNCHANGED server
    BY <1>2, <1>4, <2>1, <2>3
  <2>4. CASE /\ flight' = Session!Served(flight, i, "ok", [otp |-> "register"])
             /\ server' = [server EXCEPT !.registered = regs \cup {a},
                             !.codes = Session!CodeSent(codes, a, "register", FALSE)]
    <3> DEFINE more == Session!CodeSent(codes, a, "register", FALSE)
               all == regs \cup {a}
    <3>1. a \in all /\ all \subseteq Accounts /\ \A k \in DOMAIN codes : codes[k].user \in all
      BY <1>1, <2>2
    <3> HIDE DEF all
    <3>2. /\ more \in Seq(Codes) /\ DOMAIN codes \subseteq DOMAIN more
          /\ \A k \in DOMAIN more : more[k].user \in all
      BY <1>1, <2>2, <3>1, SessionCodeSent
    <3>3. server' = [server EXCEPT !.registered = all, !.codes = more]
      BY <2>4 DEF all
    <3> HIDE DEF more
    <3>4. SessionServer(server') /\ server'.codes = more
      BY <1>1, <3>1, <3>2, <3>3, SessionSets DEF SessionServer
    <3> QED
      BY <1>1, <1>2, <2>1, <2>2, <2>4, <3>2, <3>4, SessionAnswered DEF codes
  <2> QED
    BY <2>1, <2>3, <2>4
<1>8. ASSUME NEW changes \in SUBSET Sets(codes), NEW outcome \in {"ok", "refused"},
             flight[i].op # "me", Session!Answer(i, outcome, changes)
      PROVE  SessionInv'
  <2>1. /\ flight' = Session!Served(flight, i, outcome, {}) /\ UNCHANGED <<view, past>>
        /\ server' = [server EXCEPT !.open = server.open \cup changes]
    BY <1>8 DEF Session!Answer
  <2>2. SessionServer(server') /\ server'.codes = codes
    BY <1>1, <2>1 DEF SessionServer, regs, codes
  <2> QED
    BY <1>1, <1>2, <1>8, <2>1, <2>2, SessionAnswered DEF codes
<1>13. ASSUME Session!ServeVerify(i) \/ Session!ServeProfile(i)
       PROVE  SessionInv'
  <2>1. {} \in SUBSET Sets(codes)
    OBVIOUS
  <2>2. CASE Session!ServeVerify(i)
    <3> DEFINE change == Session!Change({flight[i].arg.nr}, {})
    <3>1. /\ flight[i].op = "verify"
          /\ Session!Answer(i, "refused", {}) \/ Session!Answer(i, "ok", {change})
      BY <2>2 DEF Session!ServeVerify, Session!Waiting
    <3>2. change \in Sets(codes)
      BY <1>3, <3>1 DEF SessionAsk, Session!Change, Sets
    <3> HIDE DEF change
    <3>3. {change} \in SUBSET Sets(codes)
      BY <3>2
    <3> QED
      BY <1>8, <2>1, <3>1, <3>3
  <2>3. CASE Session!ServeProfile(i)
    <3> DEFINE a == flight[i].arg.as
               change == Session!Change({}, {a})
    <3>1. /\ flight[i].op = "profile"
          /\ \/ Session!Answer(i, "refused", {})
             \/ a # None /\ Session!Answer(i, "ok", {change})
      BY <2>3 DEF Session!ServeProfile, Session!Waiting
    <3>2. a # None => change \in Sets(codes)
      BY <1>3 DEF SessionArgs, Session!Holders, Session!Change, Sets
    <3> HIDE DEF change
    <3>3. a # None => {change} \in SUBSET Sets(codes)
      BY <3>2
    <3> QED
      BY <1>8, <2>1, <3>1, <3>3
  <2> QED
    BY <1>13, <2>2, <2>3
<1>9. ASSUME Session!ServeResend(i)
      PROVE  SessionInv'
  <2> DEFINE row == codes[flight[i].arg.nr]
             void == Session!Voided(codes, row.user, row.purpose)
             more == Session!CodeSent(void, row.user, row.purpose, TRUE)
  <2>1. /\ flight[i].op = "resend" /\ UNCHANGED <<view, past>>
        /\ flight' = Session!Served(flight, i, "ok", {})
        /\ server' = [server EXCEPT !.codes = more]
    BY <1>9 DEF Session!ServeResend, Session!Waiting, codes
  <2>2. row \in Codes /\ row.user \in regs
    BY <1>1, <1>3, <2>1 DEF SessionAsk
  <2>3. row.user \in Accounts /\ row.purpose \in Purposes
    BY <2>2 DEF Codes
  <2> HIDE DEF row
  <2>4. /\ void \in Seq(Codes) /\ DOMAIN void = DOMAIN codes
        /\ \A k \in DOMAIN void : void[k].user \in regs
    BY <1>1, SessionVoided
  <2> HIDE DEF void
  <2>5. /\ more \in Seq(Codes) /\ DOMAIN codes \subseteq DOMAIN more
        /\ \A k \in DOMAIN more : more[k].user \in regs
    BY <1>1, <2>2, <2>3, <2>4, SessionCodeSent
  <2> HIDE DEF more
  <2>6. SessionServer(server') /\ server'.codes = more
    BY <1>1, <2>1, <2>5, SessionSets DEF SessionServer, regs
  <2> QED
    BY <1>1, <1>2, <2>1, <2>5, <2>6, SessionAnswered DEF codes
<1>10. ASSUME Session!ServeMe(i)
       PROVE  SessionInv'
  <2> DEFINE a == flight[i].arg.as
             of == [of |-> a, complete |-> a \in server.complete]
  <2>1. /\ UNCHANGED <<server, view, past>>
        /\ \/ flight' = Session!Served(flight, i, "refused", {})
           \/ a # None /\ flight' = Session!Served(flight, i, "ok", of)
    BY <1>10 DEF Session!ServeMe
  <2>2. a # None => of \in Profiles /\ of.of = flight[i].arg.as
    BY <1>3 DEF Profiles, SessionArgs, Session!Holders
  <2>3. Profiles \subseteq SessionData
    BY DEF SessionData
  <2> HIDE DEF of
  <2> QED
    BY <1>2, <1>4, <2>1, <2>2, <2>3
<1>12. ASSUME Session!Fail(i)
       PROVE  SessionInv'
  <2>1. /\ flight' = Session!Served(flight, i, "throws", {}) /\ UNCHANGED <<server, view>>
        /\ past' = [past EXCEPT !.faults = @ + 1]
    BY <1>12 DEF Session!Fail
  <2>2. SessionPast(past') /\ past'.unsure = past.unsure
    BY <1>1, <2>1 DEF SessionPast
  <2> QED
    BY <1>1, <1>2, <2>1, <2>2, SessionAnswered
<1> QED
  BY <1>5, <1>6, <1>7, <1>9, <1>10, <1>12, <1>13 DEF Session!Cityhall

\* A transaction is committed.
LEMMA SessionCommits ==
  ASSUME SessionInv, NEW change \in server.open, Session!Commit(change)
  PROVE  SessionInv'
<1> DEFINE codes == server.codes
           more == Session!Used(codes, change.used)
           complete == server.complete \cup change.complete
           open == server.open \ {change}
<1>1. /\ server \in [registered : SUBSET Accounts, codes : Seq(Codes), complete : SUBSET Accounts,
                     open : SUBSET Sets(codes)]
      /\ \A k \in DOMAIN codes : codes[k] \in Codes /\ codes[k].user \in server.registered
  BY DEF SessionInv, SessionServer
<1>2. /\ server' = [server EXCEPT !.open = open, !.codes = more, !.complete = complete]
      /\ UNCHANGED <<view, flight, past>>
  BY DEF Session!Commit
<1>3. change \in Sets(codes)
  BY <1>1
<1>4. complete \subseteq Accounts
  BY <1>1, <1>3 DEF Sets
<1>5. ASSUME NEW c \in Codes, NEW b \in BOOLEAN
      PROVE  [c EXCEPT !.used = b] \in Codes /\ [c EXCEPT !.used = b].user = c.user
  BY DEF Codes
<1>6. \A k \in DOMAIN codes : more[k] \in Codes /\ more[k].user = codes[k].user
  <2> SUFFICES ASSUME NEW k \in DOMAIN codes
               PROVE  more[k] \in Codes /\ more[k].user = codes[k].user
    OBVIOUS
  <2>1. more[k] = [codes[k] EXCEPT !.used = codes[k].used \/ k \in change.used]
    BY DEF Session!Used
  <2>2. (codes[k].used \/ k \in change.used) \in BOOLEAN
    OBVIOUS
  <2> HIDE DEF more
  <2> QED
    BY <1>1, <1>5, <2>1, <2>2
<1>7. DOMAIN more = DOMAIN codes /\ more \in [DOMAIN codes -> Codes]
  BY <1>6 DEF Session!Used
<1> HIDE DEF more, complete
<1>8. more \in Seq(Codes) /\ \A k \in DOMAIN more : more[k].user \in server.registered
  BY <1>1, <1>6, <1>7, SessionCodesUsed
<1>9. Sets(more) = Sets(codes) /\ open \subseteq Sets(codes)
  BY <1>1, <1>7 DEF Sets
<1> HIDE DEF open
<1>10. SessionServer(server') /\ server'.codes = more
  BY <1>1, <1>2, <1>4, <1>8, <1>9 DEF SessionServer
<1>11. SessionFlight(flight', server'.codes)
  BY <1>2, <1>7, <1>10, SessionCodesGrow DEF SessionInv
<1> QED
  BY <1>2, <1>10, <1>11 DEF SessionInv

LEMMA SessionIdle ==
  ASSUME SessionInv, NEW r \in SessionRequests, r.arg.tab \in Tabs
  PROVE  /\ TabOK(Session!Idle(r))
         /\ Session!Idle(r).token = view.tabs[r.arg.tab].token
         /\ Session!Idle(r).profile = view.tabs[r.arg.tab].profile
<1> DEFINE tab == view.tabs[r.arg.tab]
<1>1. TabOK(tab)
  BY SessionFacts
<1>2. Session!Idle(r) = tab \/ Session!Idle(r) = [tab EXCEPT !.busy = FALSE]
  BY SessionFacts DEF Session!Idle
<1> HIDE DEF tab
<1>3. LET b == [tab EXCEPT !.busy = FALSE]
      IN TabOK(b) /\ b.token = tab.token /\ b.profile = tab.profile
  BY <1>1 DEF TabOK, SessionTabs
<1> QED
  BY <1>1, <1>2, <1>3 DEF tab

\* A handler that ends in its page.
LEMMA SessionEnded ==
  ASSUME SessionInv, NEW i \in DOMAIN flight, flight[i].arg.tab \in Tabs, flight[i].op # "me",
         NEW tab, TabOK(tab), tab.token = view.tabs[flight[i].arg.tab].token,
         tab.profile = view.tabs[flight[i].arg.tab].profile, Session!Ended(i, tab)
  PROVE  SessionInv'
<1> DEFINE t == flight[i].arg.tab
<1>1. /\ view' = WithTab(view, t, tab) /\ flight' = Session!Handled(flight, i)
      /\ UNCHANGED <<server, past>>
  BY DEF Session!Ended, Session!SetTab, WithTab
<1>2. /\ SessionFlight(flight', server.codes)
      /\ \A u \in Tabs : Follows(flight, flight', u)
  BY <1>1, SessionHandled DEF SessionInv
<1>3. t \in Tabs /\ tab.token = view.tabs[t].token /\ tab.profile = view.tabs[t].profile
      /\ SessionPast(past') /\ past'.unsure = past.unsure
  BY <1>1 DEF SessionInv
<1> HIDE DEF t
<1> QED
  BY <1>1, <1>2, <1>3, SessionQuiet

\* The tab keeps the profile of the account before, and asks for the new one.
LEMMA SessionSignedIn ==
  ASSUME SessionInv, NEW i \in DOMAIN flight, flight[i].arg.tab \in Tabs, flight[i].op # "me",
         NEW a \in Accounts, Session!SignedIn(i, a)
  PROVE  SessionInv'
<1> DEFINE t == flight[i].arg.tab
           signed == [view.tabs[t] EXCEPT !.token = a]
           tab == Session!Moved(signed, "dashboard")
           r == Session!SessionRequest(t, "me", None, 0, a)
           rest == Session!Left(Session!Handled(flight, i), t)
           unsure == IF Session!Foreign(flight, t, a) THEN past.unsure \cup {t} ELSE past.unsure
<1>1. /\ view' = WithStored(view, a, t, tab) /\ flight' = Append(rest, r)
      /\ past' = [past EXCEPT !.unsure = unsure] /\ UNCHANGED server
  BY SessionFacts DEF Session!SignedIn, Session!Unsure, WithStored
<1>2. signed \in SessionTabs
  BY SessionFacts DEF SessionTabs, Session!Holders
<1>3. TabOK(tab) /\ tab.token = a
  <2>1. signed.token = a
    BY SessionFacts DEF SessionTabs
  <2> HIDE DEF signed
  <2> QED
    BY <1>2, <2>1, SessionMoved DEF Session!Routes
<1>4. /\ SessionFlight(rest, server.codes)
      /\ \A u \in Tabs : Follows(flight, rest, u)
  BY SessionFacts, SessionHandled, SessionLeft DEF Follows
<1>5. /\ r \in SessionRequests /\ SessionAsk(r, server.codes)
      /\ r.op = "me" /\ r.arg.tab = t /\ r.arg.as = a
  <2>1. "me" \in Session!Ops /\ None \in Session!Holders /\ 0 \in Nat /\ a \in Session!Holders
    BY DEF Session!Ops, Session!Holders
  <2> QED
    BY <2>1, SessionFacts, SessionAsking
<1> HIDE DEF tab, r, rest
<1>6. /\ SessionFlight(flight', server.codes) /\ AsksMe(flight', t)
      /\ \A u \in Tabs \ {t} : Follows(flight, flight', u)
      /\ Session!Foreign(flight', t, a) => Session!Foreign(flight, t, a)
  <2>1. t \in Tabs /\ \A u \in Tabs \ {t} : ~(r.op = "me" /\ r.arg.tab = u)
    BY <1>5
  <2> QED
    BY <1>1, <1>4, <1>5, <2>1, SessionSent DEF Follows
<1>10. SessionPast(past') /\ past'.unsure = unsure
  BY <1>1 DEF SessionInv, SessionPast
<1>7. /\ SessionView(view') /\ view'.tabs[t] = tab
      /\ \A u \in Tabs \ {t} : view'.tabs[u] = view.tabs[u]
  BY <1>1, <1>3, SessionStored DEF SessionInv, Session!Holders
<1>8. \A u \in Tabs \ {t} : ProfileOK(view'.tabs[u], u, flight', past')
  BY <1>6, <1>7, <1>10, ProfileKept DEF SessionInv
<1>9. ProfileOK(view'.tabs[t], t, flight', past')
  <2>1. t \in unsure \/ ~Session!Foreign(flight, t, a)
    OBVIOUS
  <2> HIDE DEF unsure
  <2> QED
    BY <1>3, <1>6, <1>7, <1>10, <2>1 DEF ProfileOK
<1> QED
  BY <1>1, <1>6, <1>7, <1>8, <1>9, <1>10 DEF SessionInv

\* A token in localStorage only, for the tabs that are loaded later.
LEMMA SessionStoredOnly ==
  ASSUME SessionInv, NEW i \in DOMAIN flight, flight[i].arg.tab \in Tabs, flight[i].op # "me",
         NEW a \in Accounts, Session!StoredOnly(i, a)
  PROVE  SessionInv'
<1> DEFINE t == flight[i].arg.tab
           tab == Session!Moved(view.tabs[t], "dashboard")
           rest == Session!Left(Session!Handled(flight, i), t)
<1>1. /\ view' = WithStored(view, a, t, tab) /\ flight' = rest
      /\ UNCHANGED <<server, past>>
  BY DEF Session!StoredOnly, WithStored
<1>2. /\ TabOK(tab) /\ tab.token = view.tabs[t].token /\ tab.profile = view.tabs[t].profile
  BY SessionFacts, SessionMoved DEF Session!Routes
<1>3. /\ SessionFlight(rest, server.codes)
      /\ \A u \in Tabs : Follows(flight, rest, u)
  BY SessionFacts, SessionHandled, SessionLeft DEF Follows
<1> HIDE DEF tab, rest
<1>4. /\ SessionView(view') /\ view'.tabs[t] = tab
      /\ \A u \in Tabs \ {t} : view'.tabs[u] = view.tabs[u]
  BY <1>1, <1>2, SessionStored DEF SessionInv, Session!Holders
<1>5. \A u \in Tabs : ProfileOK(view'.tabs[u], u, flight', past')
  BY <1>1, <1>2, <1>3, <1>4, ProfileKept DEF SessionInv
<1> QED
  BY <1>1, <1>3, <1>4, <1>5 DEF SessionInv

LEMMA SessionMe ==
  ASSUME SessionInv, NEW i \in DOMAIN flight, Session!HandleMe(i)
  PROVE  SessionInv'
<1> DEFINE r == flight[i]
           t == r.arg.tab
           idle == Session!Idle(r)
           tab == IF r.outcome = "ok" THEN [idle EXCEPT !.profile = r.data] ELSE idle
           token == view.tabs[t].token
           fits == r.data.of = token /\ ~Session!Foreign(Session!Handled(flight, i), t, token)
           unsure == IF r.outcome # "ok" THEN past.unsure \cup {t}
                     ELSE IF fits THEN past.unsure \ {t} ELSE past.unsure
<1>1. /\ r.op = "me" /\ t # None
      /\ view' = WithTab(view, t, tab) /\ flight' = Session!Handled(flight, i)
      /\ past' = [past EXCEPT !.unsure = unsure]
      /\ UNCHANGED server
  BY SessionFacts DEF Session!HandleMe, Session!Live, Session!Answers, Session!SetTab, WithTab
<1>2. t \in Tabs /\ r \in SessionRequests
  BY <1>1, SessionFacts DEF SessionArgs
<1>3. /\ TabOK(idle) /\ idle.token = view.tabs[t].token
      /\ r.outcome = "ok" => r.data \in Profiles /\ r.data.of = r.arg.as
  BY <1>1, <1>2, SessionIdle, SessionFacts DEF SessionAsk
<1>4. TabOK(tab) /\ tab.token = view.tabs[t].token /\ (r.outcome = "ok" => tab.profile = r.data)
  <2> HIDE DEF idle
  <2>1. CASE r.outcome = "ok"
    BY <1>3, <2>1 DEF TabOK, SessionTabs
  <2>2. CASE r.outcome # "ok"
    BY <1>3, <2>2
  <2> QED
    BY <2>1, <2>2
<1> HIDE DEF idle, tab
<1>5. /\ SessionFlight(flight', server.codes)
      /\ \A u \in Tabs \ {t} : Follows(flight, flight', u)
  BY <1>1, SessionHandled DEF SessionInv
<1>6. /\ SessionView(view') /\ view'.tabs[t] = tab
      /\ \A u \in Tabs \ {t} : view'.tabs[u] = view.tabs[u]
  BY <1>1, <1>2, <1>4, SessionTabSet DEF SessionInv
<1>7. /\ SessionPast(past')
      /\ \A u \in Tabs \ {t} : u \in past.unsure => u \in past'.unsure
      /\ t \in past'.unsure \/ (r.outcome = "ok" /\ fits) \/ (r.outcome = "ok" /\ t \notin past.unsure)
  BY <1>1, <1>2 DEF SessionPast, SessionInv
<1>8. \A u \in Tabs \ {t} : ProfileOK(view'.tabs[u], u, flight', past')
  BY <1>5, <1>6, <1>7, ProfileKept DEF SessionInv
<1>10. t \notin past.unsure /\ r.outcome = "ok" => fits
  <2>1. t \notin past.unsure => ~Session!Foreign(flight, t, token)
    BY <1>2 DEF SessionInv, ProfileOK
  <2>2. t \notin past.unsure => r.arg.as = token
    BY <1>1, <2>1 DEF Session!Foreign
  <2>3. t \notin past.unsure => ~Session!Foreign(Session!Handled(flight, i), t, token)
    BY <2>1, SessionFacts, SessionHandled
  <2> QED
    BY <1>3, <2>2, <2>3
<1>9. ProfileOK(view'.tabs[t], t, flight', past')
  BY <1>1, <1>4, <1>6, <1>7, <1>10 DEF ProfileOK
<1> QED
  BY <1>1, <1>5, <1>6, <1>7, <1>8, <1>9 DEF SessionInv

\* A step that only takes requests away and adds others.
LEMMA SessionOnlyFlight ==
  ASSUME SessionInv, UNCHANGED <<server, view, past>>, SessionFlight(flight', server.codes),
         \A u \in Tabs : Follows(flight, flight', u)
  PROVE  SessionInv'
<1>1. \A u \in Tabs : ProfileOK(view'.tabs[u], u, flight', past')
  BY ProfileKept DEF SessionInv
<1> QED
  BY <1>1 DEF SessionInv

\* The tab asks for its profile again, with the token of localStorage.
LEMMA SessionAsksAgain ==
  ASSUME SessionInv, NEW t \in Tabs, NEW rest, SessionFlight(rest, server.codes),
         \A u \in Tabs : Follows(flight, rest, u), NEW r \in SessionRequests,
         SessionAsk(r, server.codes), r.op = "me", r.arg.tab = t, r.arg.as = view.storage,
         flight' = Append(rest, r), UNCHANGED <<server, view>>,
         past' = [past EXCEPT !.unsure = Session!Unsure(view.storage # view.tabs[t].token, t)]
  PROVE  SessionInv'
<1> DEFINE unsure == Session!Unsure(view.storage # view.tabs[t].token, t)
<1>1. /\ SessionFlight(flight', server.codes) /\ AsksMe(flight', t)
      /\ \A u \in Tabs \ {t} : Follows(flight, flight', u)
      /\ Session!Foreign(flight', t, view.storage) => Session!Foreign(flight, t, view.storage)
  <2>1. \A u \in Tabs \ {t} : ~(r.op = "me" /\ r.arg.tab = u)
    OBVIOUS
  <2> QED
    BY <2>1, SessionSent DEF Follows
<1>2. /\ unsure \in SUBSET Tabs /\ past.unsure \subseteq unsure
      /\ t \in unsure \/ (view.storage = view.tabs[t].token /\ unsure = past.unsure)
  BY DEF SessionInv, SessionPast, Session!Unsure
<1> HIDE DEF unsure
<1>3. SessionPast(past') /\ past'.unsure = unsure
  BY <1>2 DEF SessionInv, SessionPast, unsure
<1>6. \A u \in Tabs : view'.tabs[u] = view.tabs[u]
  OBVIOUS
<1>7. \A u \in past.unsure : u \in past'.unsure
  BY <1>2, <1>3
<1>4. \A u \in Tabs \ {t} : ProfileOK(view'.tabs[u], u, flight', past')
  <2> SUFFICES ASSUME NEW u \in Tabs \ {t}
               PROVE  ProfileOK(view'.tabs[u], u, flight', past')
    OBVIOUS
  <2>1. ProfileOK(view.tabs[u], u, flight, past)
    BY DEF SessionInv
  <2>2. view'.tabs[u].token = view.tabs[u].token /\ view'.tabs[u].profile = view.tabs[u].profile
    BY <1>6
  <2>3. Follows(flight, flight', u) /\ (u \in past.unsure => u \in past'.unsure)
    BY <1>1, <1>7
  <2> QED
    BY ONLY <2>1, <2>2, <2>3, ProfileKept
<1>5. ProfileOK(view'.tabs[t], t, flight', past')
  BY <1>1, <1>2, <1>3 DEF SessionInv, ProfileOK
<1> QED
  BY <1>1, <1>3, <1>4, <1>5 DEF SessionInv

LEMMA SessionPage ==
  ASSUME SessionInv, NEW i \in DOMAIN flight, Session!Page(i)
  PROVE  SessionInv'
<1> DEFINE r == flight[i]
           t == r.arg.tab
           tab == view.tabs[t]
<1>1. r \in SessionRequests /\ SessionAsk(r, server.codes) /\ t \in Tabs \cup {None}
  BY SessionFacts DEF SessionArgs
<1>2. t # None => /\ t \in Tabs /\ TabOK(tab) /\ tab \in SessionTabs /\ Session!Tab(t) = tab
                  /\ TabOK(Session!Idle(r)) /\ Session!Idle(r).token = tab.token
                  /\ Session!Idle(r).profile = tab.profile
  BY <1>1, SessionFacts, SessionIdle
<1>3. ASSUME r.op # "me", t # None, NEW b, TabOK(b), b.token = tab.token, b.profile = tab.profile,
             Session!Ended(i, b)
      PROVE  SessionInv'
  BY <1>2, <1>3, SessionEnded
<1>4. ASSUME NEW a \in Accounts, NEW purpose \in Purposes, NEW idle, TabOK(idle)
      PROVE  LET b == [idle EXCEPT !.otp = [user |-> a, purpose |-> purpose]]
                 c == [idle EXCEPT !.otp = [user |-> a, purpose |-> purpose], !.keys = TRUE]
             IN /\ TabOK(b) /\ b.token = idle.token /\ b.profile = idle.profile
                /\ TabOK(c) /\ c.token = idle.token /\ c.profile = idle.profile
  <2>1. [user |-> a, purpose |-> purpose] \in [user : Accounts, purpose : Purposes]
    OBVIOUS
  <2> DEFINE otp == [user |-> a, purpose |-> purpose]
  <2> HIDE DEF otp
  <2>2. LET b == [idle EXCEPT !.otp = otp]
            c == [idle EXCEPT !.otp = otp, !.keys = TRUE]
        IN /\ TabOK(b) /\ b.token = idle.token /\ b.profile = idle.profile
           /\ TabOK(c) /\ c.token = idle.token /\ c.profile = idle.profile
    BY <1>4, <2>1 DEF TabOK, SessionTabs, otp
  <2> QED
    BY <2>2 DEF otp
<1>5. ASSUME Session!HandleLogin(i)
      PROVE  SessionInv'
  <2> DEFINE b == [Session!Idle(r) EXCEPT !.otp = [user |-> r.arg.user, purpose |-> "login"]]
  <2>1. /\ r.op = "login" /\ t # None
        /\ Session!SignedIn(i, r.arg.user) \/ Session!Ended(i, b) \/ Session!Ended(i, Session!Idle(r))
    BY <1>5 DEF Session!HandleLogin, Session!Live, Session!Answers
  <2>2. r.arg.user \in Accounts /\ "login" \in Purposes
    BY <1>1, <2>1 DEF SessionAsk, Purposes
  <2>3. TabOK(b) /\ b.token = tab.token /\ b.profile = tab.profile
    BY <1>2, <1>4, <2>1, <2>2
  <2> HIDE DEF b
  <2>4. CASE Session!SignedIn(i, r.arg.user)
    BY <1>2, <2>1, <2>2, <2>4, SessionSignedIn
  <2> QED
    BY <1>2, <1>3, <2>1, <2>3, <2>4
<1>6. ASSUME Session!HandleRegister(i)
      PROVE  SessionInv'
  <2> DEFINE c == [Session!Idle(r) EXCEPT !.otp = [user |-> r.arg.user, purpose |-> "register"],
                                          !.keys = TRUE]
  <2>1. /\ r.op = "register" /\ t # None
        /\ \/ Session!Ended(i, Session!Tab(t)) \/ Session!Ended(i, c)
           \/ Session!Ended(i, Session!Idle(r))
    BY <1>6 DEF Session!HandleRegister, Session!Live, Session!Answers
  <2>2. r.arg.user \in Accounts /\ "register" \in Purposes
    BY <1>1, <2>1 DEF SessionAsk, Purposes
  <2>3. TabOK(c) /\ c.token = tab.token /\ c.profile = tab.profile
    BY <1>2, <1>4, <2>1, <2>2
  <2> HIDE DEF c
  <2> QED
    BY <1>2, <1>3, <2>1, <2>3
<1>7. ASSUME Session!HandleVerify(i)
      PROVE  SessionInv'
  <2>1. /\ r.op = "verify" /\ t # None
        /\ \/ Session!Ended(i, Session!Tab(t)) \/ Session!SignedIn(i, r.arg.user)
           \/ Session!StoredOnly(i, r.arg.user)
    BY <1>7 DEF Session!HandleVerify, Session!Live, Session!Answers
  <2>2. r.arg.user \in Accounts
    BY <1>1, <2>1 DEF SessionAsk
  <2>3. CASE Session!Ended(i, Session!Tab(t))
    BY <1>2, <1>3, <2>1, <2>3
  <2>4. CASE Session!SignedIn(i, r.arg.user)
    BY <1>2, <2>1, <2>2, <2>4, SessionSignedIn
  <2>5. CASE Session!StoredOnly(i, r.arg.user)
    BY <1>2, <2>1, <2>2, <2>5, SessionStoredOnly
  <2> QED
    BY <2>1, <2>3, <2>4, <2>5
<1>8. ASSUME Session!HandleResend(i)
      PROVE  SessionInv'
  <2>1. /\ r.op = "resend" /\ t # None
        /\ Session!Ended(i, Session!Tab(t)) \/ Session!Ended(i, Session!Idle(r))
    BY <1>8 DEF Session!HandleResend, Session!Live, Session!Answers
  <2> QED
    BY <1>2, <1>3, <2>1
<1>9. ASSUME Session!HandleProfile(i)
      PROVE  SessionInv'
  <2> DEFINE rest == Session!Handled(flight, i)
             me == Session!SessionRequest(t, "me", None, 0, view.storage)
             more == [me EXCEPT !.arg.here = r.arg.here]
  <2>1. /\ r.op = "profile" /\ t # None /\ UNCHANGED <<server, view>>
        /\ \/ flight' = rest /\ past' = [past EXCEPT !.unsure = past.unsure]
           \/ /\ flight' = Append(rest, more)
              /\ past' = [past EXCEPT !.unsure = Session!Unsure(view.storage # tab.token, t)]
    BY <1>2, <1>9 DEF Session!HandleProfile, Session!Live, Session!Answers, Session!Unsure
  <2>2. /\ SessionFlight(rest, server.codes)
        /\ \A u \in Tabs : Follows(flight, rest, u)
    BY <2>1, SessionFacts, SessionHandled
  <2>3. /\ me \in SessionRequests /\ SessionAsk(me, server.codes) /\ me.op = "me"
        /\ me.arg.tab = t /\ me.arg.as = view.storage /\ r.arg.here \in BOOLEAN
    <3>1. "me" \in Session!Ops /\ None \in Session!Holders /\ 0 \in Nat
      BY DEF Session!Ops, Session!Holders
    <3>2. r.arg.here \in BOOLEAN
      BY SessionFacts DEF SessionArgs
    <3>3. t \in Tabs /\ view.storage \in Session!Holders
      BY <1>2, <2>1, SessionFacts
    <3> HIDE DEF t, r
    <3> QED
      BY <3>1, <3>2, <3>3, SessionFacts, SessionAsking
  <2> HIDE DEF me, rest
  <2>4. /\ more \in SessionRequests /\ more.op = "me" /\ more.outcome = me.outcome
        /\ more.data = me.data /\ more.arg.tab = t /\ more.arg.as = view.storage
    BY <2>3 DEF SessionRequests, Requests, SessionArgs
  <2>5. SessionAsk(more, server.codes)
    BY <2>3, <2>4 DEF SessionAsk
  <2> HIDE DEF more
  <2>6. CASE /\ flight' = rest
             /\ past' = [past EXCEPT !.unsure = past.unsure]
    <3>1. past' = past
      BY <2>6 DEF SessionInv, SessionPast
    <3> QED
      BY <2>1, <2>2, <2>6, <3>1, SessionOnlyFlight
  <2>7. CASE /\ flight' = Append(rest, more)
             /\ past' = [past EXCEPT !.unsure = Session!Unsure(view.storage # tab.token, t)]
    BY <1>2, <2>1, <2>2, <2>4, <2>5, <2>7, SessionAsksAgain
  <2> QED
    BY <2>1, <2>6, <2>7
<1>10. ASSUME Session!Drop(i)
       PROVE  SessionInv'
  <2>1. t = None /\ flight' = Session!Handled(flight, i) /\ UNCHANGED <<server, view, past>>
    BY <1>10 DEF Session!Drop
  <2>2. /\ SessionFlight(flight', server.codes)
        /\ \A u \in Tabs : Follows(flight, flight', u)
    BY <2>1, NoneAssumption, SessionFacts, SessionHandled
  <2> QED
    BY <2>1, <2>2, SessionOnlyFlight
<1> QED
  BY <1>5, <1>6, <1>7, <1>8, <1>9, <1>10, SessionMe DEF Session!Page

LEMMA SessionInit ==
  ASSUME Session!Init
  PROVE  SessionInv
<1>1. PICK routes \in [Tabs -> Session!Routes] :
        view = [storage |-> None, dismissed |-> FALSE,
                tabs |-> [t \in Tabs |-> Session!Loaded(None, routes[t])]]
  BY DEF Session!Init
<1>2. None \in Session!Holders
  BY DEF Session!Holders
<1>3. \A t \in Tabs : TabOK(Session!Loaded(None, routes[t]))
                      /\ Session!Loaded(None, routes[t]).profile = None
  BY <1>2, SessionLoaded
<1>4. SessionView(view) /\ \A t \in Tabs : view.tabs[t].profile = None
  BY <1>1, <1>2, <1>3 DEF SessionView, TabOK
<1>5. /\ server \in [registered : {Admins, Accounts}, codes : {<<>>}, complete : {{}}, open : {{}}]
      /\ flight = <<>> /\ past = [unsure |-> {}, steps |-> 0, faults |-> 0]
  BY DEF Session!Init
<1>6. SessionServer(server)
  <2>1. /\ server.registered \in {Admins, Accounts} /\ server.codes = <<>> /\ server.complete = {}
        /\ server.open = {}
        /\ server = [registered |-> server.registered, codes |-> server.codes,
                     complete |-> server.complete, open |-> server.open]
    BY <1>5
  <2>2. <<>> \in Seq(Codes) /\ DOMAIN <<>> = {}
    OBVIOUS
  <2> QED
    BY <2>1, <2>2, AdminsAssumption DEF SessionServer
<1>7. SessionFlight(flight, server.codes) /\ SessionPast(past)
  BY <1>5 DEF SessionFlight, SessionPast
<1>8. \A t \in Tabs : ProfileOK(view.tabs[t], t, flight, past)
  BY <1>4, <1>5 DEF ProfileOK, Session!Foreign
<1> QED
  BY <1>4, <1>6, <1>7, <1>8 DEF SessionInv

LEMMA SessionNext ==
  ASSUME SessionInv, Session!Next
  PROVE  SessionInv'
<1>1. ASSUME NEW t \in Tabs, Session!User(t)
      PROVE  SessionInv'
  BY <1>1, SessionNavigate, SessionReload, SessionForms, SessionKeysSaved, SessionLogout,
     SessionDismiss DEF Session!User
<1> QED
  BY <1>1, SessionServedOK, SessionCommits, SessionPage DEF Session!Next

\* The properties of the page.
LEMMA SessionShows ==
  ASSUME SessionInv
  PROVE  Session!TypeOK /\ Session!ProfileIsOfSession
<1>1. Session!ProfileIsOfSession
  BY DEF SessionInv, ProfileOK, AsksMe, Session!ProfileIsOfSession, Session!Tab
<1>2. /\ server.registered \subseteq Accounts /\ server.complete \subseteq Accounts
      /\ \A k \in DOMAIN server.codes : server.codes[k].user \in server.registered
      /\ server.open \subseteq Sets(server.codes)
      /\ past.unsure \subseteq Tabs
      /\ view.storage \in Session!Holders /\ view.dismissed \in BOOLEAN
  BY DEF SessionInv, SessionServer, SessionPast, SessionView
<1>3. ASSUME NEW t \in Tabs
      PROVE  /\ Session!Tab(t).route \in Session!Routes /\ Session!Tab(t).token \in Session!Holders
             /\ Session!Tab(t).profile = None \/ Session!Tab(t).profile.of \in Accounts
             /\ Session!Tab(t).route = Session!Landed(Session!Tab(t).route, Session!Tab(t).token)
  BY SessionFacts DEF TabOK, SessionTabs, Profiles
<1>4. \A i \in DOMAIN flight : Session!IsRequest(flight[i], Session!Ops)
  BY SessionFacts DEF SessionRequests, Requests, Session!IsRequest, Session!Outcomes, F!Outcomes
<1> QED
  BY <1>1, <1>2, <1>3, <1>4 DEF Session!TypeOK, Sets

-----------------------------------------------------------------------------
(* SettingsPage: the key pair that is shown once. *)

SettingsOps == {"me", "save", "password", "delete", "generate", "recover"}

OwnProfiles == Names \cup {None}

SettingsArgs == OwnProfiles \cup Nat \cup BOOLEAN

SettingsData == OwnProfiles \cup Nat \cup {{}}

SettingsAll == Requests(SettingsOps, SettingsArgs, SettingsData)

\* Key pairs have numbers that were given out before the next one.
SettingsAsk(r, next) ==
  /\ r.op = "me" /\ r.outcome = "ok" => r.data \in OwnProfiles
  /\ r.op = "save" => r.arg \in Names
  /\ r.op = "recover" => r.arg \in Nat /\ r.arg < next
  /\ r.op \in {"password", "delete"} => r.arg \in BOOLEAN
  /\ r.op \in Settings!KeyOps /\ r.outcome = "ok" => r.data \in Nat /\ r.data < next

SettingsRequests(next) == {r \in SettingsAll : SettingsAsk(r, next)}

SettingsRows == [profile : OwnProfiles, key : Nat, closed : BOOLEAN]

SettingsServers ==
  [profile : OwnProfiles, key : Nat, next : Nat, closed : BOOLEAN, open : SUBSET SettingsRows]

\* One change of the account is open at most, and none opens a closed account again.
SettingsServer(s) ==
  /\ s \in SettingsServers /\ s.key < s.next
  /\ \A row \in s.open : row.key < s.next /\ (s.closed => row.closed)
  /\ \A a, b \in s.open : a = b

\* The pair is registered, or will be with the next commit.
Registers(s, key) ==
  s.closed \/ IF s.open = {} THEN key = s.key ELSE \A row \in s.open : row.closed \/ key = row.key

\* No other pair is about to be registered.
Steady(s) == \A row \in s.open : row.closed \/ row.key = s.key

SettingsViews ==
  [open : BOOLEAN, loading : BOOLEAN, profile : OwnProfiles, keypair : Nat,
   dialog : {"none", "recovery", "delete"},
   saving : BOOLEAN, recovering : BOOLEAN, changing : BOOLEAN, deleting : BOOLEAN]

SettingsPasts == [stale : SUBSET Settings!KeyOps, steps : Nat, faults : Nat]

\* Requests for a key pair that overlap are marked.
SettingsAlone(fs) ==
  \A i, j \in DOMAIN fs :
    fs[i].op \in Settings!KeyOps /\ fs[j].op \in Settings!KeyOps /\ i # j => fs[i].late

\* The answer to one that did not is the pair that is registered.
SettingsNewest(fs, s) ==
  \A i \in DOMAIN fs : fs[i].op \in Settings!KeyOps /\ ~fs[i].late =>
    /\ fs[i].outcome = "none" => Steady(s)
    /\ fs[i].outcome = "ok" => Registers(s, fs[i].data)

\* A pair that is shown and not registered was replaced by one that is on its way.
SettingsKept(fs, s, v, p) ==
  p.stale # {} \/ v.keypair = 0 \/ Registers(s, v.keypair) \/ Pending(fs, Settings!KeyOps)

SettingsInv ==
  /\ SettingsServer(server)
  /\ view \in SettingsViews /\ view.keypair < server.next /\ past \in SettingsPasts
  /\ flight \in Seq(SettingsRequests(server.next))
  /\ SettingsAlone(flight) /\ SettingsNewest(flight, server)
  /\ SettingsKept(flight, server, view, past)

LEMMA SettingsFetch ==
  /\ \A fs, i : Settings!Handled(fs, i) = F!Handled(fs, i)
  /\ \A fs, i, o, d : Settings!Served(fs, i, o, d) = F!Served(fs, i, o, d)
  /\ \A op, a : Settings!Request(op, a) = F!Request(op, a)
  /\ \A fs, l : Settings!Outdated(fs, l) = F!Outdated(fs, l)
  BY DEF Settings!Handled, F!Handled, Settings!Served, F!Served,
         Settings!Request, F!Request, Settings!Outdated, F!Outdated

LEMMA SettingsClosed ==
  ASSUME NEW next
  PROVE  /\ Closed(SettingsRequests(next), SettingsOps, SettingsArgs, SettingsData)
         /\ \A r \in SettingsRequests(next) :
              /\ r \in SettingsAll /\ SettingsAsk(r, next)
              /\ r.op \in SettingsOps /\ r.outcome \in F!Outcomes /\ r.late \in BOOLEAN
         /\ {} \in SettingsData
<1>1. \A r \in SettingsAll : r.op \in SettingsOps /\ r.outcome \in F!Outcomes /\ r.late \in BOOLEAN
  BY DEF SettingsAll, Requests
<1>2. \A r \in SettingsAll, q \in SettingsRequests(next) :
        Alike(r, q) => r \in SettingsRequests(next)
  BY DEF SettingsRequests, SettingsAsk, Alike
<1> QED
  BY <1>1, <1>2 DEF Closed, SettingsRequests, SettingsAll, SettingsData

LEMMA SettingsFacts ==
  ASSUME SettingsInv
  PROVE  /\ flight \in Seq(SettingsAll)
         /\ \A i \in DOMAIN flight :
              /\ flight[i] \in SettingsAll /\ SettingsAsk(flight[i], server.next)
              /\ flight[i].op \in SettingsOps /\ flight[i].outcome \in F!Outcomes
              /\ flight[i].late \in BOOLEAN
<1> DEFINE S == SettingsRequests(server.next)
<1>1. flight \in Seq(S)
  BY DEF SettingsInv
<1>2. \A r \in S : /\ r \in SettingsAll /\ SettingsAsk(r, server.next)
                   /\ r.op \in SettingsOps /\ r.outcome \in F!Outcomes /\ r.late \in BOOLEAN
  BY SettingsClosed
<1> HIDE DEF S
<1>3. \A i \in DOMAIN flight : flight[i] \in S
  BY <1>1
<1>4. \A i \in DOMAIN flight : flight[i] \in SettingsAll
  BY <1>2, <1>3
<1> QED
  BY <1>1, <1>2, <1>3, <1>4, LegalStill

\* A request for something else than a key pair was sent.
LEMMA SettingsSent ==
  ASSUME SettingsInv, NEW op \in {"save", "password", "delete"}, NEW arg \in SettingsArgs,
         Settings!Ask(op, arg), view' \in SettingsViews, view'.keypair = view.keypair,
         IF op = "save" THEN arg \in Names ELSE arg \in BOOLEAN
  PROVE  SettingsInv'
<1> DEFINE S == SettingsRequests(server.next)
           n == Len(flight)
           q == F!Request(op, arg)
<1>1. /\ flight' = Append(flight, q) /\ UNCHANGED server
      /\ past' = [past EXCEPT !.steps = past.steps + 1]
      /\ flight \in Seq(S) /\ flight \in Seq(SettingsAll)
  BY SettingsFetch, SettingsFacts DEF Settings!Ask, SettingsInv
<1>2. past' \in SettingsPasts /\ past'.stale = past.stale
  BY <1>1 DEF SettingsInv, SettingsPasts
<1>3. \A r \in SettingsAll : r.op = op /\ r.arg = arg /\ r.outcome = "none" => r \in S
  BY DEF SettingsRequests, SettingsAsk, Settings!KeyOps
<1>4. /\ Closed(S, SettingsOps, SettingsArgs, SettingsData) /\ {} \in SettingsData
      /\ op \in SettingsOps /\ op \notin Settings!KeyOps
  BY SettingsClosed DEF SettingsOps, Settings!KeyOps
<1> HIDE DEF S
<1>5. flight' \in Seq(S)
  BY <1>1, <1>3, <1>4, SentIn DEF SettingsAll
<1>6. /\ n \in Nat /\ DOMAIN flight = 1..n /\ DOMAIN flight' = 1..(n + 1)
      /\ \A j \in 1..n : flight'[j] = flight[j]
      /\ flight'[n + 1].op = op
  <2>1. q.op = op
    BY DEF F!Request
  <2> QED
    BY <1>1, <1>4, <2>1, SentFacts DEF SettingsAll
<1> HIDE DEF n, q
<1>7. \A j \in DOMAIN flight' : j \in 1..n \/ (j = n + 1 /\ flight'[j].op \notin Settings!KeyOps)
  BY <1>4, <1>6
<1>8. SettingsAlone(flight') /\ SettingsNewest(flight', server)
  BY <1>6, <1>7 DEF SettingsInv, SettingsAlone, SettingsNewest
<1>9. Pending(flight, Settings!KeyOps) => Pending(flight', Settings!KeyOps)
  BY <1>6 DEF Pending
<1> QED
  BY <1>1, <1>2, <1>5, <1>8, <1>9 DEF SettingsInv, SettingsKept, S

\* A key pair was asked for.
LEMMA SettingsKeyAsked ==
  ASSUME SettingsInv, NEW op \in Settings!KeyOps, NEW phrase \in Nat, phrase < server.next,
         Settings!AskForKey(op, phrase), view' \in SettingsViews, view'.keypair = view.keypair
  PROVE  SettingsInv'
<1> DEFINE S == SettingsRequests(server.next)
           n == Len(flight)
           before == F!Outdated(flight, Settings!KeyOps)
           alone == /\ \A j \in DOMAIN flight : flight[j].op \notin Settings!KeyOps
                    /\ \A row \in server.open : row.key = server.key
           late == ~alone
           q == [F!Request(op, phrase) EXCEPT !.late = late]
<1>1. /\ flight' = Append(before, q) /\ UNCHANGED server
      /\ past' = [past EXCEPT !.steps = past.steps + 1]
      /\ flight \in Seq(S) /\ flight \in Seq(SettingsAll)
  BY SettingsFetch, SettingsFacts DEF Settings!AskForKey, SettingsInv
<1>2. past' \in SettingsPasts /\ past'.stale = past.stale
  BY <1>1 DEF SettingsInv, SettingsPasts
<1>3. late \in BOOLEAN /\ (~late => alone)
  OBVIOUS
<1> HIDE DEF late
<1>4. /\ q \in SettingsAll /\ q.op = op /\ q.arg = phrase /\ q.outcome = "none" /\ q.late = late
  BY <1>3 DEF F!Request, SettingsAll, Requests, SettingsOps, SettingsArgs, SettingsData,
     F!Outcomes, Settings!KeyOps
<1>5. q \in S
  BY <1>4 DEF SettingsRequests, SettingsAsk, Settings!KeyOps
<1>6. Closed(S, SettingsOps, SettingsArgs, SettingsData)
  BY SettingsClosed
<1>7. /\ Len(before) = n /\ DOMAIN before = DOMAIN flight /\ n \in Nat /\ DOMAIN flight = 1..n
      /\ \A j \in DOMAIN flight :
           Alike(before[j], flight[j]) /\ (flight[j].op \in Settings!KeyOps => before[j].late)
      /\ \A j \in DOMAIN flight : flight[j].late => before[j].late
  BY <1>1, OutdatedFacts DEF SettingsAll
<1> HIDE DEF S, q, n
<1>8. before \in Seq(S)
  BY <1>1, <1>6, OutdatedIn
<1> HIDE DEF before
<1>9. flight' \in Seq(S)
  BY <1>1, <1>5, <1>8
<1>10. /\ DOMAIN flight' = 1..(n + 1) /\ flight'[n + 1] = q
       /\ \A j \in 1..n : flight'[j] = before[j]
  BY <1>1, <1>7, <1>8
<1>11. /\ \A j \in DOMAIN flight' : j \in 1..n \/ j = n + 1
       /\ \A j \in 1..n : j \in DOMAIN flight'
  BY <1>7, <1>10
<1>12. SettingsAlone(flight')
  BY <1>3, <1>4, <1>7, <1>10, <1>11 DEF SettingsAlone, Alike
<1>13. SettingsNewest(flight', server)
  <2>1. ~late => Steady(server)
    BY <1>3 DEF Steady
  <2> HIDE DEF alone
  <2> QED
    BY <1>4, <1>7, <1>10, <1>11, <2>1 DEF SettingsNewest, Alike
<1>14. Pending(flight, Settings!KeyOps) => Pending(flight', Settings!KeyOps)
  BY <1>7, <1>10, <1>11 DEF Pending, Alike
<1> QED
  BY <1>1, <1>2, <1>9, <1>12, <1>13, <1>14 DEF SettingsInv, SettingsKept, S

LEMMA SettingsPage ==
  ASSUME SettingsInv,
         \/ \E form \in Names, link \in BOOLEAN : Settings!Save(form, link)
         \/ Settings!GenKeypair \/ Settings!OpenRecovery \/ Settings!OpenDelete \/ Settings!Cancel
         \/ \E phrase \in 0..server.next - 1 : Settings!RecoverKeypair(phrase)
         \/ \E right \in BOOLEAN : Settings!ChangePassword(right) \/ Settings!DeleteAccount(right)
  PROVE  SettingsInv'
<1>1. /\ view \in SettingsViews /\ server.next \in Nat /\ 0 < server.next
      /\ Names \subseteq SettingsArgs /\ BOOLEAN \subseteq SettingsArgs
      /\ {"generate", "recover"} \subseteq Settings!KeyOps
  BY DEF SettingsInv, SettingsServer, SettingsServers, SettingsArgs, SettingsOps, Settings!KeyOps,
     OwnProfiles
<1>2. ASSUME NEW form \in Names, NEW link \in BOOLEAN, Settings!Save(form, link)
      PROVE  SettingsInv'
  <2>1. Settings!Ask("save", form) /\ view' = [view EXCEPT !.profile = form, !.saving = TRUE]
    BY <1>2 DEF Settings!Save
  <2>2. view' \in SettingsViews /\ view'.keypair = view.keypair
    BY <1>1, <2>1 DEF SettingsViews, OwnProfiles
  <2> QED
    BY <1>1, <2>1, <2>2, SettingsSent
<1>3. CASE Settings!GenKeypair
  <2>1. Settings!AskForKey("generate", 0) /\ UNCHANGED view
    BY <1>3 DEF Settings!GenKeypair
  <2> QED
    BY <1>1, <2>1, SettingsKeyAsked
<1>4. CASE Settings!OpenRecovery \/ Settings!OpenDelete \/ Settings!Cancel
  <2>1. PICK dialog \in {"none", "recovery", "delete"} :
          view' = [view EXCEPT !.dialog = dialog] /\ UNCHANGED <<server, flight, past>>
    BY <1>4 DEF Settings!OpenRecovery, Settings!OpenDelete, Settings!Cancel
  <2>2. view' \in SettingsViews /\ view'.keypair = view.keypair
    BY <1>1, <2>1 DEF SettingsViews
  <2> QED
    BY <2>1, <2>2 DEF SettingsInv, SettingsKept
<1>5. ASSUME NEW phrase \in 0..server.next - 1, Settings!RecoverKeypair(phrase)
      PROVE  SettingsInv'
  <2>1. Settings!AskForKey("recover", phrase) /\ view' = [view EXCEPT !.recovering = TRUE]
    BY <1>5 DEF Settings!RecoverKeypair
  <2>2. view' \in SettingsViews /\ view'.keypair = view.keypair
    BY <1>1, <2>1 DEF SettingsViews
  <2>3. phrase \in Nat /\ phrase < server.next
    BY <1>1
  <2> QED
    BY <1>1, <2>1, <2>2, <2>3, SettingsKeyAsked
<1>6. ASSUME NEW right \in BOOLEAN, Settings!ChangePassword(right)
      PROVE  SettingsInv'
  <2>1. Settings!Ask("password", right) /\ view' = [view EXCEPT !.changing = TRUE]
    BY <1>6 DEF Settings!ChangePassword
  <2>2. view' \in SettingsViews /\ view'.keypair = view.keypair
    BY <1>1, <2>1 DEF SettingsViews
  <2> QED
    BY <1>1, <2>1, <2>2, SettingsSent
<1>7. ASSUME NEW right \in BOOLEAN, Settings!DeleteAccount(right)
      PROVE  SettingsInv'
  <2>1. Settings!Ask("delete", right) /\ view' = [view EXCEPT !.deleting = TRUE]
    BY <1>7 DEF Settings!DeleteAccount
  <2>2. view' \in SettingsViews /\ view'.keypair = view.keypair
    BY <1>1, <2>1 DEF SettingsViews
  <2> QED
    BY <1>1, <2>1, <2>2, SettingsSent
<1> QED
  BY <1>2, <1>3, <1>4, <1>5, <1>6, <1>7

\* A request was served, or failed.
LEMMA SettingsAnswered ==
  ASSUME SettingsInv, NEW i \in DOMAIN flight, NEW outcome \in {"ok", "refused", "throws"},
         NEW data \in SettingsData, flight' = Settings!Served(flight, i, outcome, data),
         UNCHANGED view, past' \in SettingsPasts, past'.stale = past.stale,
         SettingsServer(server'), server.next <= server'.next,
         flight[i].op = "me" /\ outcome = "ok" => data \in OwnProfiles,
         flight[i].op \in Settings!KeyOps /\ outcome = "ok" =>
           /\ data \in Nat /\ data < server'.next
           /\ ~flight[i].late => Registers(server', data),
         flight[i].op \in Settings!KeyOps => outcome # "refused" \/ flight[i].outcome = "none",
         \/ /\ \A key : Registers(server, key) => Registers(server', key)
            /\ Steady(server) => Steady(server')
         \/ flight[i].op \in Settings!KeyOps /\ outcome = "ok"
  PROVE  SettingsInv'
<1> DEFINE S == SettingsRequests(server'.next)
           r == flight[i]
<1>1. /\ flight' = F!Served(flight, i, outcome, data) /\ outcome \in F!Outcomes
      /\ flight \in Seq(SettingsAll) /\ SettingsAsk(r, server.next)
  BY SettingsFetch, SettingsFacts DEF F!Outcomes
<1>2. /\ server.next \in Nat /\ server'.next \in Nat
      /\ view.keypair \in Nat /\ view.keypair < server.next
  BY DEF SettingsInv, SettingsServer, SettingsServers, SettingsViews
<1>3. flight' \in Seq(S)
  <2>1. flight \in Seq(S)
    <3>1. \A j \in DOMAIN flight : SettingsAsk(flight[j], server'.next)
      BY <1>2, SettingsFacts DEF SettingsAsk
    <3>2. \A j \in DOMAIN flight : flight[j] \in S
      BY <3>1, SettingsFacts DEF SettingsRequests
    <3> QED
      BY <1>1, <3>2, LegalStill
  <2>2. \A q \in SettingsAll :
          q.op = r.op /\ q.arg = r.arg /\ q.outcome = outcome /\ q.data = data => q \in S
    BY <1>1, <1>2 DEF SettingsRequests, SettingsAsk
  <2>3. Closed(S, SettingsOps, SettingsArgs, SettingsData)
    BY SettingsClosed
  <2> HIDE DEF S, r
  <2> QED
    BY <1>1, <2>1, <2>2, <2>3, ServedIn DEF SettingsAll, r
<1>4. /\ DOMAIN flight' = DOMAIN flight
      /\ \A j \in DOMAIN flight \ {i} : flight'[j] = flight[j]
      /\ flight'[i].op = r.op /\ flight'[i].outcome = outcome /\ flight'[i].data = data
      /\ flight'[i].late = r.late
  BY <1>1, ServedFacts DEF SettingsAll
<1>5. SettingsAlone(flight')
  <2>1. \A j \in DOMAIN flight : flight'[j].op = flight[j].op /\ flight'[j].late = flight[j].late
    BY <1>4
  <2> HIDE DEF r
  <2> QED
    BY <1>4, <2>1 DEF SettingsInv, SettingsAlone
<1>6. SettingsNewest(flight', server')
  <2> SUFFICES ASSUME NEW j \in DOMAIN flight,
                      flight'[j].op \in Settings!KeyOps /\ ~flight'[j].late
               PROVE  /\ flight'[j].outcome = "none" => Steady(server')
                      /\ flight'[j].outcome = "ok" => Registers(server', flight'[j].data)
    BY <1>4 DEF SettingsNewest
  <2>1. CASE j = i
    BY <1>4, <2>1
  <2>2. CASE j # i
    <3>1. flight'[j] = flight[j]
      BY <1>4, <2>2
    <3>2. r.op \notin Settings!KeyOps
      BY <2>2, <3>1 DEF SettingsInv, SettingsAlone
    <3>3. /\ \A key : Registers(server, key) => Registers(server', key)
          /\ Steady(server) => Steady(server')
      BY <3>2
    <3> HIDE DEF r
    <3> QED
      BY <3>1, <3>3 DEF SettingsInv, SettingsNewest
  <2> QED
    BY <2>1, <2>2
<1>7. SettingsKept(flight', server', view, past)
  <2>1. Pending(flight, Settings!KeyOps) => Pending(flight', Settings!KeyOps)
    <3>1. Pending(flight, Settings!KeyOps) =>
            \E j \in DOMAIN flight :
              flight[j].op \in Settings!KeyOps /\ flight[j].outcome \in {"ok", "throws"}
      BY DEF Pending
    <3>2. ASSUME NEW j \in DOMAIN flight,
                 flight[j].op \in Settings!KeyOps, flight[j].outcome \in {"ok", "throws"}
          PROVE  flight'[j].op \in Settings!KeyOps /\ flight'[j].outcome \in {"ok", "throws"}
      BY <1>4, <3>2
    <3> QED
      BY <1>4, <3>1, <3>2 DEF Pending
  <2>2. r.op \in Settings!KeyOps /\ outcome = "ok" => Pending(flight', Settings!KeyOps)
    BY <1>4 DEF Pending
  <2> QED
    BY <2>1, <2>2 DEF SettingsInv, SettingsKept
<1> QED
  BY <1>2, <1>3, <1>5, <1>6, <1>7 DEF SettingsInv, SettingsKept

\* cityhall answers, and has a change to commit or none.
LEMMA SettingsReplies ==
  ASSUME SettingsInv, NEW i \in DOMAIN flight, NEW op, NEW accepted \in BOOLEAN, NEW data,
         NEW changed, Settings!Answering(i, op, accepted, data, changed),
         accepted =>
           /\ data \in SettingsData /\ (op = "me" => data \in OwnProfiles)
           /\ changed \in SettingsRows /\ (server.closed => changed.closed)
           /\ changed.key < server.next \/ (op = "generate" /\ changed.key = server.next)
           /\ IF op \in Settings!KeyOps THEN data = changed.key
              ELSE changed.closed \/ changed.key = server.key
  PROVE  SettingsInv'
<1> DEFINE r == flight[i]
           row == Settings!Row
           open == server.open \cup ({changed} \ {row})
           next == IF op = "generate" THEN server.next + 1 ELSE server.next
<1>1. /\ SettingsServer(server) /\ server \in SettingsServers /\ past \in SettingsPasts
      /\ server.next \in Nat /\ {} \in SettingsData /\ server.key \in Nat
      /\ SettingsNewest(flight, server) /\ r.late \in BOOLEAN
  BY SettingsFacts DEF SettingsInv, SettingsServer, SettingsServers, SettingsData
<1>2. /\ r.op = op /\ r.outcome = "none" /\ UNCHANGED <<view, past>>
      /\ accepted /\ changed # row => server.open = {}
      /\ IF accepted
         THEN /\ flight' = Settings!Served(flight, i, "ok", data)
              /\ server' = [server EXCEPT !.open = open, !.next = next]
         ELSE flight' = Settings!Served(flight, i, "refused", {}) /\ UNCHANGED server
  BY DEF Settings!Answering, Settings!Waiting
<1>3. past' \in SettingsPasts /\ past'.stale = past.stale
  BY <1>1, <1>2
<1>4. CASE ~accepted
  <2>1. UNCHANGED server
    BY <1>2, <1>4
  <2>2. SettingsServer(server') /\ server.next <= server'.next
    BY <1>1, <2>1
  <2>3. /\ \A key : Registers(server, key) => Registers(server', key)
        /\ Steady(server) => Steady(server')
    BY <2>1
  <2>4. flight' = Settings!Served(flight, i, "refused", {})
    BY <1>2, <1>4
  <2> QED
    BY <1>1, <1>2, <1>3, <2>2, <2>3, <2>4, SettingsAnswered
<1>5. CASE accepted
  <2>1. /\ changed \in SettingsRows /\ changed.key \in Nat /\ (server.closed => changed.closed)
        /\ changed.key < server.next \/ (op = "generate" /\ changed.key = server.next)
        /\ data \in SettingsData /\ (op = "me" => data \in OwnProfiles)
        /\ IF op \in Settings!KeyOps THEN data = changed.key
           ELSE changed.closed \/ changed.key = server.key
    BY <1>5 DEF SettingsRows
  <2>2. /\ next \in Nat /\ server.next <= next /\ changed.key < next /\ server.key < next
        /\ \A a \in server.open : a.key \in Nat /\ a.key < next
    BY <1>1, <2>1 DEF SettingsServer, SettingsServers, SettingsRows
  <2>3. /\ row.key = server.key /\ row.closed = server.closed
        /\ changed = row => open = server.open
        /\ changed # row => open = {changed} /\ server.open = {}
        /\ open \subseteq SettingsRows
    BY <1>1, <1>2, <1>5, <2>1 DEF Settings!Row, SettingsServers
  <2> HIDE DEF open, next, row
  <2>4. server' = [server EXCEPT !.open = open, !.next = next]
    BY <1>2, <1>5
  <2>5. /\ server' \in SettingsServers /\ server'.open = open /\ server'.next = next
        /\ server'.key = server.key /\ server'.closed = server.closed
    BY <1>1, <2>2, <2>3, <2>4 DEF SettingsServers
  <2>6. SettingsServer(server')
    BY <1>1, <2>1, <2>2, <2>3, <2>5 DEF SettingsServer
  <2>7. \/ op \in Settings!KeyOps
        \/ /\ \A key : Registers(server, key) => Registers(server', key)
           /\ Steady(server) => Steady(server')
    BY <2>1, <2>3, <2>5 DEF Registers, Steady
  <2>8. op \in Settings!KeyOps /\ ~r.late => Registers(server', data)
    <3>1. op \in Settings!KeyOps /\ ~r.late => Steady(server) /\ data = changed.key
      BY <1>1, <1>2, <2>1 DEF SettingsNewest
    <3>2. CASE changed = row
      BY <2>3, <2>5, <3>1, <3>2 DEF Registers, Steady
    <3>3. CASE changed # row
      BY <2>3, <2>5, <3>1, <3>3 DEF Registers
    <3> QED
      BY <3>2, <3>3
  <2>9. op \in Settings!KeyOps => data \in Nat /\ data < server'.next
    BY <2>1, <2>2, <2>5
  <2>10. flight' = Settings!Served(flight, i, "ok", data) /\ server.next <= server'.next
    BY <1>2, <1>5, <2>2, <2>5
  <2> HIDE DEF r
  <2> QED
    BY <1>2, <1>3, <2>1, <2>6, <2>7, <2>8, <2>9, <2>10, SettingsAnswered DEF r
<1> QED
  BY <1>4, <1>5

LEMMA SettingsServes ==
  ASSUME SettingsInv, NEW i \in DOMAIN flight,
         \/ Settings!ServeMe(i) \/ Settings!ServeSave(i) \/ Settings!ServeGenerate(i)
         \/ Settings!ServeRecover(i) \/ Settings!ServePassword(i) \/ Settings!ServeDelete(i)
         \/ Settings!Fail(i)
  PROVE  SettingsInv'
<1> DEFINE r == flight[i]
           row == Settings!Row
<1>1. /\ SettingsServer(server) /\ past \in SettingsPasts
      /\ server.next \in Nat /\ server.key < server.next
      /\ SettingsAsk(r, server.next) /\ {} \in SettingsData
      /\ OwnProfiles \subseteq SettingsData /\ Nat \subseteq SettingsData
      /\ server.profile \in OwnProfiles
  BY SettingsFacts DEF SettingsInv, SettingsServer, SettingsServers, SettingsData
<1>2. /\ \A op \in {"me", "save", "password", "delete"} : op \notin Settings!KeyOps
      /\ "generate" \in Settings!KeyOps /\ "recover" \in Settings!KeyOps
  BY DEF Settings!KeyOps
<1>3. row \in SettingsRows /\ row.key = server.key /\ row.closed = server.closed
  BY <1>1 DEF SettingsServer, SettingsServers, SettingsRows, Settings!Row
<1> HIDE DEF row
<1>4. CASE Settings!ServeMe(i)
  <2>1. Settings!Answering(i, "me", TRUE, server.profile, row)
    BY <1>4 DEF Settings!ServeMe, row
  <2> QED
    BY <1>1, <1>2, <1>3, <2>1, SettingsReplies
<1>5. CASE Settings!ServeSave(i)
  <2> DEFINE changed == [row EXCEPT !.profile = r.arg]
  <2>1. Settings!Answering(i, "save", TRUE, {}, changed)
    BY <1>5 DEF Settings!ServeSave, row
  <2>2. r.arg \in OwnProfiles
    BY <1>1, <2>1 DEF Settings!Answering, Settings!Waiting, SettingsAsk, OwnProfiles
  <2>3. changed \in SettingsRows /\ changed.key = server.key /\ changed.closed = server.closed
    BY <1>3, <2>2 DEF SettingsRows
  <2> HIDE DEF changed
  <2> QED
    BY <1>1, <1>2, <2>1, <2>3, SettingsReplies
<1>6. CASE Settings!ServeGenerate(i)
  <2> DEFINE changed == [row EXCEPT !.key = server.next]
  <2>1. Settings!Answering(i, "generate", TRUE, server.next, changed)
    BY <1>6 DEF Settings!ServeGenerate, row
  <2>2. changed \in SettingsRows /\ changed.key = server.next /\ changed.closed = server.closed
    BY <1>1, <1>3 DEF SettingsRows
  <2> HIDE DEF changed
  <2> QED
    BY <1>1, <1>2, <2>1, <2>2, SettingsReplies
<1>7. CASE Settings!ServeRecover(i)
  <2> DEFINE changed == [row EXCEPT !.key = r.arg]
             accepted == r.arg # 0
  <2>1. Settings!Answering(i, "recover", accepted, r.arg, changed)
    BY <1>7 DEF Settings!ServeRecover, row
  <2>2. r.arg \in Nat /\ r.arg < server.next
    BY <1>1, <2>1 DEF Settings!Answering, Settings!Waiting, SettingsAsk
  <2>3. changed \in SettingsRows /\ changed.key = r.arg /\ changed.closed = server.closed
    BY <1>3, <2>2 DEF SettingsRows
  <2>4. accepted \in BOOLEAN
    OBVIOUS
  <2> HIDE DEF changed, accepted
  <2> QED
    BY <1>1, <1>2, <2>1, <2>2, <2>3, <2>4, SettingsReplies
<1>8. CASE Settings!ServePassword(i)
  <2> DEFINE accepted == Settings!MayPass(i)
  <2>1. Settings!Answering(i, "password", accepted, {}, row)
    BY <1>8 DEF Settings!ServePassword, row
  <2>2. accepted \in BOOLEAN
    BY DEF Settings!MayPass
  <2> HIDE DEF accepted
  <2> QED
    BY <1>1, <1>2, <1>3, <2>1, <2>2, SettingsReplies
<1>9. CASE Settings!ServeDelete(i)
  <2> DEFINE changed == [profile |-> None, key |-> 0, closed |-> TRUE]
             accepted == Settings!MayPass(i)
  <2>1. Settings!Answering(i, "delete", accepted, {}, changed)
    BY <1>9 DEF Settings!ServeDelete
  <2>2. accepted \in BOOLEAN
    BY DEF Settings!MayPass
  <2>3. /\ changed \in SettingsRows /\ changed.closed /\ changed.key = 0 /\ 0 < server.next
    BY <1>1 DEF SettingsServer, SettingsServers, SettingsRows, OwnProfiles
  <2> HIDE DEF accepted, changed
  <2> QED
    BY <1>1, <1>2, <2>1, <2>2, <2>3, SettingsReplies
<1>10. CASE Settings!Fail(i)
  <2>1. /\ flight' = Settings!Served(flight, i, "throws", {}) /\ UNCHANGED <<server, view>>
        /\ past' = [past EXCEPT !.faults = past.faults + 1]
    BY <1>10 DEF Settings!Fail
  <2>2. past' \in SettingsPasts /\ past'.stale = past.stale
    BY <1>1, <2>1 DEF SettingsPasts
  <2>3. SettingsServer(server') /\ server.next <= server'.next
    BY <1>1, <2>1
  <2>4. /\ \A key : Registers(server, key) => Registers(server', key)
        /\ Steady(server) => Steady(server')
    BY <2>1
  <2> QED
    BY <1>1, <2>1, <2>2, <2>3, <2>4, SettingsAnswered
<1> QED
  BY <1>4, <1>5, <1>6, <1>7, <1>8, <1>9, <1>10

\* The change of the account is committed.
LEMMA SettingsCommits ==
  ASSUME SettingsInv, NEW row \in server.open, Settings!Commit(row)
  PROVE  SettingsInv'
<1>1. /\ server \in SettingsServers /\ row \in SettingsRows /\ row.key < server.next
      /\ server.closed => row.closed
      /\ server.open = {row}
  BY DEF SettingsInv, SettingsServer, SettingsServers
<1>2. /\ server' = [server EXCEPT !.open = {}, !.profile = row.profile, !.key = row.key,
                                  !.closed = row.closed]
      /\ UNCHANGED <<view, flight, past>>
  BY <1>1 DEF Settings!Commit
<1>3. /\ server' \in SettingsServers /\ server'.open = {} /\ server'.next = server.next
      /\ server'.key = row.key /\ server'.closed = row.closed
  BY <1>1, <1>2 DEF SettingsServers, SettingsRows
<1>4. SettingsServer(server')
  BY <1>1, <1>3 DEF SettingsServer
<1>5. \A key : Registers(server, key) => Registers(server', key)
  BY <1>1, <1>3 DEF Registers
<1>6. Steady(server')
  BY <1>3 DEF Steady
<1> QED
  BY <1>2, <1>3, <1>4, <1>5, <1>6 DEF SettingsInv, SettingsNewest, SettingsKept

\* What a handler may do to the pair that is shown.
SettingsEnds(r, shown, stale) ==
  \/ /\ r.op \notin Settings!KeyOps \/ r.outcome \notin {"ok", "throws"}
     /\ shown = view.keypair /\ stale = past.stale
  \/ stale # {}
  \/ r.op \in Settings!KeyOps /\ r.outcome = "ok" /\ ~r.late /\ shown = r.data

LEMMA SettingsEnded ==
  ASSUME SettingsInv, NEW i \in DOMAIN flight, flight' = Settings!Handled(flight, i),
         UNCHANGED server, view' \in SettingsViews, view'.keypair < server.next,
         past' \in SettingsPasts, SettingsEnds(flight[i], view'.keypair, past'.stale)
  PROVE  SettingsInv'
<1> DEFINE S == SettingsRequests(server.next)
           r == flight[i]
<1>1. flight \in Seq(S) /\ flight \in Seq(SettingsAll) /\ flight' = F!Handled(flight, i)
  BY SettingsFetch, SettingsFacts DEF SettingsInv
<1>2. Closed(S, SettingsOps, SettingsArgs, SettingsData)
  BY SettingsClosed
<1> HIDE DEF S
<1>3. flight' \in Seq(S) /\ Rest(flight', flight, i)
  BY <1>1, <1>2, HandledRest
<1>4. \A k \in DOMAIN flight' : /\ Skip(i, k) \in DOMAIN flight \ {i}
                                /\ Alike(flight'[k], flight[Skip(i, k)])
                                /\ flight[Skip(i, k)].late => flight'[k].late
  <2>1. flight \in Seq(Requests(SettingsOps, SettingsArgs, SettingsData))
    BY <1>1 DEF SettingsAll
  <2>2. DOMAIN F!Handled(flight, i) = 1..(Len(flight) - 1)
    BY <2>1, HandledFacts
  <2>3. ASSUME NEW k \in 1..(Len(flight) - 1)
        PROVE  /\ Skip(i, k) \in DOMAIN flight \ {i}
               /\ Alike(F!Handled(flight, i)[k], flight[Skip(i, k)])
               /\ flight[Skip(i, k)].late => F!Handled(flight, i)[k].late
    BY <2>1, HandledFacts
  <2> QED
    BY <1>1, <2>2, <2>3
<1>5. SettingsAlone(flight')
  <2> SUFFICES ASSUME NEW j \in DOMAIN flight', NEW k \in DOMAIN flight', j # k,
                      flight'[j].op \in Settings!KeyOps, flight'[k].op \in Settings!KeyOps
               PROVE  flight'[j].late
    BY DEF SettingsAlone
  <2>1. /\ Skip(i, j) \in DOMAIN flight /\ Skip(i, k) \in DOMAIN flight /\ Skip(i, j) # Skip(i, k)
        /\ flight[Skip(i, j)].op \in Settings!KeyOps /\ flight[Skip(i, k)].op \in Settings!KeyOps
    BY <1>3, <1>4 DEF Rest, Alike
  <2>2. flight[Skip(i, j)].late
    BY <2>1 DEF SettingsInv, SettingsAlone
  <2> QED
    BY <1>4, <2>2
<1>6. SettingsNewest(flight', server)
  <2> SUFFICES ASSUME NEW j \in DOMAIN flight', flight'[j].op \in Settings!KeyOps,
                      ~flight'[j].late
               PROVE  /\ flight'[j].outcome = "none" => Steady(server)
                      /\ flight'[j].outcome = "ok" => Registers(server, flight'[j].data)
    BY DEF SettingsNewest
  <2>1. /\ Skip(i, j) \in DOMAIN flight /\ ~flight[Skip(i, j)].late
        /\ flight[Skip(i, j)].op \in Settings!KeyOps
        /\ flight[Skip(i, j)].outcome = flight'[j].outcome
        /\ flight[Skip(i, j)].data = flight'[j].data
    BY <1>4 DEF Alike
  <2> QED
    BY <2>1 DEF SettingsInv, SettingsNewest
<1>7. SettingsKept(flight', server, view', past')
  <2>1. CASE /\ r.op \notin Settings!KeyOps \/ r.outcome \notin {"ok", "throws"}
             /\ view'.keypair = view.keypair /\ past'.stale = past.stale
    <3>1. ASSUME Pending(flight, Settings!KeyOps)
          PROVE  Pending(flight', Settings!KeyOps)
      <4>1. PICK j \in DOMAIN flight :
              flight[j].op \in Settings!KeyOps /\ flight[j].outcome \in {"ok", "throws"}
        BY <3>1 DEF Pending
      <4>2. PICK k \in DOMAIN flight' : Skip(i, k) = j
        BY <1>3, <2>1, <4>1 DEF Rest
      <4> QED
        BY <1>4, <4>1, <4>2 DEF Pending, Alike
    <3> QED
      BY <2>1, <3>1 DEF SettingsInv, SettingsKept
  <2>2. CASE past'.stale # {}
    BY <2>2 DEF SettingsKept
  <2>3. CASE r.op \in Settings!KeyOps /\ r.outcome = "ok" /\ ~r.late /\ view'.keypair = r.data
    BY <2>3 DEF SettingsInv, SettingsNewest, SettingsKept
  <2> QED
    BY <2>1, <2>2, <2>3 DEF SettingsEnds
<1> QED
  BY <1>3, <1>5, <1>6, <1>7 DEF SettingsInv, S

\* Nothing about key pairs was answered.
LEMMA SettingsOthers ==
  ASSUME SettingsInv, NEW i \in DOMAIN flight, NEW op \in {"me", "save", "password", "delete"},
         NEW v \in SettingsViews, v.keypair = view.keypair, Settings!Ending(i, op, v)
  PROVE  SettingsInv'
<1>1. /\ flight[i].op = op /\ view' = v /\ flight' = Settings!Handled(flight, i)
      /\ UNCHANGED <<server, past>>
  BY DEF Settings!Ending, Settings!Answers
<1>2. op \notin Settings!KeyOps
  BY DEF Settings!KeyOps
<1>3. SettingsEnds(flight[i], view'.keypair, past'.stale)
  BY <1>1, <1>2 DEF SettingsEnds
<1>4. view'.keypair < server.next /\ past' \in SettingsPasts
  BY <1>1 DEF SettingsInv
<1> QED
  BY <1>1, <1>3, <1>4, SettingsEnded

LEMMA SettingsHandles ==
  ASSUME SettingsInv, NEW i \in DOMAIN flight,
         \/ Settings!HandleMe(i) \/ Settings!HandleSave(i)
         \/ Settings!HandleChangePassword(i) \/ Settings!HandleDeleteAccount(i)
  PROVE  SettingsInv'
<1> DEFINE r == flight[i]
           good == Settings!Good(i)
           thrown == Settings!Thrown(i)
<1>1. view \in SettingsViews /\ SettingsAsk(r, server.next)
      /\ good \in BOOLEAN /\ thrown \in BOOLEAN
      /\ (good => r.outcome = "ok")
  BY SettingsFacts DEF SettingsInv, Settings!Good, Settings!Thrown
<1> HIDE DEF good, thrown
<1>2. CASE Settings!HandleMe(i)
  <2> DEFINE loading == view.loading /\ thrown
             profile == IF good THEN r.data ELSE view.profile
             v == [view EXCEPT !.loading = loading, !.profile = profile]
  <2>1. Settings!Ending(i, "me", v)
    BY <1>2 DEF Settings!HandleMe, good, thrown
  <2>2. r.op = "me"
    BY <2>1 DEF Settings!Ending, Settings!Answers
  <2>3. profile \in OwnProfiles /\ loading \in BOOLEAN
    BY <1>1, <2>2 DEF SettingsViews, SettingsAsk
  <2> HIDE DEF loading, profile
  <2>4. v \in SettingsViews /\ v.keypair = view.keypair
    BY <1>1, <2>3 DEF SettingsViews
  <2> HIDE DEF v
  <2> QED
    BY <2>1, <2>4, SettingsOthers
<1>3. CASE Settings!HandleSave(i)
  <2> DEFINE saving == view.saving /\ thrown
             v == [view EXCEPT !.saving = saving]
  <2>1. Settings!Ending(i, "save", v)
    BY <1>3 DEF Settings!HandleSave, thrown
  <2>2. saving \in BOOLEAN
    OBVIOUS
  <2> HIDE DEF saving
  <2>3. v \in SettingsViews /\ v.keypair = view.keypair
    BY <1>1, <2>2 DEF SettingsViews
  <2> HIDE DEF v
  <2> QED
    BY <2>1, <2>3, SettingsOthers
<1>4. CASE Settings!HandleChangePassword(i)
  <2> DEFINE changing == view.changing /\ thrown
             v == [view EXCEPT !.changing = changing]
  <2>1. Settings!Ending(i, "password", v)
    BY <1>4 DEF Settings!HandleChangePassword, thrown
  <2>2. changing \in BOOLEAN
    OBVIOUS
  <2> HIDE DEF changing
  <2>3. v \in SettingsViews /\ v.keypair = view.keypair
    BY <1>1, <2>2 DEF SettingsViews
  <2> HIDE DEF v
  <2> QED
    BY <2>1, <2>3, SettingsOthers
<1>5. CASE Settings!HandleDeleteAccount(i)
  <2> DEFINE deleting == view.deleting /\ thrown
             open == ~good
             dialog == IF good THEN "none" ELSE view.dialog
             v == [view EXCEPT !.deleting = deleting, !.open = open, !.dialog = dialog]
  <2>1. Settings!Ending(i, "delete", v)
    BY <1>5 DEF Settings!HandleDeleteAccount, good, thrown
  <2>2. deleting \in BOOLEAN /\ open \in BOOLEAN
    OBVIOUS
  <2>3. dialog \in {"none", "recovery", "delete"}
    BY <1>1 DEF SettingsViews
  <2> HIDE DEF deleting, open, dialog
  <2>4. v \in SettingsViews /\ v.keypair = view.keypair
    BY <1>1, <2>2, <2>3 DEF SettingsViews
  <2> HIDE DEF v
  <2> QED
    BY <2>1, <2>4, SettingsOthers
<1> QED
  BY <1>2, <1>3, <1>4, <1>5

\* A request for a key pair was answered.
LEMMA SettingsKeyHandled ==
  ASSUME SettingsInv, NEW i \in DOMAIN flight, NEW op \in Settings!KeyOps, NEW v \in SettingsViews,
         Settings!KeyAnswered(i, op, v),
         flight[i].outcome = "ok" => v.keypair = flight[i].data,
         flight[i].outcome # "ok" => v.keypair = view.keypair
  PROVE  SettingsInv'
<1> DEFINE r == flight[i]
           stale == IF r.outcome = "refused" THEN past.stale
                    ELSE IF r.outcome = "ok" /\ ~r.late THEN {} ELSE Settings!KeyOps
<1>1. /\ r.op = op /\ r.outcome # "none" /\ view' = v /\ UNCHANGED server
      /\ flight' = Settings!Handled(flight, i) /\ past' = [past EXCEPT !.stale = stale]
  BY DEF Settings!KeyAnswered, Settings!Answers, Settings!Good
<1>2. /\ past \in SettingsPasts /\ SettingsAsk(r, server.next) /\ r.late \in BOOLEAN
      /\ r.outcome \in F!Outcomes /\ view.keypair < server.next
  BY SettingsFacts DEF SettingsInv
<1>3. stale \in SUBSET Settings!KeyOps
  BY <1>2 DEF SettingsPasts
<1>4. SettingsEnds(r, v.keypair, stale)
  <2>1. r.outcome \in {"ok", "refused", "throws"}
    BY <1>1, <1>2 DEF F!Outcomes
  <2>2. Settings!KeyOps # {}
    BY DEF Settings!KeyOps
  <2>3. CASE r.outcome = "refused"
    BY <2>3 DEF SettingsEnds
  <2>4. CASE r.outcome = "throws"
    BY <2>2, <2>4 DEF SettingsEnds
  <2>5. CASE r.outcome = "ok"
    BY <1>1, <2>2, <2>5 DEF SettingsEnds
  <2> QED
    BY <2>1, <2>3, <2>4, <2>5
<1>5. v.keypair < server.next
  BY <1>1, <1>2 DEF SettingsAsk
<1> HIDE DEF stale
<1>6. past' \in SettingsPasts /\ past'.stale = stale
  BY <1>1, <1>2, <1>3 DEF SettingsPasts
<1> QED
  BY <1>1, <1>4, <1>5, <1>6, SettingsEnded

LEMMA SettingsKeys ==
  ASSUME SettingsInv, NEW i \in DOMAIN flight,
         Settings!HandleGenKeypair(i) \/ Settings!HandleRecoverKeypair(i)
  PROVE  SettingsInv'
<1> DEFINE r == flight[i]
           good == r.outcome = "ok"
<1>1. view \in SettingsViews /\ SettingsAsk(r, server.next)
      /\ {"generate", "recover"} \subseteq Settings!KeyOps
  BY SettingsFacts DEF SettingsInv, Settings!KeyOps
<1>2. CASE Settings!HandleGenKeypair(i)
  <2> DEFINE keypair == IF good THEN r.data ELSE view.keypair
             v == [view EXCEPT !.keypair = keypair]
  <2>1. Settings!KeyAnswered(i, "generate", v)
    BY <1>2 DEF Settings!HandleGenKeypair, Settings!Good
  <2>2. r.op \in Settings!KeyOps
    BY <1>1, <2>1 DEF Settings!KeyAnswered, Settings!Answers
  <2>3. keypair \in Nat
    BY <1>1, <2>2 DEF SettingsAsk, SettingsViews
  <2> HIDE DEF keypair
  <2>4. v \in SettingsViews /\ v.keypair = keypair
    BY <1>1, <2>3 DEF SettingsViews
  <2> HIDE DEF v
  <2> QED
    BY <1>1, <2>1, <2>4, SettingsKeyHandled DEF keypair
<1>3. CASE Settings!HandleRecoverKeypair(i)
  <2> DEFINE v == Settings!Recovered(i)
  <2>1. Settings!KeyAnswered(i, "recover", v)
    BY <1>3 DEF Settings!HandleRecoverKeypair
  <2>2. r.op \in Settings!KeyOps
    BY <1>1, <2>1 DEF Settings!KeyAnswered, Settings!Answers
  <2>3. CASE good
    <3> DEFINE dialog == IF view.dialog = "recovery" THEN "none" ELSE view.dialog
    <3>1. v = [view EXCEPT !.recovering = FALSE, !.keypair = r.data, !.dialog = dialog]
      BY <2>3 DEF Settings!Recovered, Settings!Good
    <3>2. dialog \in {"none", "recovery", "delete"} /\ r.data \in Nat
      BY <1>1, <2>2, <2>3 DEF SettingsViews, SettingsAsk
    <3> HIDE DEF dialog, v
    <3>3. v \in SettingsViews /\ v.keypair = r.data
      BY <1>1, <3>1, <3>2 DEF SettingsViews
    <3> QED
      BY <1>1, <2>1, <2>3, <3>3, SettingsKeyHandled DEF v
  <2>4. CASE ~good
    <3> DEFINE recovering == view.recovering /\ Settings!Thrown(i)
    <3>1. v = [view EXCEPT !.recovering = recovering]
      BY <2>4 DEF Settings!Recovered, Settings!Good
    <3>2. recovering \in BOOLEAN
      OBVIOUS
    <3> HIDE DEF recovering, v
    <3>3. v \in SettingsViews /\ v.keypair = view.keypair
      BY <1>1, <3>1, <3>2 DEF SettingsViews
    <3> QED
      BY <1>1, <2>1, <2>4, <3>3, SettingsKeyHandled DEF v
  <2> QED
    BY <2>3, <2>4
<1> QED
  BY <1>2, <1>3

LEMMA SettingsInit == ASSUME Settings!Init PROVE SettingsInv
<1>1. PICK name \in Names :
        server = [profile |-> name, key |-> 1, next |-> 2, closed |-> FALSE, open |-> {}]
  BY DEF Settings!Init
<1>2. /\ view = [open |-> TRUE, loading |-> TRUE, profile |-> None, keypair |-> 0,
                 dialog |-> "none", saving |-> FALSE, recovering |-> FALSE, changing |-> FALSE,
                 deleting |-> FALSE]
      /\ flight = <<F!Request("me", None)>>
      /\ past = [stale |-> {}, steps |-> 0, faults |-> 0]
  BY SettingsFetch DEF Settings!Init
<1>3. SettingsServer(server)
  BY <1>1 DEF SettingsServer, SettingsServers, OwnProfiles
<1>4. view \in SettingsViews /\ view.keypair < server.next /\ view.keypair = 0
  BY <1>1, <1>2 DEF SettingsViews, OwnProfiles
<1>5. past \in SettingsPasts
  BY <1>2 DEF SettingsPasts
<1> DEFINE q == F!Request("me", None)
<1>6. q \in SettingsAll /\ q.op = "me" /\ q.outcome = "none"
  BY DEF F!Request, SettingsAll, Requests, SettingsOps, SettingsArgs, OwnProfiles, SettingsData, F!Outcomes
<1>7. q \in SettingsRequests(server.next) /\ q.op \notin Settings!KeyOps
  BY <1>6 DEF SettingsRequests, SettingsAsk, Settings!KeyOps
<1> HIDE DEF q
<1>8. flight \in Seq(SettingsRequests(server.next)) /\ \A i \in DOMAIN flight : flight[i] = q
  BY <1>2, <1>7 DEF q
<1> QED
  BY <1>3, <1>4, <1>5, <1>7, <1>8 DEF SettingsInv, SettingsAlone, SettingsNewest, SettingsKept

LEMMA SettingsNext ==
  ASSUME SettingsInv, Settings!Next
  PROVE  SettingsInv'
  BY SettingsPage, SettingsServes, SettingsCommits, SettingsHandles, SettingsKeys DEF Settings!Next

\* The properties of the page.
LEMMA SettingsShows ==
  ASSUME SettingsInv
  PROVE  Settings!TypeOK /\ Settings!KeypairShownIsRegistered
<1>1. /\ server \in SettingsServers /\ server.key < server.next
      /\ \A row \in server.open : row \in SettingsRows /\ row.key < server.next
      /\ view \in SettingsViews /\ view.keypair < server.next
      /\ SettingsKept(flight, server, view, past)
  BY DEF SettingsInv, SettingsServer, SettingsServers
<1>2. Settings!TypeOK
  <2>1. \A i \in DOMAIN flight :
          Settings!IsRequest(flight[i], {"me", "save", "password", "delete"} \cup Settings!KeyOps)
    BY SettingsFacts DEF Settings!IsRequest, Settings!Outcomes, F!Outcomes, SettingsOps,
       Settings!KeyOps
  <2>2. server.key \in 0..server.next - 1 /\ view.keypair \in 0..server.next - 1
    BY <1>1 DEF SettingsServers, SettingsViews
  <2> DEFINE Rows == [profile : Names \cup {None}, key : 0..server.next - 1, closed : BOOLEAN]
  <2>3. Settings!Row \in Rows
    BY <1>1, <2>2 DEF Settings!Row, SettingsServers, OwnProfiles
  <2>4. \A row \in server.open : row \in Rows
    <3>1. \A row \in server.open : row.key \in 0..server.next - 1
      BY <1>1 DEF SettingsRows, SettingsServers
    <3> QED
      BY <1>1, <3>1 DEF SettingsRows, OwnProfiles
  <2>5. {Settings!Row} \cup server.open \subseteq Rows
    BY <2>3, <2>4
  <2> HIDE DEF Rows
  <2> QED
    BY <1>1, <2>1, <2>2, <2>5 DEF Settings!TypeOK, SettingsViews, OwnProfiles, Rows
<1>3. Settings!KeypairShownIsRegistered
  BY <1>1 DEF Settings!KeypairShownIsRegistered, SettingsKept, Registers, Pending
<1> QED
  BY <1>2, <1>3

-----------------------------------------------------------------------------
(* DocumentsPage: letters and signatures, which are loaded together. *)

DocumentsChanges == {"post", "patch", "delete", "generate", "sign", "unsign"}

DocumentsOps == {"lists"} \cup DocumentsChanges

Letters ==
  [id : Nat, content : Documents!Contents, sig : Nat \cup {None}, auto : BOOLEAN,
   status : {"draft", "generated", "sent"}]

Sigs == [id : Nat, default : BOOLEAN]

Forms == [doc : Nat \cup {None}, content : Documents!Contents \cup {None}, auto : BOOLEAN]

LetterPosts == [form : Forms, sig : Nat \cup {None}, outdated : BOOLEAN]

\* The two answers to loadAll, each of which may be on its way.
Lists == [docs : (SUBSET Letters) \cup {None}, sigs : (SUBSET Sigs) \cup {None}]

DocumentsArgs == {None} \cup Nat \cup BOOLEAN \cup Forms \cup LetterPosts

DocumentsData == {{}} \cup Lists

DocumentsAll == Requests(DocumentsOps, DocumentsArgs, DocumentsData)

DocumentsAsk(r) ==
  /\ r.op = "lists" /\ r.outcome \in {"none", "ok"} => r.data \in Lists
  /\ r.op = "lists" /\ r.outcome = "ok" => r.data.docs # None /\ r.data.sigs # None
  /\ r.op = "lists" => r.arg = None
  /\ r.op = "post" => r.arg \in LetterPosts /\ r.arg.form.content \in Documents!Contents
  /\ r.op = "patch" => r.arg \in Forms /\ r.arg.content \in Documents!Contents
  /\ r.op = "sign" => r.arg \in BOOLEAN
  /\ r.op = "unsign" => r.outcome # "ok"

DocumentsRequests == {r \in DocumentsAll : DocumentsAsk(r)}

\* There is a signature with this id.
HasSig(sigs, id) == \E s \in sigs : s.id = id

DocumentsOpen ==
  [list : {"docs"}, ids : SUBSET Nat, rows : SUBSET Letters]
    \cup [list : {"sigs"}, ids : SUBSET Nat, rows : SUBSET Sigs]

DocumentsServers ==
  [docs : SUBSET Letters, sigs : SUBSET Sigs, open : SUBSET DocumentsOpen, next : Nat]

Deletes(change) == change.list = "sigs" /\ change.rows = {}

\* The signature that a letter names is there, and is not being deleted.
Sound(d, s) ==
  /\ d.sig # None => HasSig(s.sigs, d.sig)
  /\ \A change \in s.open : Deletes(change) => d.sig \notin change.ids

\* A change to the signatures that is no deletion has the same ones in their place.
ChangeFits(change, s) ==
  /\ change.list = "docs" => \A d \in change.rows : Sound(d, s)
  /\ change.list = "sigs" /\ ~Deletes(change) =>
       \A id \in change.ids : HasSig(change.rows, id)

DocumentsServer(s) ==
  /\ s \in DocumentsServers
  /\ \A d \in s.docs : Sound(d, s)
  /\ \A change \in s.open : ChangeFits(change, s)

DocumentsViews ==
  [docs : SUBSET Letters, sigs : SUBSET Sigs, dialog : {None, "template", "doc", "sig"},
   image : BOOLEAN, form : Forms]

DocumentsPasts == [stale : SUBSET {"lists"}, steps : Nat, faults : Nat]

\* One of the two halves of a request, as if it was a load of its own.
Side(r, list) ==
  IF r.op = "lists" /\ r.outcome \in {"none", "ok"}
  THEN [r EXCEPT !.outcome = IF r.data[list] = None THEN "none" ELSE "ok", !.data = r.data[list]]
  ELSE r

Half(fs, list) == [i \in DOMAIN fs |-> Side(fs[i], list)]

HalfTracks(fs, list, now, shown, stale) ==
  Tracks(Half(fs, list), "lists", DocumentsChanges, Now(None, now), None, shown, stale)

DocumentsTracks(fs, s, v, p) ==
  /\ HalfTracks(fs, "docs", s.docs, v.docs, p.stale)
  /\ HalfTracks(fs, "sigs", s.sigs, v.sigs, p.stale)

\* A signature may have been deleted, and its handler has yet to react.
Unsigned(fs) == \E i \in DOMAIN fs : fs[i].op = "unsign" /\ fs[i].outcome = "throws"

Known(sigs, now) == \A g \in sigs : HasSig(now, g.id)

\* A load that is still to be trusted has no signature that was deleted.
ListKnown(r, now) ==
  r.op = "lists" /\ r.outcome \in {"none", "ok"} /\ ~r.late /\ r.data.sigs # None =>
    Known(r.data.sigs, now)

\* A letter that was sent on such a list is not refused.
LetterKnown(r, now) ==
  r.op = "post" /\ ~r.late /\ ~r.arg.outdated =>
    /\ r.outcome # "refused"
    /\ r.outcome = "none" /\ r.arg.sig # None => HasSig(now, r.arg.sig)

DocumentsKept(fs, s, v, p) ==
  \/ Unsigned(fs)
  \/ /\ "lists" \in p.stale \/ Known(v.sigs, s.sigs)
     /\ \A i \in DOMAIN fs : ListKnown(fs[i], s.sigs) /\ LetterKnown(fs[i], s.sigs)

DocumentsInv ==
  /\ DocumentsServer(server) /\ view \in DocumentsViews /\ past \in DocumentsPasts
  /\ view.dialog = "doc" => view.form.content \in Documents!Contents
  /\ flight \in Seq(DocumentsRequests)
  /\ DocumentsTracks(flight, server, view, past) /\ DocumentsKept(flight, server, view, past)

LEMMA DocumentsFetch ==
  /\ \A fs, i : Documents!Handled(fs, i) = F!Handled(fs, i)
  /\ \A fs, i, o, d : Documents!Served(fs, i, o, d) = F!Served(fs, i, o, d)
  /\ \A op, a : Documents!Request(op, a) = F!Request(op, a)
  /\ \A fs, l : Documents!Outdated(fs, l) = F!Outdated(fs, l)
  /\ \A s, fs, c, l : Documents!StaleAfterCommit(s, fs, c, l) = F!StaleAfterCommit(s, fs, c, l)
  BY DEF Documents!Handled, F!Handled, Documents!Served, F!Served,
         Documents!Request, F!Request, Documents!Outdated, F!Outdated,
         Documents!StaleAfterCommit, F!StaleAfterCommit, Documents!Reacting, F!Reacting

LEMMA DocumentsClosed ==
  /\ Closed(DocumentsRequests, DocumentsOps, DocumentsArgs, DocumentsData)
  /\ \A r \in DocumentsRequests :
       /\ r \in DocumentsAll /\ DocumentsAsk(r)
       /\ r.op \in DocumentsOps /\ r.outcome \in F!Outcomes /\ r.late \in BOOLEAN
  /\ {} \in DocumentsData
<1>1. \A r \in DocumentsAll :
        r.op \in DocumentsOps /\ r.outcome \in F!Outcomes /\ r.late \in BOOLEAN
  BY DEF DocumentsAll, Requests
<1>2. \A r \in DocumentsAll, q \in DocumentsRequests : Alike(r, q) => r \in DocumentsRequests
  BY DEF DocumentsRequests, DocumentsAsk, Alike
<1> QED
  BY <1>1, <1>2 DEF Closed, DocumentsRequests, DocumentsAll, DocumentsData

LEMMA DocumentsFacts ==
  ASSUME DocumentsInv
  PROVE  /\ flight \in Seq(DocumentsAll)
         /\ \A i \in DOMAIN flight :
              /\ flight[i] \in DocumentsAll /\ DocumentsAsk(flight[i])
              /\ flight[i].op \in DocumentsOps /\ flight[i].outcome \in F!Outcomes
              /\ flight[i].late \in BOOLEAN
<1>1. flight \in Seq(DocumentsRequests)
  BY DEF DocumentsInv
<1>2. \A r \in DocumentsRequests :
        /\ r \in DocumentsAll /\ DocumentsAsk(r)
        /\ r.op \in DocumentsOps /\ r.outcome \in F!Outcomes /\ r.late \in BOOLEAN
  BY DocumentsClosed
<1>3. \A i \in DOMAIN flight : flight[i] \in DocumentsRequests
  BY <1>1
<1>4. \A i \in DOMAIN flight : flight[i] \in DocumentsAll
  BY <1>2, <1>3
<1> QED
  BY <1>1, <1>2, <1>3, <1>4, LegalStill

\* What a half has of its request.
LEMMA SideFacts ==
  ASSUME NEW r \in DocumentsAll, NEW list
  PROVE  /\ Side(r, list).op = r.op /\ Side(r, list).arg = r.arg /\ Side(r, list).late = r.late
         /\ r.op # "lists" \/ r.outcome \notin {"none", "ok"} => Side(r, list) = r
         /\ r.op = "lists" /\ r.outcome \in {"none", "ok"} =>
              /\ Side(r, list).data = r.data[list]
              /\ r.data[list] = None => Side(r, list).outcome = "none"
              /\ r.data[list] # None => Side(r, list).outcome = "ok"
<1> DEFINE o == IF r.data[list] = None THEN "none" ELSE "ok"
           d == r.data[list]
           whole == r.op # "lists" \/ r.outcome \notin {"none", "ok"}
<1>1. Side(r, list) = IF whole THEN r ELSE [r EXCEPT !.outcome = o, !.data = d]
  BY DEF Side
<1>2. (d = None => o = "none") /\ (d # None => o = "ok")
  OBVIOUS
<1> HIDE DEF o, d
<1>3. CASE whole
  BY <1>1, <1>3
<1>4. CASE ~whole
  <2>1. Side(r, list) = [r EXCEPT !.outcome = o, !.data = d]
    BY <1>1, <1>4
  <2>2. /\ Side(r, list).op = r.op /\ Side(r, list).arg = r.arg /\ Side(r, list).late = r.late
        /\ Side(r, list).outcome = o /\ Side(r, list).data = d
    BY <2>1 DEF DocumentsAll, Requests
  <2> QED
    BY <1>2, <1>4, <2>2 DEF d
<1> QED
  BY <1>3, <1>4

LEMMA SideAlike ==
  ASSUME NEW r \in DocumentsAll, NEW q \in DocumentsAll, Alike(r, q), NEW list
  PROVE  Alike(Side(r, list), Side(q, list))
  BY SideFacts DEF Alike

LEMMA HalfFacts ==
  ASSUME NEW fs, NEW list
  PROVE  /\ DOMAIN Half(fs, list) = DOMAIN fs
         /\ \A i \in DOMAIN fs : Half(fs, list)[i] = Side(fs[i], list)
  BY DEF Half

\* A request for something else than the lists, or the one for the lists.
LEMMA HalfSent ==
  ASSUME NEW fs \in Seq(DocumentsAll), NEW q \in DocumentsAll, q.outcome = "none", NEW list,
         NEW now, NEW shown, NEW stale,
         \/ q.op # "lists" /\ HalfTracks(fs, list, now, shown, stale)
         \/ q.op = "lists" /\ q.data[list] = None
  PROVE  HalfTracks(Append(fs, q), list, now, shown, stale)
<1> DEFINE n == Len(fs)
           gs == Append(fs, q)
           h == Half(fs, list)
           k == Half(gs, list)
<1>1. n \in Nat /\ DOMAIN fs = 1..n /\ DOMAIN gs = 1..(n + 1)
      /\ (\A j \in 1..n : gs[j] = fs[j]) /\ gs[n + 1] = q
  OBVIOUS
<1> HIDE DEF n, gs
<1>2. DOMAIN h = 1..n /\ DOMAIN k = 1..(n + 1)
      /\ (\A j \in 1..n : k[j] = h[j]) /\ k[n + 1] = Side(q, list)
  BY <1>1, HalfFacts
<1>3. Side(q, list).op = q.op /\ Side(q, list).outcome = "none"
  BY SideFacts
<1> HIDE DEF h, k
<1>4. CASE q.op = "lists"
  <2>1. Tracks(k, "lists", DocumentsChanges, Now(None, now), None, shown, stale)
    BY <1>1, <1>2, <1>3, <1>4, TracksLoad
  <2> QED
    BY <2>1 DEF HalfTracks, k, gs
<1>5. CASE HalfTracks(fs, list, now, shown, stale)
  <2>1. Tracks(h, "lists", DocumentsChanges, Now(None, now), None, shown, stale)
    BY <1>5 DEF HalfTracks, h
  <2>2. Tracks(k, "lists", DocumentsChanges, Now(None, now), None, shown, stale)
    BY <1>1, <1>2, <1>3, <2>1, TracksSent
  <2> QED
    BY <2>2 DEF HalfTracks, k, gs
<1> QED
  BY <1>4, <1>5

\* The lists are loaded again after everything else.
LEMMA LoadAllFacts ==
  /\ Documents!LoadAll \in DocumentsRequests /\ Documents!LoadAll \in DocumentsAll
  /\ Documents!LoadAll.op = "lists" /\ Documents!LoadAll.outcome = "none"
  /\ Documents!LoadAll.data.docs = None /\ Documents!LoadAll.data.sigs = None
<1> DEFINE lists == [docs |-> None, sigs |-> None]
<1>1. lists \in Lists /\ lists.docs = None /\ lists.sigs = None
  BY DEF Lists
<1> DEFINE q == Documents!LoadAll
<1> HIDE DEF lists
<1>2. q = [op |-> "lists", arg |-> None, outcome |-> "none", data |-> lists, late |-> FALSE]
  <2>1. q = [Documents!Request("lists", None) EXCEPT !.data = lists]
    BY Zenon DEF Documents!LoadAll, lists
  <2> HIDE DEF q
  <2> QED
    BY <2>1 DEF Documents!Request
<1> HIDE DEF q
<1>3. q \in DocumentsAll /\ q.op = "lists" /\ q.outcome = "none" /\ q.data = lists /\ q.arg = None
  BY <1>1, <1>2 DEF DocumentsAll, Requests, DocumentsOps, DocumentsArgs, DocumentsData, F!Outcomes
<1>4. q \in DocumentsRequests
  BY <1>1, <1>3 DEF DocumentsRequests, DocumentsAsk
<1> QED
  BY <1>1, <1>3, <1>4 DEF q

\* A request that is not for the lists was served, or any one failed.
LEMMA HalfServed ==
  ASSUME NEW fs \in Seq(DocumentsAll), NEW i \in DOMAIN fs,
         NEW outcome \in {"ok", "refused", "throws"}, fs[i].op # "lists" \/ outcome = "throws",
         NEW list, NEW now, NEW shown, NEW stale,
         HalfTracks(fs, list, now, shown, stale),
         fs[i].op \in DocumentsChanges => outcome # "refused" \/ fs[i].outcome = "none"
  PROVE  HalfTracks(F!Served(fs, i, outcome, {}), list, now, shown, stale)
<1> DEFINE gs == F!Served(fs, i, outcome, {})
           h == Half(fs, list)
           k == Half(gs, list)
<1>1. /\ DOMAIN gs = DOMAIN fs /\ \A j \in DOMAIN fs \ {i} : gs[j] = fs[j]
      /\ gs[i].op = fs[i].op /\ gs[i].arg = fs[i].arg /\ gs[i].late = fs[i].late
      /\ gs[i].outcome = outcome /\ gs \in Seq(DocumentsAll)
  BY ServedFacts, DocumentsClosed DEF DocumentsAll, F!Outcomes
<1> HIDE DEF gs
<1>2. /\ DOMAIN h = DOMAIN fs /\ DOMAIN k = DOMAIN fs
      /\ \A j \in DOMAIN fs : h[j] = Side(fs[j], list) /\ k[j] = Side(gs[j], list)
  BY <1>1, HalfFacts
<1> HIDE DEF h, k
<1>3. fs[i] \in DocumentsAll /\ gs[i] \in DocumentsAll
  BY <1>1
<1>4. /\ h[i].op = fs[i].op /\ h[i].arg = fs[i].arg /\ h[i].late = fs[i].late
      /\ fs[i].op # "lists" => h[i].outcome = fs[i].outcome
  BY <1>2, <1>3, SideFacts
<1>5. /\ k[i].op = fs[i].op /\ k[i].arg = fs[i].arg /\ k[i].late = fs[i].late
      /\ k[i].outcome = outcome
  <2>1. k[i] = Side(gs[i], list)
    BY <1>2
  <2>2. gs[i].op # "lists" \/ gs[i].outcome \notin {"none", "ok"}
    BY <1>1
  <2>3. k[i] = gs[i]
    BY <1>3, <2>1, <2>2, SideFacts
  <2> QED
    BY <1>1, <2>3
<1>6. \A j \in DOMAIN fs \ {i} : k[j] = h[j]
  BY <1>1, <1>2
<1>7. "lists" \notin DocumentsChanges
  BY DEF DocumentsChanges
<1>8. Tracks(h, "lists", DocumentsChanges, Now(None, now), None, shown, stale)
  BY DEF HalfTracks, h
<1>9. Tracks(k, "lists", DocumentsChanges, Now(None, now), None, shown, stale)
  BY <1>2, <1>4, <1>5, <1>6, <1>7, <1>8, TracksServed
<1> QED
  BY <1>9 DEF HalfTracks, k, gs

\* One half of the lists was served: it is what cityhall has now; the other half is as it was.
LEMMA HalfListed ==
  ASSUME NEW fs \in Seq(DocumentsAll), NEW i \in DOMAIN fs,
         fs[i].op = "lists", fs[i].arg = None, fs[i].outcome = "none",
         NEW outcome \in {"none", "ok"}, NEW data \in DocumentsData,
         NEW list, NEW now, NEW shown, NEW stale, HalfTracks(fs, list, now, shown, stale),
         data[list] = now \/ data[list] = fs[i].data[list]
  PROVE  HalfTracks(F!Served(fs, i, outcome, data), list, now, shown, stale)
<1> DEFINE gs == F!Served(fs, i, outcome, data)
           h == Half(fs, list)
           k == Half(gs, list)
<1>1. /\ DOMAIN gs = DOMAIN fs /\ \A j \in DOMAIN fs \ {i} : gs[j] = fs[j]
      /\ gs[i].op = fs[i].op /\ gs[i].arg = fs[i].arg /\ gs[i].late = fs[i].late
      /\ gs[i].outcome = outcome /\ gs[i].data = data /\ gs \in Seq(DocumentsAll)
  BY ServedFacts DEF DocumentsAll, F!Outcomes
<1> HIDE DEF gs
<1>2. /\ DOMAIN h = DOMAIN fs /\ DOMAIN k = DOMAIN fs
      /\ \A j \in DOMAIN fs : h[j] = Side(fs[j], list) /\ k[j] = Side(gs[j], list)
  BY <1>1, HalfFacts
<1>3. fs[i] \in DocumentsAll /\ gs[i] \in DocumentsAll
  BY <1>1
<1>4. CASE data[list] = fs[i].data[list]
  <2> DEFINE o == IF data[list] = None THEN "none" ELSE "ok"
             d == data[list]
  <2>1. Side(fs[i], list) = [fs[i] EXCEPT !.outcome = o, !.data = d]
    BY <1>4 DEF Side
  <2>2. Side(gs[i], list) = [gs[i] EXCEPT !.outcome = o, !.data = d]
    BY <1>1 DEF Side
  <2> HIDE DEF o, d
  <2>3. [fs[i] EXCEPT !.outcome = o, !.data = d] = [gs[i] EXCEPT !.outcome = o, !.data = d]
    BY <1>1, <1>3 DEF DocumentsAll, Requests
  <2>4. \A j \in DOMAIN fs : Side(gs[j], list) = Side(fs[j], list)
    BY <1>1, <2>1, <2>2, <2>3
  <2>5. Half(gs, list) = Half(fs, list)
    BY <1>1, <2>4 DEF Half
  <2> QED
    BY <2>5 DEF HalfTracks, gs
<1>5. CASE data[list] = now
  <2> HIDE DEF h, k
  <2>1. /\ h[i].op = "lists" /\ h[i].arg = None /\ h[i].late = fs[i].late
        /\ k[i].op = "lists" /\ k[i].arg = None /\ k[i].late = fs[i].late
        /\ k[i].data = now
    BY <1>1, <1>2, <1>3, <1>5, SideFacts
  <2>2. \A j \in DOMAIN fs \ {i} : k[j] = h[j]
    BY <1>1, <1>2
  <2>3. "lists" \notin DocumentsChanges
    BY DEF DocumentsChanges
  <2>4. Now(None, now)[None] = now
    BY NowIs, Zenon
  <2>5. Tracks(h, "lists", DocumentsChanges, Now(None, now), None, shown, stale)
    BY DEF HalfTracks, h
  <2>6. Tracks(k, "lists", DocumentsChanges, Now(None, now), None, shown, stale)
    BY <1>2, <2>1, <2>2, <2>3, <2>4, <2>5, TracksServed
  <2> QED
    BY <2>6 DEF HalfTracks, k, gs
<1> QED
  BY <1>4, <1>5

\* A request was handled.
LEMMA HalfHandled ==
  ASSUME NEW fs \in Seq(DocumentsAll), NEW i \in DOMAIN fs, NEW list, NEW now, NEW shown,
         NEW stale, NEW after, NEW missing, HalfTracks(fs, list, now, shown, stale),
         fs[i].op = "lists" =>
           \/ "lists" \in missing
           \/ /\ fs[i].outcome = "ok" /\ ~fs[i].late /\ fs[i].data[list] # None
              /\ fs[i].arg = None /\ after = fs[i].data[list],
         fs[i].op # "lists" => after = shown /\ missing = stale,
         fs[i].op \in DocumentsChanges => fs[i].outcome \notin {"ok", "throws"}
  PROVE  HalfTracks(F!Handled(fs, i), list, now, after, missing)
<1> DEFINE gs == F!Handled(fs, i)
           h == Half(fs, list)
           k == Half(gs, list)
           m == Len(fs)
<1>1. m \in Nat /\ DOMAIN fs = 1..m /\ i \in 1..m
  OBVIOUS
<1>2. fs \in Seq(Requests(DocumentsOps, DocumentsArgs, DocumentsData))
  BY DEF DocumentsAll
<1>3. gs \in Seq(DocumentsAll) /\ DOMAIN gs = 1..(m - 1)
  BY <1>2, HandledFacts DEF DocumentsAll
<1>4. ASSUME NEW l \in 1..(m - 1)
      PROVE  /\ Skip(i, l) \in DOMAIN fs \ {i}
             /\ Alike(gs[l], fs[Skip(i, l)])
             /\ fs[Skip(i, l)].late => gs[l].late
             /\ Skip(i, l) < i /\ fs[Skip(i, l)].op = fs[i].op => gs[l].late
  BY <1>2, HandledFacts
<1> HIDE DEF gs, m
<1>5. /\ DOMAIN h = 1..m /\ DOMAIN k = 1..(m - 1)
      /\ \A j \in DOMAIN fs : h[j] = Side(fs[j], list)
      /\ \A l \in 1..(m - 1) : k[l] = Side(gs[l], list)
  BY <1>1, <1>3, HalfFacts
<1> HIDE DEF h, k
<1>6. \A j \in DOMAIN fs : h[j].op = fs[j].op /\ h[j].late = fs[j].late /\ h[j].arg = fs[j].arg
  BY <1>5, SideFacts
<1>7. ASSUME NEW l \in 1..(m - 1)
      PROVE  /\ Skip(i, l) \in DOMAIN h \ {i}
             /\ Alike(k[l], h[Skip(i, l)])
             /\ h[Skip(i, l)].late => k[l].late
             /\ Skip(i, l) < i /\ h[Skip(i, l)].op = h[i].op => k[l].late
  <2> DEFINE j == Skip(i, l)
  <2>1. j \in DOMAIN fs /\ j # i /\ fs[j] \in DocumentsAll /\ gs[l] \in DocumentsAll
        /\ Alike(gs[l], fs[j])
    BY <1>1, <1>3, <1>4
  <2>2. Alike(k[l], h[j])
    BY <1>5, <2>1, SideAlike
  <2>3. k[l].late = gs[l].late
    BY <1>5, <2>1, SideFacts
  <2> QED
    BY <1>1, <1>4, <1>5, <1>6, <2>1, <2>2, <2>3
<1>8. "lists" \notin DocumentsChanges
  BY DEF DocumentsChanges
<1>9. fs[i].op = "lists" /\ "lists" \notin missing =>
        h[i].outcome = "ok" /\ ~h[i].late /\ h[i].arg = None /\ after = h[i].data
  BY <1>5, <1>6, SideFacts
<1>10. h[i].op \in DocumentsChanges => h[i].outcome \notin {"ok", "throws"}
  <2>1. fs[i].op \in DocumentsChanges => h[i] = fs[i]
    BY <1>5, <1>8, SideFacts
  <2> QED
    BY <1>6, <2>1
<1>11. Tracks(h, "lists", DocumentsChanges, Now(None, now), None, shown, stale)
  BY DEF HalfTracks, h
<1>12. /\ h[i].op = "lists" => \/ "lists" \in missing
                               \/ /\ h[i].outcome = "ok" /\ ~h[i].late
                                  /\ None = h[i].arg /\ after = h[i].data
       /\ h[i].op # "lists" => None = None /\ after = shown /\ ("lists" \in stale => "lists" \in missing)
       /\ m \in Nat /\ DOMAIN h = 1..m /\ i \in 1..m /\ DOMAIN k = 1..(m - 1)
  BY <1>1, <1>5, <1>6, <1>9
<1>13. Tracks(k, "lists", DocumentsChanges, Now(None, now), None, after, missing)
  BY <1>7, <1>8, <1>10, <1>11, <1>12, TracksLoaded
<1> QED
  BY <1>13 DEF HalfTracks, k, gs

\* A commit: what was read of the list before is late, and another load will follow or the page
\* missed it; the other list is as it was.
LEMMA HalfOvertaken ==
  ASSUME NEW fs \in Seq(DocumentsAll), NEW gs \in Seq(DocumentsAll), DOMAIN gs = DOMAIN fs,
         \A j \in DOMAIN fs : Alike(gs[j], fs[j]) /\ (fs[j].late => gs[j].late),
         NEW list, NEW now, NEW next, NEW shown, NEW stale, NEW missing,
         HalfTracks(fs, list, now, shown, stale),
         "lists" \in stale => "lists" \in missing,
         \/ next = now
         \/ /\ \A j \in DOMAIN fs :
                 /\ fs[j].op = "lists" /\ fs[j].outcome \in {"none", "ok"}
                 /\ fs[j].data[list] # None
                 => gs[j].late
            /\ "lists" \in missing \/ F!Reacting(fs, DocumentsChanges)
  PROVE  HalfTracks(gs, list, next, shown, missing)
<1> DEFINE h == Half(fs, list)
           k == Half(gs, list)
<1>1. DOMAIN h = DOMAIN fs /\ DOMAIN k = DOMAIN fs
      /\ \A j \in DOMAIN fs : h[j] = Side(fs[j], list) /\ k[j] = Side(gs[j], list)
  BY HalfFacts
<1>2. \A j \in DOMAIN fs : fs[j] \in DocumentsAll /\ gs[j] \in DocumentsAll
  OBVIOUS
<1> HIDE DEF h, k
<1>3. \A j \in DOMAIN fs : Alike(k[j], h[j]) /\ (h[j].late => k[j].late)
  BY <1>1, <1>2, SideAlike, SideFacts
<1>4. Tracks(h, "lists", DocumentsChanges, Now(None, now), None, shown, stale)
  BY DEF HalfTracks, h
<1>5. Pending(h, DocumentsChanges) => Pending(k, DocumentsChanges)
  BY <1>1, <1>3 DEF Pending, Alike
<1>6. CASE next = now
  <2>1. Sent(h, "lists") => Sent(k, "lists")
    BY <1>1, <1>3 DEF Sent, Alike
  <2>2. ASSUME NEW j \in DOMAIN fs, SentAfter(h, j, "lists")
        PROVE  SentAfter(k, j, "lists")
    BY <1>1, <1>3, <2>2 DEF SentAfter, Alike
  <2>3. ASSUME NEW j \in DOMAIN fs, k[j].op = "lists", k[j].outcome = "ok", ~k[j].late
        PROVE  /\ h[j].op = "lists" /\ h[j].outcome = "ok" /\ ~h[j].late
               /\ k[j].data = h[j].data /\ k[j].arg = h[j].arg
    BY <1>1, <1>3, <2>3 DEF Alike
  <2>4. Tracks(k, "lists", DocumentsChanges, Now(None, now), None, shown, missing)
    BY <1>1, <1>4, <1>5, <2>1, <2>2, <2>3 DEF Tracks, Fresh
  <2> QED
    BY <1>6, <2>4 DEF HalfTracks, k
<1>7. CASE /\ \A j \in DOMAIN fs :
                /\ fs[j].op = "lists" /\ fs[j].outcome \in {"none", "ok"}
                /\ fs[j].data[list] # None
                => gs[j].late
           /\ "lists" \in missing \/ F!Reacting(fs, DocumentsChanges)
  <2>1. F!Reacting(fs, DocumentsChanges) => Pending(k, DocumentsChanges)
    <3>1. ASSUME NEW j \in DOMAIN fs, fs[j].op \in DocumentsChanges, fs[j].outcome \in {"ok", "throws"}
          PROVE  k[j].op \in DocumentsChanges /\ k[j].outcome \in {"ok", "throws"}
      <4>1. fs[j].op # "lists"
        BY <3>1 DEF DocumentsChanges
      <4>2. h[j] = fs[j]
        BY <1>1, <1>2, <4>1, SideFacts
      <4> QED
        BY <1>3, <3>1, <4>2 DEF Alike
    <3> QED
      BY <1>1, <3>1 DEF F!Reacting, Pending
  <2>2. ASSUME NEW j \in DOMAIN fs, k[j].op = "lists", k[j].outcome = "ok"
        PROVE  k[j].late
    <3>1. /\ fs[j].op = "lists" /\ h[j].outcome = "ok" /\ k[j].late = gs[j].late
      BY <1>1, <1>2, <1>3, <2>2, SideFacts DEF Alike
    <3>2. fs[j].outcome \in {"none", "ok"}
      <4>1. fs[j].outcome \notin {"none", "ok"} => h[j] = fs[j]
        BY <1>1, <1>2, SideFacts
      <4> QED
        BY <3>1, <4>1
    <3>3. fs[j].data[list] # None
      BY <1>1, <1>2, <3>1, <3>2, SideFacts
    <3> QED
      BY <1>7, <3>1, <3>2, <3>3
  <2>3. Tracks(k, "lists", DocumentsChanges, Now(None, next), None, shown, missing)
    BY <1>1, <1>7, <2>1, <2>2 DEF Tracks, Fresh
  <2> QED
    BY <2>3 DEF HalfTracks, k
<1> QED
  BY <1>6, <1>7

\* All loads became late.
LEMMA HalfOutdated ==
  ASSUME NEW fs \in Seq(DocumentsAll), \A j \in DOMAIN fs : fs[j].op = "lists" => fs[j].late,
         NEW list, NEW now, NEW shown, NEW stale, "lists" \in stale
  PROVE  HalfTracks(fs, list, now, shown, stale)
<1> DEFINE h == Half(fs, list)
<1>1. DOMAIN h = DOMAIN fs /\ \A j \in DOMAIN fs : h[j] = Side(fs[j], list)
  BY HalfFacts
<1> HIDE DEF h
<1>2. \A j \in DOMAIN h : h[j].op = "lists" => h[j].late
  BY <1>1, SideFacts
<1> QED
  BY <1>2, TracksOutdated DEF HalfTracks, h

\* The user did something on the page.
LEMMA DocumentsShown ==
  ASSUME DocumentsInv, UNCHANGED <<server, flight, past>>, view' \in DocumentsViews,
         view'.docs = view.docs, view'.sigs = view.sigs,
         view'.dialog = "doc" => view'.form.content \in Documents!Contents
  PROVE  DocumentsInv'
  BY DEF DocumentsInv, DocumentsTracks, DocumentsKept

LEMMA DocumentsSent ==
  ASSUME DocumentsInv, NEW q \in DocumentsRequests, q.op \in DocumentsChanges, q.outcome = "none",
         flight' = Append(flight, q), UNCHANGED server,
         past' = [past EXCEPT !.steps = past.steps + 1],
         view' \in DocumentsViews, view'.docs = view.docs, view'.sigs = view.sigs,
         view'.dialog = "doc" => view'.form.content \in Documents!Contents,
         Unsigned(flight) \/ LetterKnown(q, server.sigs)
  PROVE  DocumentsInv'
<1> DEFINE n == Len(flight)
<1>1. flight \in Seq(DocumentsRequests) /\ flight \in Seq(DocumentsAll) /\ q \in DocumentsAll
  BY DocumentsFacts DEF DocumentsInv, DocumentsRequests
<1>2. past' \in DocumentsPasts /\ past'.stale = past.stale
  BY DEF DocumentsInv, DocumentsPasts
<1>3. /\ flight' \in Seq(DocumentsRequests) /\ DOMAIN flight = 1..n /\ DOMAIN flight' = 1..(n + 1)
      /\ \A j \in 1..n : flight'[j] = flight[j]
      /\ flight'[n + 1] = q /\ n \in Nat
  BY <1>1
<1>4. q.op # "lists"
  BY DEF DocumentsChanges
<1>5. DocumentsTracks(flight', server, view, past)
  BY <1>1, <1>4, HalfSent DEF DocumentsInv, DocumentsTracks
<1> HIDE DEF n
<1>6. \A j \in DOMAIN flight' : j \in 1..n \/ j = n + 1
  BY <1>3
<1>7. \A j \in 1..n : j \in DOMAIN flight'
  BY <1>3
<1>8. DocumentsKept(flight', server, view, past)
  <2>1. Unsigned(flight) => Unsigned(flight')
    BY <1>3, <1>7 DEF Unsigned
  <2>2. ListKnown(q, server.sigs)
    BY <1>4 DEF ListKnown
  <2>3. CASE Unsigned(flight)
    BY <2>1, <2>3 DEF DocumentsKept
  <2>4. CASE ~Unsigned(flight)
    <3>1. /\ "lists" \in past.stale \/ Known(view.sigs, server.sigs)
          /\ \A j \in DOMAIN flight :
               ListKnown(flight[j], server.sigs) /\ LetterKnown(flight[j], server.sigs)
      BY <2>4 DEF DocumentsInv, DocumentsKept
    <3>2. \A j \in DOMAIN flight' :
            ListKnown(flight'[j], server.sigs) /\ LetterKnown(flight'[j], server.sigs)
      BY <1>3, <1>6, <2>2, <2>4, <3>1
    <3> QED
      BY <3>1, <3>2 DEF DocumentsKept
  <2> QED
    BY <2>3, <2>4
<1> QED
  BY <1>2, <1>3, <1>5, <1>8 DEF DocumentsInv, DocumentsTracks, DocumentsKept

\* A handler sent its request.
LEMMA DocumentsAsked ==
  ASSUME DocumentsInv, NEW op \in DocumentsChanges, NEW arg \in DocumentsArgs,
         Documents!Ask(op, arg), view' \in DocumentsViews, view'.docs = view.docs,
         view'.sigs = view.sigs, view'.dialog = "doc" => view'.form.content \in Documents!Contents,
         op = "post" => /\ arg \in LetterPosts /\ arg.form.content \in Documents!Contents
                        /\ \/ Unsigned(flight) \/ arg.outdated \/ arg.sig = None
                           \/ HasSig(server.sigs, arg.sig),
         op = "patch" => arg \in Forms /\ arg.content \in Documents!Contents,
         op = "sign" => arg \in BOOLEAN
  PROVE  DocumentsInv'
<1> DEFINE q == F!Request(op, arg)
<1>1. /\ flight' = Append(flight, q) /\ UNCHANGED server
      /\ past' = [past EXCEPT !.steps = past.steps + 1]
  BY DocumentsFetch DEF Documents!Ask
<1>2. op \in DocumentsOps /\ op # "lists"
  BY DEF DocumentsOps, DocumentsChanges
<1>3. /\ q \in DocumentsAll /\ q.op = op /\ q.arg = arg /\ q.outcome = "none"
  BY <1>2 DEF F!Request, DocumentsAll, Requests, DocumentsData, F!Outcomes
<1> HIDE DEF q
<1>4. q \in DocumentsRequests
  BY <1>2, <1>3 DEF DocumentsRequests, DocumentsAsk
<1>5. Unsigned(flight) \/ LetterKnown(q, server.sigs)
  BY <1>3 DEF LetterKnown
<1> QED
  BY <1>1, <1>3, <1>4, <1>5, DocumentsSent

\* The default signature of a list is in it.
LEMMA DefaultFacts ==
  ASSUME NEW sigs \in SUBSET Sigs
  PROVE  /\ Documents!Default(sigs) \in Nat \cup {None}
         /\ Documents!Default(sigs) # None => HasSig(sigs, Documents!Default(sigs))
<1> DEFINE defaults == {s \in sigs : s.default}
           pick == CHOOSE s \in defaults : TRUE
<1>1. Documents!Default(sigs) = IF defaults = {} THEN None ELSE pick.id
  BY DEF Documents!Default
<1>2. CASE defaults = {}
  BY <1>1, <1>2
<1>3. CASE defaults # {}
  <2>1. pick \in defaults
    BY <1>3
  <2>2. pick \in sigs /\ pick.id \in Nat
    BY <2>1 DEF Sigs
  <2> HIDE DEF pick, defaults
  <2>3. Documents!Default(sigs) = pick.id
    BY <1>1, <1>3
  <2> QED
    BY <2>2, <2>3 DEF HasSig
<1> QED
  BY <1>2, <1>3

\* The dialogs.
LEMMA DocumentsDialogs ==
  ASSUME DocumentsInv,
         \/ Documents!OpenNewDoc \/ Documents!OpenNewBlankDoc \/ Documents!OpenSig
         \/ Documents!CloseDialog \/ Documents!Draw \/ Documents!Clear
         \/ \E content \in Documents!Templates : Documents!ApplyTemplate(content)
         \/ \E d \in view.docs : Documents!OpenEditDoc(d)
  PROVE  DocumentsInv'
<1>1. view \in DocumentsViews /\ view.form \in Forms /\ view.form.auto \in BOOLEAN
      /\ view.docs \in SUBSET Letters
  BY DEF DocumentsInv, DocumentsViews, Forms
<1>2. ASSUME NEW dialog \in {None, "template", "doc", "sig"}, NEW form \in Forms,
             dialog = "doc" => form.content \in Documents!Contents,
             Documents!Opening(dialog, form)
      PROVE  DocumentsInv'
  <2>1. view' = [view EXCEPT !.dialog = dialog, !.form = form] /\ UNCHANGED <<server, flight, past>>
    BY <1>2 DEF Documents!Opening
  <2>2. view' \in DocumentsViews
    BY <1>1, <2>1 DEF DocumentsViews
  <2>3. view'.docs = view.docs /\ view'.sigs = view.sigs /\ view'.dialog = dialog /\ view'.form = form
    BY <1>1, <2>1 DEF DocumentsViews
  <2> QED
    BY <1>2, <2>1, <2>2, <2>3, DocumentsShown
<1>3. CASE Documents!OpenNewDoc
  BY <1>1, <1>2, <1>3 DEF Documents!OpenNewDoc
<1>4. CASE Documents!OpenSig
  BY <1>1, <1>2, <1>4 DEF Documents!OpenSig
<1>5. CASE Documents!CloseDialog
  <2> DEFINE form == Documents!NoForm(view.form.auto)
  <2>1. form \in Forms
    BY <1>1 DEF Documents!NoForm, Forms
  <2>2. None # "doc"
    BY DialogAssumption
  <2> HIDE DEF form
  <2> QED
    BY <1>2, <1>5, <2>1, <2>2 DEF Documents!CloseDialog, form
<1>6. ASSUME NEW content \in Documents!Contents,
             Documents!Opening("doc", [view.form EXCEPT !.content = content])
      PROVE  DocumentsInv'
  <2> DEFINE form == [view.form EXCEPT !.content = content]
  <2>1. form \in Forms /\ form.content = content
    BY <1>1 DEF Forms
  <2> HIDE DEF form
  <2> QED
    BY <1>2, <1>6, <2>1 DEF form
<1>7. CASE Documents!OpenNewBlankDoc
  <2>1. {} \in Documents!Contents
    BY DEF Documents!Contents
  <2> QED
    BY <1>6, <1>7, <2>1 DEF Documents!OpenNewBlankDoc
<1>8. ASSUME NEW content \in Documents!Templates, Documents!ApplyTemplate(content)
      PROVE  DocumentsInv'
  <2>1. Documents!FillTemplate(content) \in Documents!Contents
    BY DEF Documents!FillTemplate, Documents!Templates, Documents!Contents
  <2> QED
    BY <1>6, <1>8, <2>1 DEF Documents!ApplyTemplate
<1>9. ASSUME NEW d \in view.docs, Documents!OpenEditDoc(d)
      PROVE  DocumentsInv'
  <2> DEFINE form == [doc |-> d.id, content |-> d.content, auto |-> d.auto]
  <2>1. d \in Letters
    BY <1>1
  <2>2. form \in Forms /\ form.content \in Documents!Contents
    BY <2>1 DEF Forms, Letters
  <2> HIDE DEF form
  <2> QED
    BY <1>2, <1>9, <2>2 DEF Documents!OpenEditDoc, form
<1>10. CASE Documents!Draw \/ Documents!Clear
  <2>1. PICK image \in BOOLEAN :
          view' = [view EXCEPT !.image = image] /\ UNCHANGED <<server, flight, past>>
    BY <1>10 DEF Documents!Draw, Documents!Clear
  <2>2. view' \in DocumentsViews
    BY <1>1, <2>1 DEF DocumentsViews
  <2>3. /\ view'.docs = view.docs /\ view'.sigs = view.sigs /\ view'.dialog = view.dialog
        /\ view'.form = view.form
    BY <1>1, <2>1 DEF DocumentsViews
  <2>4. view'.dialog = "doc" => view'.form.content \in Documents!Contents
    BY <2>3 DEF DocumentsInv
  <2> QED
    BY <2>1, <2>2, <2>3, <2>4, DocumentsShown
<1> QED
  BY <1>3, <1>4, <1>5, <1>7, <1>8, <1>9, <1>10

\* The handlers.
LEMMA DocumentsPage ==
  ASSUME DocumentsInv,
         \/ Documents!SaveSig
         \/ \E d \in view.docs : Documents!DeleteDoc(d) \/ Documents!GenerateDoc(d)
         \/ \E s \in view.sigs : Documents!DeleteSig(s)
         \/ \E auto \in BOOLEAN : Documents!SaveDoc(auto)
  PROVE  DocumentsInv'
<1>1. /\ view \in DocumentsViews /\ view.form \in Forms /\ past \in DocumentsPasts
      /\ view.docs \in SUBSET Letters /\ view.sigs \in SUBSET Sigs
      /\ view.dialog = "doc" => view.form.content \in Documents!Contents
  BY DEF DocumentsInv, DocumentsViews
<1>2. ASSUME NEW op \in {"delete", "generate", "unsign", "sign"}, NEW arg \in Nat \cup BOOLEAN,
             op = "sign" => arg \in BOOLEAN, Documents!Ask(op, arg), UNCHANGED view
      PROVE  DocumentsInv'
  <2>1. op \in DocumentsChanges /\ arg \in DocumentsArgs /\ op # "post" /\ op # "patch"
    BY DEF DocumentsChanges, DocumentsArgs
  <2> QED
    BY <1>1, <1>2, <2>1, DocumentsAsked
<1>3. CASE Documents!SaveSig
  BY <1>2, <1>3 DEF Documents!SaveSig
<1>4. ASSUME NEW d \in view.docs, Documents!DeleteDoc(d) \/ Documents!GenerateDoc(d)
      PROVE  DocumentsInv'
  <2>1. d.id \in Nat
    BY <1>1 DEF Letters
  <2> QED
    BY <1>2, <1>4, <2>1 DEF Documents!DeleteDoc, Documents!GenerateDoc
<1>5. ASSUME NEW s \in view.sigs, Documents!DeleteSig(s)
      PROVE  DocumentsInv'
  <2>1. s.id \in Nat
    BY <1>1 DEF Sigs
  <2> QED
    BY <1>2, <1>5, <2>1 DEF Documents!DeleteSig
<1>6. ASSUME NEW auto \in BOOLEAN, Documents!SaveDoc(auto)
      PROVE  DocumentsInv'
  <2> DEFINE form == [view.form EXCEPT !.auto = auto]
             sig == Documents!Default(view.sigs)
             outdated == past.stale # {} \/ Documents!InFlight(flight, "unsign")
             post == [form |-> form, sig |-> sig, outdated |-> outdated]
  <2>1. /\ view.dialog = "doc" /\ view' = [view EXCEPT !.form = form]
        /\ Documents!Ask("patch", form) \/ Documents!Ask("post", post)
    BY <1>6 DEF Documents!SaveDoc
  <2>2. form \in Forms /\ form.content = view.form.content
    BY <1>1 DEF Forms
  <2>3. form.content \in Documents!Contents
    BY <1>1, <2>1, <2>2
  <2>4. /\ sig \in Nat \cup {None} /\ (sig # None => HasSig(view.sigs, sig))
        /\ outdated \in BOOLEAN
    BY <1>1, DefaultFacts
  <2>5. ~outdated => Unsigned(flight) \/ Known(view.sigs, server.sigs)
    <3>1. ~outdated => "lists" \notin past.stale
      OBVIOUS
    <3> QED
      BY <3>1 DEF DocumentsInv, DocumentsKept
  <2>6. Unsigned(flight) \/ outdated \/ sig = None \/ HasSig(server.sigs, sig)
    BY <2>4, <2>5 DEF Known, HasSig
  <2> HIDE DEF form, sig, outdated
  <2>7. /\ post \in LetterPosts /\ post.form = form /\ post.sig = sig /\ post.outdated = outdated
    BY <2>2, <2>4 DEF LetterPosts
  <2>8. view' \in DocumentsViews
    BY <1>1, <2>1, <2>2 DEF DocumentsViews
  <2>9. view'.docs = view.docs /\ view'.sigs = view.sigs /\ view'.form = form
    BY <1>1, <2>1 DEF DocumentsViews
  <2>10. /\ {"patch", "post"} \subseteq DocumentsChanges
         /\ form \in DocumentsArgs /\ post \in DocumentsArgs
    BY <2>2, <2>7 DEF DocumentsChanges, DocumentsArgs
  <2> HIDE DEF post
  <2>11. CASE Documents!Ask("patch", form)
    BY <2>2, <2>3, <2>8, <2>9, <2>10, <2>11, DocumentsAsked
  <2>12. CASE Documents!Ask("post", post)
    BY <2>3, <2>6, <2>7, <2>8, <2>9, <2>10, <2>12, DocumentsAsked
  <2> QED
    BY <2>1, <2>11, <2>12
<1> QED
  BY <1>3, <1>4, <1>5, <1>6

\* A request that is not for the lists was served, or any one failed: the lists stay.
LEMMA DocumentsAnswered ==
  ASSUME DocumentsInv, NEW i \in DOMAIN flight, NEW outcome \in {"ok", "refused", "throws"},
         flight' = Documents!Served(flight, i, outcome, {}), UNCHANGED view,
         DocumentsServer(server'), server'.docs = server.docs, server'.sigs = server.sigs,
         past' \in DocumentsPasts, past'.stale = past.stale,
         flight[i].op \in DocumentsChanges \/ outcome = "throws",
         flight[i].outcome = "none" \/ outcome = "throws",
         flight[i].op = "unsign" => outcome # "ok",
         flight[i].op = "post" /\ outcome = "refused" =>
           flight[i].arg.sig # None /\ ~HasSig(server.sigs, flight[i].arg.sig)
  PROVE  DocumentsInv'
<1> DEFINE r == flight[i]
           O == DocumentsOps
           A == DocumentsArgs
           D == DocumentsData
<1>1. /\ flight' = F!Served(flight, i, outcome, {}) /\ outcome \in F!Outcomes
      /\ flight \in Seq(DocumentsAll) /\ flight \in Seq(DocumentsRequests)
      /\ DocumentsAsk(r) /\ r \in DocumentsAll
  BY DocumentsFetch, DocumentsFacts DEF F!Outcomes, DocumentsInv
<1>2. Closed(DocumentsRequests, O, A, D) /\ {} \in D /\ "lists" \notin DocumentsChanges
  BY DocumentsClosed DEF DocumentsChanges
<1>3. /\ DOMAIN flight' = DOMAIN flight /\ \A j \in DOMAIN flight \ {i} : flight'[j] = flight[j]
      /\ flight'[i].op = r.op /\ flight'[i].arg = r.arg /\ flight'[i].late = r.late
      /\ flight'[i].outcome = outcome
  BY <1>1, <1>2, ServedFacts DEF DocumentsAll
<1>4. flight' \in Seq(DocumentsRequests)
  <2>1. \A q \in DocumentsAll :
          q.op = r.op /\ q.arg = r.arg /\ q.outcome = outcome => q \in DocumentsRequests
    BY <1>1, <1>2 DEF DocumentsRequests, DocumentsAsk
  <2> HIDE DEF r, O, A, D
  <2> QED
    BY <1>1, <1>2, <2>1, ServedIn DEF DocumentsAll, r, O, A, D
<1>5. DocumentsTracks(flight', server', view, past)
  <2>1. /\ HalfTracks(flight, "docs", server.docs, view.docs, past.stale)
        /\ HalfTracks(flight, "sigs", server.sigs, view.sigs, past.stale)
    BY DEF DocumentsInv, DocumentsTracks
  <2>2. /\ r.op # "lists" \/ outcome = "throws"
        /\ r.op \in DocumentsChanges => outcome # "refused" \/ r.outcome = "none"
    BY <1>2
  <2> HIDE DEF r
  <2>3. HalfTracks(flight', "docs", server.docs, view.docs, past.stale)
    BY <1>1, <2>1, <2>2, HalfServed DEF r
  <2>4. HalfTracks(flight', "sigs", server.sigs, view.sigs, past.stale)
    BY <1>1, <2>1, <2>2, HalfServed DEF r
  <2> QED
    BY <2>3, <2>4 DEF DocumentsTracks
<1>6. DocumentsKept(flight', server', view, past)
  <2>1. Unsigned(flight) => Unsigned(flight')
    <3>1. ASSUME NEW j \in DOMAIN flight, flight[j].op = "unsign", flight[j].outcome = "throws"
          PROVE  flight'[j].op = "unsign" /\ flight'[j].outcome = "throws"
      BY <1>3, <3>1
    <3> QED
      BY <1>3, <3>1 DEF Unsigned
  <2>2. CASE ~Unsigned(flight')
    <3>1. /\ "lists" \in past.stale \/ Known(view.sigs, server.sigs)
          /\ \A j \in DOMAIN flight :
               ListKnown(flight[j], server.sigs) /\ LetterKnown(flight[j], server.sigs)
      BY <2>1, <2>2 DEF DocumentsInv, DocumentsKept
    <3>2. ListKnown(flight'[i], server'.sigs)
      BY <1>2, <1>3 DEF ListKnown
    <3>3. LetterKnown(flight'[i], server'.sigs)
      <4> SUFFICES ASSUME r.op = "post", ~r.late, ~r.arg.outdated
                   PROVE  outcome # "refused" /\ outcome # "none"
        BY <1>3 DEF LetterKnown
      <4>1. LetterKnown(r, server.sigs)
        BY <3>1
      <4> QED
        BY <4>1 DEF LetterKnown
    <3> QED
      BY <1>3, <3>1, <3>2, <3>3 DEF DocumentsKept
  <2> QED
    BY <2>2 DEF DocumentsKept
<1> QED
  BY <1>4, <1>5, <1>6 DEF DocumentsInv, DocumentsTracks, DocumentsKept

\* One half of the lists was served.
LEMMA DocumentsListed ==
  ASSUME DocumentsInv, NEW i \in DOMAIN flight, NEW list \in {"docs", "sigs"},
         Documents!ServeList(i, list)
  PROVE  DocumentsInv'
<1> DEFINE r == flight[i]
           data == [r.data EXCEPT ![list] = server[list]]
           outcome == IF data.docs # None /\ data.sigs # None THEN "ok" ELSE "none"
<1>1. /\ flight' = F!Served(flight, i, outcome, data) /\ r.op = "lists" /\ r.outcome = "none"
      /\ UNCHANGED <<server, view, past>>
  BY DocumentsFetch DEF Documents!ServeList, Documents!Waiting
<1>2. /\ flight \in Seq(DocumentsAll) /\ flight \in Seq(DocumentsRequests)
      /\ DocumentsAsk(r) /\ r \in DocumentsAll /\ DocumentsServer(server)
  BY DocumentsFacts DEF DocumentsInv
<1>3. r.data \in Lists /\ r.arg = None
  BY <1>1, <1>2 DEF DocumentsAsk
<1>4. /\ data \in Lists
      /\ \/ data.docs = server.docs /\ data.sigs = r.data.sigs
         \/ data.sigs = server.sigs /\ data.docs = r.data.docs
  <2>1. server.docs \in SUBSET Letters /\ server.sigs \in SUBSET Sigs
    BY <1>2 DEF DocumentsServer, DocumentsServers
  <2>2. CASE list = "docs"
    <3>1. data = [r.data EXCEPT !.docs = server.docs]
      BY <2>2
    <3> QED
      BY <1>3, <2>1, <3>1 DEF Lists
  <2>3. CASE list = "sigs"
    <3>1. data = [r.data EXCEPT !.sigs = server.sigs]
      BY <2>3
    <3> QED
      BY <1>3, <2>1, <3>1 DEF Lists
  <2> QED
    BY <2>2, <2>3
<1>5. /\ outcome \in {"none", "ok"} /\ data \in DocumentsData
      /\ outcome = "ok" => data.docs # None /\ data.sigs # None
  BY <1>4 DEF DocumentsData
<1> HIDE DEF outcome, data
<1>6. Closed(DocumentsRequests, DocumentsOps, DocumentsArgs, DocumentsData)
  BY DocumentsClosed
<1>7. /\ DOMAIN flight' = DOMAIN flight /\ \A j \in DOMAIN flight \ {i} : flight'[j] = flight[j]
      /\ flight'[i].op = "lists" /\ flight'[i].arg = None /\ flight'[i].late = r.late
      /\ flight'[i].outcome = outcome /\ flight'[i].data = data
  BY <1>1, <1>2, <1>3, <1>5, ServedFacts DEF DocumentsAll, F!Outcomes
<1>8. flight' \in Seq(DocumentsRequests)
  <2>1. \A q \in DocumentsAll :
          q.op = "lists" /\ q.arg = None /\ q.outcome = outcome /\ q.data = data =>
            q \in DocumentsRequests
    BY <1>4, <1>5 DEF DocumentsRequests, DocumentsAsk, DocumentsChanges
  <2>2. outcome \in F!Outcomes
    BY <1>5 DEF F!Outcomes
  <2> QED
    BY <1>1, <1>2, <1>3, <1>5, <1>6, <2>1, <2>2, ServedIn DEF DocumentsAll
<1>9. DocumentsTracks(flight', server, view, past)
  <2>1. /\ HalfTracks(flight, "docs", server.docs, view.docs, past.stale)
        /\ HalfTracks(flight, "sigs", server.sigs, view.sigs, past.stale)
    BY DEF DocumentsInv, DocumentsTracks
  <2>2. /\ data["docs"] = server.docs \/ data["docs"] = r.data["docs"]
        /\ data["sigs"] = server.sigs \/ data["sigs"] = r.data["sigs"]
    BY <1>4
  <2>3. HalfTracks(flight', "docs", server.docs, view.docs, past.stale)
    BY <1>1, <1>2, <1>3, <1>5, <2>1, <2>2, HalfListed
  <2>4. HalfTracks(flight', "sigs", server.sigs, view.sigs, past.stale)
    BY <1>1, <1>2, <1>3, <1>5, <2>1, <2>2, HalfListed
  <2> QED
    BY <2>3, <2>4 DEF DocumentsTracks
<1>10. DocumentsKept(flight', server, view, past)
  <2>1. Unsigned(flight) => Unsigned(flight')
    <3>1. ASSUME NEW j \in DOMAIN flight, flight[j].op = "unsign", flight[j].outcome = "throws"
          PROVE  flight'[j].op = "unsign" /\ flight'[j].outcome = "throws"
      BY <1>1, <1>7, <3>1
    <3> QED
      BY <1>7, <3>1 DEF Unsigned
  <2>2. CASE ~Unsigned(flight)
    <3>1. /\ "lists" \in past.stale \/ Known(view.sigs, server.sigs)
          /\ \A j \in DOMAIN flight :
               ListKnown(flight[j], server.sigs) /\ LetterKnown(flight[j], server.sigs)
      BY <2>2 DEF DocumentsInv, DocumentsKept
    <3>2. Known(server.sigs, server.sigs)
      BY DEF Known, HasSig
    <3>3. ListKnown(flight'[i], server.sigs)
      <4>1. ListKnown(r, server.sigs)
        BY <3>1
      <4> QED
        BY <1>1, <1>4, <1>7, <3>2, <4>1 DEF ListKnown
    <3>4. LetterKnown(flight'[i], server.sigs)
      BY <1>7 DEF LetterKnown
    <3> QED
      BY <1>7, <3>1, <3>3, <3>4 DEF DocumentsKept
  <2> QED
    BY <2>1, <2>2 DEF DocumentsKept
<1> QED
  BY <1>1, <1>8, <1>9, <1>10 DEF DocumentsInv, DocumentsTracks, DocumentsKept

\* A handler makes a statement, if it makes one.
Stating(changes, s) ==
  \/ changes = {}
  \/ \E change \in DocumentsOpen :
       /\ changes = {change} /\ ChangeFits(change, s)
       /\ Deletes(change) =>
            /\ \A d \in s.docs : d.sig \notin change.ids
            /\ \A other \in s.open : other.list = "docs" =>
                 \A d \in other.rows : d.sig \notin change.ids

\* The lists stay until the statement is committed.
LEMMA DocumentsStated ==
  ASSUME DocumentsServer(server), NEW changes, Stating(changes, server), NEW next \in Nat, NEW s,
         s = [server EXCEPT !.open = server.open \cup changes, !.next = next]
  PROVE  DocumentsServer(s) /\ s.docs = server.docs /\ s.sigs = server.sigs
<1>1. /\ server \in DocumentsServers /\ \A d \in server.docs : Sound(d, server)
      /\ \A change \in server.open : ChangeFits(change, server)
  BY DEF DocumentsServer
<1> DEFINE open == server.open \cup changes
<1>2. open \in SUBSET DocumentsOpen
  BY <1>1 DEF DocumentsServers, Stating
<1> HIDE DEF open
<1>3. /\ s \in DocumentsServers /\ s.docs = server.docs /\ s.sigs = server.sigs
      /\ s.open = open
  BY <1>1, <1>2 DEF DocumentsServers, open
<1>4. ASSUME NEW d, Sound(d, server), \A change \in changes : Deletes(change) => d.sig \notin change.ids
      PROVE  Sound(d, s)
  BY <1>3, <1>4 DEF Sound, open
<1>5. \A d \in s.docs : Sound(d, s)
  BY <1>1, <1>3, <1>4 DEF Stating
<1>6. ASSUME NEW change \in server.open
      PROVE  ChangeFits(change, s)
  BY <1>1, <1>4, <1>6 DEF ChangeFits, Stating
<1>7. ASSUME NEW change \in changes
      PROVE  ChangeFits(change, s)
  <2>1. change.list = "docs" => \A other \in changes : ~Deletes(other)
    BY DEF Deletes, Stating
  <2> QED
    BY <1>4, <1>7, <2>1 DEF ChangeFits, Stating
<1> QED
  BY <1>3, <1>5, <1>6, <1>7 DEF DocumentsServer, open

\* A request for a change was answered, maybe with a statement.
LEMMA DocumentsReplied ==
  ASSUME DocumentsInv, NEW i \in DOMAIN flight, NEW outcome \in {"ok", "refused", "throws"},
         NEW changes, Stating(changes, server),
         \/ Documents!Answer(i, outcome, changes)
         \/ /\ flight' = Documents!Served(flight, i, outcome, {}) /\ UNCHANGED <<view, past>>
            /\ server' = [server EXCEPT !.open = server.open \cup changes, !.next = server.next + 1],
         flight[i].op \in DocumentsChanges, flight[i].outcome = "none",
         flight[i].op = "unsign" => outcome # "ok",
         flight[i].op = "post" /\ outcome = "refused" =>
           flight[i].arg.sig # None /\ ~HasSig(server.sigs, flight[i].arg.sig)
  PROVE  DocumentsInv'
<1>1. DocumentsServer(server) /\ server \in DocumentsServers /\ past \in DocumentsPasts
  BY DEF DocumentsInv, DocumentsServer
<1>2. flight' = Documents!Served(flight, i, outcome, {}) /\ UNCHANGED <<view, past>>
  BY DEF Documents!Answer
<1>3. PICK next \in Nat :
        server' = [server EXCEPT !.open = server.open \cup changes, !.next = next]
  <2>1. server.next \in Nat /\ server.next + 1 \in Nat
    BY <1>1 DEF DocumentsServers
  <2>2. CASE Documents!Answer(i, outcome, changes)
    <3>1. server' = [server EXCEPT !.open = server.open \cup changes]
      BY <2>2 DEF Documents!Answer
    <3>2. server' = [server EXCEPT !.open = server.open \cup changes, !.next = server.next]
      BY <1>1, <3>1 DEF DocumentsServers
    <3> QED
      BY <2>1, <3>2
  <2> QED
    BY <2>1, <2>2
<1>4. DocumentsServer(server') /\ server'.docs = server.docs /\ server'.sigs = server.sigs
  <2>1. Stating(changes, server)
    OBVIOUS
  <2> DEFINE s == [server EXCEPT !.open = server.open \cup changes, !.next = next]
  <2>2. s = [server EXCEPT !.open = server.open \cup changes, !.next = next]
    OBVIOUS
  <2>3. server' = s
    BY <1>3
  <2> HIDE DEF s
  <2>4. DocumentsServer(s) /\ s.docs = server.docs /\ s.sigs = server.sigs
    BY ONLY <1>1, <2>1, <2>2, DocumentsStated
  <2> QED
    BY ONLY <2>3, <2>4
<1>5. past' \in DocumentsPasts /\ past'.stale = past.stale /\ UNCHANGED view
  BY <1>1, <1>2
<1>6. /\ flight[i].op \in DocumentsChanges \/ outcome = "throws"
      /\ flight[i].outcome = "none" \/ outcome = "throws"
  OBVIOUS
<1> QED
  BY <1>2, <1>4, <1>5, <1>6, DocumentsAnswered

\* The letter with an id is set to something else with the same signature, or deleted.
LEMMA DocumentsChanging ==
  ASSUME DocumentsInv, NEW i \in DOMAIN flight, NEW id, NEW outcome \in {"ok", "throws"},
         NEW docs \in SUBSET Letters,
         \A e \in docs : \E d \in Documents!Doc(id) : e.sig = d.sig,
         Documents!Changing(i, id, outcome, docs),
         flight[i].op \in DocumentsChanges \ {"post", "unsign"}, flight[i].outcome = "none"
  PROVE  DocumentsInv'
<1>1. DocumentsServer(server) /\ server \in DocumentsServers
      /\ \A d \in server.docs : Sound(d, server)
  BY DEF DocumentsInv, DocumentsServer
<1>2. CASE docs = Documents!Doc(id)
  <2> DEFINE answer == IF docs = {} THEN "refused" ELSE outcome
  <2>1. Documents!Answer(i, answer, {}) /\ answer \in {"ok", "refused", "throws"}
    BY <1>2 DEF Documents!Changing
  <2>2. Stating({}, server)
    BY DEF Stating
  <2> HIDE DEF answer
  <2> QED
    BY <2>1, <2>2, DocumentsReplied
<1>3. CASE docs # Documents!Doc(id)
  <2> DEFINE change == Documents!Change("docs", {id}, docs)
  <2>1. Documents!Answer(i, outcome, {change})
    BY <1>3 DEF Documents!Changing
  <2>2. change.list = "docs" /\ change.ids = {id} /\ change.rows = docs
    BY DEF Documents!Change
  <2>3. id \in Nat
    <3>1. \E d \in server.docs : d.id = id
      BY <1>3 DEF Documents!Doc
    <3> QED
      BY <1>1, <3>1 DEF DocumentsServers, Letters
  <2>4. change \in DocumentsOpen
    BY <2>3 DEF DocumentsOpen, Documents!Change
  <2> HIDE DEF change
  <2>5. \A e \in docs : Sound(e, server)
    BY <1>1 DEF Sound, Documents!Doc
  <2>6. Stating({change}, server)
    BY <2>2, <2>4, <2>5 DEF Stating, ChangeFits, Deletes
  <2> QED
    BY <2>1, <2>6, DocumentsReplied
<1> QED
  BY <1>2, <1>3

\* Serving a request about letters.
LEMMA DocumentsLetters ==
  ASSUME DocumentsInv, NEW i \in DOMAIN flight,
         \/ Documents!ServePost(i) \/ Documents!ServePatch(i)
         \/ Documents!ServeDelete(i) \/ Documents!ServeGenerate(i)
  PROVE  DocumentsInv'
<1> DEFINE r == flight[i]
           sigs == server.sigs
<1>1. /\ DocumentsServer(server) /\ DocumentsAsk(r) /\ server \in DocumentsServers
      /\ server.docs \in SUBSET Letters /\ server.next \in Nat
  BY DocumentsFacts DEF DocumentsInv, DocumentsServer, DocumentsServers
<1>2. \A id : Documents!Doc(id) \in SUBSET Letters
  BY <1>1 DEF Documents!Doc
<1>3. CASE Documents!ServePost(i)
  <2> DEFINE new == [id |-> server.next, content |-> r.arg.form.content, sig |-> r.arg.sig,
                     auto |-> r.arg.form.auto, status |-> "draft"]
             change == Documents!Change("docs", {}, {new})
  <2>1. /\ r.op = "post" /\ r.outcome = "none" /\ r.op \in DocumentsChanges
        /\ r.arg \in LetterPosts /\ r.arg.form.content \in Documents!Contents
        /\ ~Documents!Deleting(r.arg.sig)
    BY <1>1, <1>3 DEF Documents!ServePost, Documents!Waiting, DocumentsAsk, DocumentsChanges
  <2>2. CASE r.arg.sig # None /\ Documents!Sig(r.arg.sig) = {}
    <3>1. Documents!Answer(i, "refused", {})
      BY <1>3, <2>2 DEF Documents!ServePost
    <3>2. ~HasSig(sigs, r.arg.sig)
      BY <2>2 DEF Documents!Sig, HasSig
    <3>3. Stating({}, server)
      BY DEF Stating
    <3> QED
      BY <2>1, <2>2, <3>1, <3>2, <3>3, DocumentsReplied
  <2>3. CASE ~(r.arg.sig # None /\ Documents!Sig(r.arg.sig) = {})
    <3>1. /\ flight' = Documents!Served(flight, i, "ok", {}) /\ UNCHANGED <<view, past>>
          /\ server' = [server EXCEPT !.open = server.open \cup {change}, !.next = server.next + 1]
      BY <1>3, <2>3 DEF Documents!ServePost, Documents!Insert
    <3>2. new \in Letters /\ new.sig = r.arg.sig
      BY <1>1, <2>1 DEF Letters, LetterPosts, Forms
    <3>3. Sound(new, server)
      <4>1. r.arg.sig # None => HasSig(sigs, r.arg.sig)
        BY <2>3 DEF Documents!Sig, HasSig
      <4>2. \A other \in server.open : Deletes(other) => r.arg.sig \notin other.ids
        BY <2>1 DEF Documents!Deleting, Documents!Pending, Deletes
      <4> QED
        BY <3>2, <4>1, <4>2 DEF Sound
    <3> HIDE DEF new
    <3>4. /\ change.list = "docs" /\ change.ids = {} /\ change.rows = {new}
          /\ change \in DocumentsOpen
      BY <3>2 DEF Documents!Change, DocumentsOpen
    <3> HIDE DEF change
    <3>5. Stating({change}, server)
      BY <3>3, <3>4 DEF Stating, ChangeFits, Deletes
    <3> QED
      BY <2>1, <3>1, <3>5, DocumentsReplied
  <2> QED
    BY <2>2, <2>3
<1>4. CASE Documents!ServePatch(i)
  <2> DEFINE form == r.arg
             docs == {Documents!Updated(d, form) : d \in Documents!Doc(form.doc)}
  <2>1. /\ r.op = "patch" /\ r.outcome = "none" /\ r.op \in DocumentsChanges \ {"post", "unsign"}
        /\ form \in Forms /\ form.content \in Documents!Contents
        /\ Documents!Changing(i, form.doc, "ok", docs)
    BY <1>1, <1>4 DEF Documents!ServePatch, Documents!Waiting, DocumentsAsk, DocumentsChanges
  <2>2. \A d \in Letters : Documents!Updated(d, form) \in Letters /\ Documents!Updated(d, form).sig = d.sig
    BY <2>1 DEF Letters, Forms, Documents!Updated
  <2>3. \A e \in docs : e \in Letters /\ \E d \in Documents!Doc(form.doc) : e.sig = d.sig
    BY <1>2, <2>2
  <2> HIDE DEF docs
  <2> QED
    BY <2>1, <2>3, DocumentsChanging
<1>5. CASE Documents!ServeGenerate(i)
  <2> DEFINE id == r.arg
             docs == {Documents!Generated(d) : d \in Documents!Doc(id)}
  <2>1. /\ r.op = "generate" /\ r.outcome = "none"
        /\ r.op \in DocumentsChanges \ {"post", "unsign"}
        /\ Documents!Changing(i, id, "ok", docs)
    BY <1>5 DEF Documents!ServeGenerate, Documents!Waiting, DocumentsChanges
  <2>2. \A d \in Letters : Documents!Generated(d) \in Letters /\ Documents!Generated(d).sig = d.sig
    <3> SUFFICES ASSUME NEW d \in Letters
                 PROVE  Documents!Generated(d) \in Letters /\ Documents!Generated(d).sig = d.sig
      OBVIOUS
    <3> DEFINE status == IF d.auto THEN "sent" ELSE "generated"
               content == d.content \ {"signature"}
    <3>1. Documents!Generated(d) = [d EXCEPT !.content = content, !.status = status]
      BY DEF Documents!Generated
    <3>2. content \in Documents!Contents /\ status \in {"draft", "generated", "sent"}
      BY DEF Letters, Documents!Contents
    <3> HIDE DEF content, status
    <3> QED
      BY <3>1, <3>2 DEF Letters
  <2>3. \A e \in docs : e \in Letters /\ \E d \in Documents!Doc(id) : e.sig = d.sig
    BY <1>2, <2>2
  <2> HIDE DEF docs
  <2> QED
    BY <2>1, <2>3, DocumentsChanging
<1>6. CASE Documents!ServeDelete(i)
  <2>1. /\ r.op = "delete" /\ r.outcome = "none" /\ r.op \in DocumentsChanges \ {"post", "unsign"}
        /\ Documents!Changing(i, r.arg, "throws", {})
    BY <1>6 DEF Documents!ServeDelete, Documents!Waiting, DocumentsChanges
  <2>2. {} \in SUBSET Letters /\ \A e \in {} : \E d \in Documents!Doc(r.arg) : e.sig = d.sig
    OBVIOUS
  <2> QED
    BY <2>1, <2>2, DocumentsChanging
<1> QED
  BY <1>3, <1>4, <1>5, <1>6

\* Serving a request about signatures, and failures.
LEMMA DocumentsSigs ==
  ASSUME DocumentsInv, NEW i \in DOMAIN flight,
         Documents!ServeSign(i) \/ Documents!ServeUnsign(i) \/ Documents!Fail(i)
  PROVE  DocumentsInv'
<1> DEFINE r == flight[i]
<1>1. /\ DocumentsServer(server) /\ past \in DocumentsPasts /\ DocumentsAsk(r)
      /\ server \in DocumentsServers /\ server.sigs \in SUBSET Sigs /\ server.next \in Nat
      /\ server.docs \in SUBSET Letters
  BY DocumentsFacts DEF DocumentsInv, DocumentsServer, DocumentsServers
<1>2. CASE Documents!ServeSign(i)
  <2> DEFINE new == [id |-> server.next, default |-> r.arg]
             found == {s \in server.sigs : r.arg /\ s.default}
             ids == {s.id : s \in found}
             rows == Documents!Demoted(found) \cup {new}
             change == Documents!Change("sigs", ids, rows)
  <2>1. /\ r.op = "sign" /\ r.outcome = "none" /\ r.op \in DocumentsChanges /\ r.op # "post"
        /\ r.op # "unsign" /\ r.arg \in BOOLEAN
    BY <1>1, <1>2 DEF Documents!ServeSign, Documents!Waiting, DocumentsAsk, DocumentsChanges
  <2>2. /\ flight' = Documents!Served(flight, i, "ok", {}) /\ UNCHANGED <<view, past>>
        /\ server' = [server EXCEPT !.open = server.open \cup {change}, !.next = server.next + 1]
    BY <1>2 DEF Documents!ServeSign, Documents!Insert
  <2>3. new \in Sigs
    BY <1>1, <2>1 DEF Sigs
  <2>4. found \in SUBSET Sigs
    BY <1>1
  <2> HIDE DEF new, found
  <2>5. ids \in SUBSET Nat
    BY <2>4 DEF Sigs
  <2>6. /\ rows \in SUBSET Sigs /\ rows # {} /\ \A id \in ids : HasSig(rows, id)
    <3>1. \A s \in Sigs : /\ [s EXCEPT !.default = FALSE] \in Sigs
                          /\ [s EXCEPT !.default = FALSE].id = s.id
      BY DEF Sigs
    <3>2. Documents!Demoted(found) = {[s EXCEPT !.default = FALSE] : s \in found}
      BY DEF Documents!Demoted
    <3>3. \A s \in found : \E g \in rows : g.id = s.id
      BY <2>4, <3>1, <3>2
    <3>4. \A g \in rows : g \in Sigs
      BY <2>3, <2>4, <3>1, <3>2
    <3>5. new \in rows
      OBVIOUS
    <3> HIDE DEF rows
    <3> QED
      BY <3>3, <3>4, <3>5 DEF HasSig
  <2> HIDE DEF ids, rows
  <2>7. /\ change.list = "sigs" /\ change.ids = ids /\ change.rows = rows
        /\ change \in DocumentsOpen
    BY <2>5, <2>6 DEF Documents!Change, DocumentsOpen
  <2> HIDE DEF change
  <2>8. Stating({change}, server)
    BY <2>6, <2>7 DEF Stating, ChangeFits, Deletes
  <2> QED
    BY <2>1, <2>2, <2>8, DocumentsReplied
<1>3. CASE Documents!ServeUnsign(i)
  <2> DEFINE id == r.arg
             change == Documents!Change("sigs", {id}, {})
  <2>1. /\ r.op = "unsign" /\ r.outcome = "none" /\ r.op \in DocumentsChanges /\ r.op # "post"
        /\ Documents!Settled(id)
    BY <1>3 DEF Documents!ServeUnsign, Documents!Waiting, DocumentsChanges
  <2>2. CASE Documents!Answer(i, "refused", {}) \/ Documents!Answer(i, "throws", {})
    <3>1. Stating({}, server)
      BY DEF Stating
    <3> QED
      BY <2>1, <2>2, <3>1, DocumentsReplied
  <2>3. CASE Documents!Answer(i, "throws", {change}) /\ ~Documents!Named(id) /\ Documents!Sig(id) # {}
    <3>1. id \in Nat
      BY <1>1, <2>3 DEF Documents!Sig, Sigs
    <3>2. /\ change.list = "sigs" /\ change.ids = {id} /\ change.rows = {}
          /\ change \in DocumentsOpen
      BY <3>1 DEF Documents!Change, DocumentsOpen
    <3>3. \A d \in server.docs : d.sig \notin {id}
      BY <2>3 DEF Documents!Named
    <3>4. \A other \in server.open : other.list = "docs" => \A d \in other.rows : d.sig \notin {id}
      BY <2>1 DEF Documents!Settled, Documents!Pending
    <3> HIDE DEF change
    <3>5. Stating({change}, server)
      BY <3>2, <3>3, <3>4 DEF Stating, ChangeFits, Deletes
    <3> QED
      BY <2>1, <2>3, <3>5, DocumentsReplied
  <2>4. \/ Documents!Answer(i, "refused", {}) \/ Documents!Answer(i, "throws", {})
        \/ Documents!Answer(i, "throws", {change}) /\ ~Documents!Named(id) /\ Documents!Sig(id) # {}
    BY <1>3 DEF Documents!ServeUnsign
  <2> QED
    BY <2>2, <2>3, <2>4
<1>4. CASE Documents!Fail(i)
  <2>1. /\ flight' = Documents!Served(flight, i, "throws", {}) /\ UNCHANGED <<server, view>>
        /\ past' = [past EXCEPT !.faults = past.faults + 1]
    BY <1>4 DEF Documents!Fail
  <2>2. past' \in DocumentsPasts /\ past'.stale = past.stale
    BY <1>1, <2>1 DEF DocumentsPasts
  <2> QED
    BY <1>1, <2>1, <2>2, DocumentsAnswered
<1> QED
  BY <1>2, <1>3, <1>4

\* A statement was committed: only a deletion takes signatures away.
LEMMA DocumentsCommitted ==
  ASSUME DocumentsServer(server), NEW change \in server.open, NEW s,
         s = Documents!Committed(change)
  PROVE  /\ DocumentsServer(s) /\ change.list \in {"docs", "sigs"}
         /\ change.list = "docs" => s.sigs = server.sigs
         /\ change.list = "sigs" => s.docs = server.docs
         /\ ~Deletes(change) => \A id : HasSig(server.sigs, id) => HasSig(s.sigs, id)
<1>1. /\ server \in DocumentsServers /\ \A d \in server.docs : Sound(d, server)
      /\ \A other \in server.open : ChangeFits(other, server)
      /\ change \in DocumentsOpen /\ change.list \in {"docs", "sigs"}
  BY DEF DocumentsServer, DocumentsServers, DocumentsOpen
<1> DEFINE open == server.open \ {change}
<1>2. open \in SUBSET DocumentsOpen
  BY <1>1 DEF DocumentsServers
<1> HIDE DEF open
<1>3. CASE change.list = "docs"
  <2> DEFINE docs == {row \in server.docs : row.id \notin change.ids} \cup change.rows
  <2>1. docs \in SUBSET Letters
    BY <1>1, <1>3 DEF DocumentsServers, DocumentsOpen
  <2>2. s = [server EXCEPT !.open = open, !.docs = docs]
    BY <1>3 DEF Documents!Committed, open
  <2>3. \A d \in docs : Sound(d, server)
    BY <1>1, <1>3 DEF ChangeFits
  <2> HIDE DEF docs
  <2>4. /\ s \in DocumentsServers /\ s.docs = docs /\ s.sigs = server.sigs /\ s.open = open
    BY <1>1, <1>2, <2>1, <2>2 DEF DocumentsServers
  <2>5. ASSUME NEW d, Sound(d, server)
        PROVE  Sound(d, s)
    BY <2>4, <2>5 DEF Sound, open
  <2>6. \A other \in open : ChangeFits(other, s)
    BY <1>1, <2>5 DEF ChangeFits, open
  <2> QED
    BY <1>1, <1>3, <2>3, <2>4, <2>5, <2>6 DEF DocumentsServer
<1>4. CASE change.list = "sigs"
  <2> DEFINE sigs == {row \in server.sigs : row.id \notin change.ids} \cup change.rows
  <2>1. sigs \in SUBSET Sigs
    BY <1>1, <1>4 DEF DocumentsServers, DocumentsOpen
  <2>2. s = [server EXCEPT !.open = open, !.sigs = sigs]
    BY <1>4 DEF Documents!Committed, open
  <2>3. ASSUME NEW id, HasSig(server.sigs, id), Deletes(change) => id \notin change.ids
        PROVE  HasSig(sigs, id)
    <3>1. CASE id \in change.ids
      <4>1. HasSig(change.rows, id)
        BY <1>1, <1>4, <2>3, <3>1 DEF ChangeFits
      <4> QED
        BY <4>1 DEF HasSig
    <3>2. CASE id \notin change.ids
      BY <2>3, <3>2 DEF HasSig
    <3> QED
      BY <3>1, <3>2
  <2> HIDE DEF sigs
  <2>4. /\ s \in DocumentsServers /\ s.docs = server.docs /\ s.sigs = sigs /\ s.open = open
    BY <1>1, <1>2, <2>1, <2>2 DEF DocumentsServers
  <2>5. ASSUME NEW d, Sound(d, server)
        PROVE  Sound(d, s)
    BY <2>3, <2>4, <2>5 DEF Sound, open
  <2>6. \A other \in open : ChangeFits(other, s)
    BY <1>1, <2>5 DEF ChangeFits, open
  <2> QED
    BY <1>1, <1>4, <2>3, <2>4, <2>5, <2>6 DEF DocumentsServer
<1> QED
  BY <1>1, <1>3, <1>4

\* After a deletion of a signature either its handler has yet to react, or all is late.
LEMMA DocumentsCommits ==
  ASSUME DocumentsInv, NEW change \in server.open, Documents!Commit(change)
  PROVE  DocumentsInv'
<1> DEFINE Late(r) == Documents!ReadBefore(r, change.list) \/ (Deletes(change) /\ r.op = "post")
           C == IF Deletes(change) THEN {"unsign"} ELSE DocumentsChanges
           stale == F!StaleAfterCommit(past.stale, flight, C, {"lists"})
           h == [j \in DOMAIN flight |-> [flight[j] EXCEPT !.late = flight[j].late \/ Late(flight[j])]]
<1>1. /\ DocumentsServer(server) /\ past \in DocumentsPasts
      /\ flight \in Seq(DocumentsRequests) /\ flight \in Seq(DocumentsAll)
      /\ DocumentsTracks(flight, server, view, past) /\ DocumentsKept(flight, server, view, past)
  BY DocumentsFacts DEF DocumentsInv
<1>2. /\ server' = Documents!Committed(change) /\ UNCHANGED view /\ flight' = h
      /\ past' = [past EXCEPT !.stale = stale]
  BY DocumentsFetch DEF Documents!Commit, Deletes, Documents!Changes, DocumentsChanges
<1>3. /\ DocumentsServer(server') /\ change.list \in {"docs", "sigs"}
      /\ change.list = "docs" => server'.sigs = server.sigs
      /\ change.list = "sigs" => server'.docs = server.docs
      /\ ~Deletes(change) => \A id : HasSig(server.sigs, id) => HasSig(server'.sigs, id)
  BY <1>1, <1>2, DocumentsCommitted
<1>4. /\ stale \in SUBSET {"lists"} /\ ("lists" \in past.stale => "lists" \in stale)
      /\ "lists" \in stale \/ F!Reacting(flight, C)
  BY <1>1 DEF F!StaleAfterCommit, DocumentsPasts
<1>5. F!Reacting(flight, C) => F!Reacting(flight, DocumentsChanges)
  BY DEF F!Reacting, DocumentsChanges
<1> HIDE DEF stale
<1>6. past' \in DocumentsPasts /\ past'.stale = stale
  BY <1>1, <1>2, <1>4 DEF DocumentsPasts
<1>7. \A j \in DOMAIN flight : flight[j] \in DocumentsRequests /\ flight[j] \in DocumentsAll
  BY <1>1
<1> HIDE DEF Late
<1>8. \A r \in DocumentsAll : \A late \in BOOLEAN :
        /\ [r EXCEPT !.late = late] \in DocumentsAll
        /\ Alike([r EXCEPT !.late = late], r) /\ ([r EXCEPT !.late = late].late <=> late)
  BY DEF DocumentsAll, Requests, Alike
<1>9. \A r \in DocumentsAll : (r.late \/ Late(r)) \in BOOLEAN
  BY Zenon
<1>10. DOMAIN flight' = DOMAIN flight
       /\ \A j \in DOMAIN flight :
            /\ flight'[j] \in DocumentsAll /\ Alike(flight'[j], flight[j])
            /\ flight'[j].late <=> flight[j].late \/ Late(flight[j])
  <2>1. DOMAIN flight' = DOMAIN flight
    BY <1>2
  <2>2. ASSUME NEW j \in DOMAIN flight
        PROVE  /\ flight'[j] \in DocumentsAll /\ Alike(flight'[j], flight[j])
               /\ flight'[j].late <=> flight[j].late \/ Late(flight[j])
    <3>1. flight'[j] = [flight[j] EXCEPT !.late = flight[j].late \/ Late(flight[j])]
      BY <1>2
    <3>2. flight[j] \in DocumentsAll /\ (flight[j].late \/ Late(flight[j])) \in BOOLEAN
      BY <1>7, <1>9
    <3> QED
      BY ONLY <1>8, <3>1, <3>2
  <2> QED
    BY <2>1, <2>2
<1>11. \A j \in DOMAIN flight : flight'[j] \in DocumentsRequests
  BY <1>7, <1>10, DocumentsClosed DEF Closed, DocumentsAll
<1> HIDE DEF h
<1>12. flight' \in Seq(DocumentsRequests) /\ flight' \in Seq(DocumentsAll)
  <2>1. h = [j \in 1..Len(flight) |-> h[j]] /\ Len(flight) \in Nat /\ DOMAIN flight = 1..Len(flight)
    BY <1>1 DEF h
  <2>2. flight' = [j \in 1..Len(flight) |-> flight'[j]]
    BY <1>2, <2>1
  <2> QED
    BY <1>10, <1>11, <2>1, <2>2
<1>13. \A j \in DOMAIN flight : Alike(flight'[j], flight[j]) /\ (flight[j].late => flight'[j].late)
  BY <1>10
<1>14. ASSUME NEW j \in DOMAIN flight, flight[j].op = "lists", flight[j].outcome \in {"none", "ok"},
              flight[j].data[change.list] # None
       PROVE  flight'[j].late
  BY <1>10, <1>14 DEF Late, Documents!ReadBefore
<1>15. DocumentsTracks(flight', server', view, past')
  <2>1. /\ HalfTracks(flight, "docs", server.docs, view.docs, past.stale)
        /\ HalfTracks(flight, "sigs", server.sigs, view.sigs, past.stale)
    BY <1>1 DEF DocumentsTracks
  <2>2. "lists" \in stale \/ F!Reacting(flight, DocumentsChanges)
    BY <1>4, <1>5
  <2>3. HalfTracks(flight', "docs", server'.docs, view.docs, stale)
    <3>1. \/ server'.docs = server.docs
          \/ /\ \A j \in DOMAIN flight :
                  /\ flight[j].op = "lists" /\ flight[j].outcome \in {"none", "ok"}
                  /\ flight[j].data["docs"] # None
                  => flight'[j].late
             /\ "lists" \in stale \/ F!Reacting(flight, DocumentsChanges)
      BY <1>3, <1>14, <2>2
    <3> QED
      BY <1>1, <1>4, <1>10, <1>12, <1>13, <2>1, <3>1, HalfOvertaken
  <2>4. HalfTracks(flight', "sigs", server'.sigs, view.sigs, stale)
    <3>1. \/ server'.sigs = server.sigs
          \/ /\ \A j \in DOMAIN flight :
                  /\ flight[j].op = "lists" /\ flight[j].outcome \in {"none", "ok"}
                  /\ flight[j].data["sigs"] # None
                  => flight'[j].late
             /\ "lists" \in stale \/ F!Reacting(flight, DocumentsChanges)
      BY <1>3, <1>14, <2>2
    <3> QED
      BY <1>1, <1>4, <1>10, <1>12, <1>13, <2>1, <3>1, HalfOvertaken
  <2> QED
    BY <1>6, <2>3, <2>4 DEF DocumentsTracks
<1>16. DocumentsKept(flight', server', view, past')
  <2>1. Unsigned(flight) => Unsigned(flight')
    BY <1>10 DEF Unsigned, Alike
  <2>2. CASE Deletes(change) /\ ~Unsigned(flight)
    <3>1. \A j \in DOMAIN flight : flight[j].op = "unsign" => flight[j].outcome # "ok"
      BY <1>7 DEF DocumentsRequests, DocumentsAsk
    <3>2. ~F!Reacting(flight, {"unsign"})
      BY <2>2, <3>1 DEF Unsigned, F!Reacting
    <3>3. "lists" \in stale
      BY <1>4, <2>2, <3>2
    <3>4. \A j \in DOMAIN flight : flight[j].op = "post" => flight'[j].late
      BY <1>10, <2>2 DEF Late
    <3>5. \A j \in DOMAIN flight :
            ListKnown(flight'[j], server'.sigs) /\ LetterKnown(flight'[j], server'.sigs)
      BY <1>10, <1>14, <2>2, <3>4 DEF ListKnown, LetterKnown, Alike, Deletes
    <3> QED
      BY <1>6, <1>10, <3>3, <3>5 DEF DocumentsKept
  <2>3. CASE ~Deletes(change) /\ ~Unsigned(flight)
    <3>1. /\ "lists" \in past.stale \/ Known(view.sigs, server.sigs)
          /\ \A j \in DOMAIN flight :
               ListKnown(flight[j], server.sigs) /\ LetterKnown(flight[j], server.sigs)
      BY <1>1, <2>3 DEF DocumentsKept
    <3>2. \A id : HasSig(server.sigs, id) => HasSig(server'.sigs, id)
      BY <1>3, <2>3
    <3>3. \A sigs : Known(sigs, server.sigs) => Known(sigs, server'.sigs)
      BY <3>2 DEF Known
    <3>4. ASSUME NEW j \in DOMAIN flight
          PROVE  ListKnown(flight'[j], server'.sigs) /\ LetterKnown(flight'[j], server'.sigs)
      <4>1. ListKnown(flight[j], server.sigs) /\ LetterKnown(flight[j], server.sigs)
        BY <3>1
      <4>2. Alike(flight'[j], flight[j]) /\ (flight[j].late => flight'[j].late)
        BY <1>13
      <4> QED
        BY <3>2, <3>3, <4>1, <4>2 DEF ListKnown, LetterKnown, Alike
    <3> QED
      BY <1>4, <1>6, <1>10, <3>1, <3>3, <3>4 DEF DocumentsKept
  <2> QED
    BY <2>1, <2>2, <2>3 DEF DocumentsKept
<1> QED
  BY <1>2, <1>3, <1>6, <1>12, <1>15, <1>16 DEF DocumentsInv, DocumentsTracks, DocumentsKept

\* A request was handled; the unsafe ones are in DocumentsContinues.
LEMMA KeptHandled ==
  ASSUME NEW fs \in Seq(DocumentsAll), NEW i \in DOMAIN fs,
         ~(fs[i].op = "unsign" /\ fs[i].outcome = "throws"),
         NEW s, NEW v, NEW w, NEW p, NEW q, DocumentsKept(fs, s, v, p),
         \/ "lists" \in q.stale
         \/ w.sigs = v.sigs /\ q.stale = p.stale
         \/ /\ fs[i].op = "lists" /\ fs[i].outcome = "ok" /\ ~fs[i].late
            /\ fs[i].data.sigs # None /\ w.sigs = fs[i].data.sigs
  PROVE  DocumentsKept(F!Handled(fs, i), s, w, q)
<1> DEFINE gs == F!Handled(fs, i)
           m == Len(fs)
<1>1. m \in Nat /\ DOMAIN fs = 1..m /\ i \in 1..m
  OBVIOUS
<1>2. fs \in Seq(Requests(DocumentsOps, DocumentsArgs, DocumentsData))
  BY DEF DocumentsAll
<1>3. DOMAIN gs = 1..(m - 1)
  BY <1>2, HandledFacts
<1>4. ASSUME NEW k \in 1..(m - 1)
      PROVE  /\ Skip(i, k) \in DOMAIN fs \ {i}
             /\ Alike(gs[k], fs[Skip(i, k)])
             /\ fs[Skip(i, k)].late => gs[k].late
  BY <1>2, HandledFacts
<1> HIDE DEF gs, m
<1>5. CASE Unsigned(fs)
  <2>1. PICK j \in DOMAIN fs : fs[j].op = "unsign" /\ fs[j].outcome = "throws"
    BY <1>5 DEF Unsigned
  <2>2. j \in (1..m) \ {i}
    BY <1>1, <2>1
  <2>3. PICK k \in 1..(m - 1) : Skip(i, k) = j
    BY <1>1, <2>2, SkipOnto
  <2> QED
    BY <1>3, <1>4, <2>1, <2>3 DEF Unsigned, Alike, DocumentsKept, gs
<1>6. CASE ~Unsigned(fs)
  <2>1. /\ "lists" \in p.stale \/ Known(v.sigs, s.sigs)
        /\ \A j \in DOMAIN fs : ListKnown(fs[j], s.sigs) /\ LetterKnown(fs[j], s.sigs)
    BY <1>6 DEF DocumentsKept
  <2>2. ASSUME NEW k \in 1..(m - 1)
        PROVE  ListKnown(gs[k], s.sigs) /\ LetterKnown(gs[k], s.sigs)
    <3> DEFINE j == Skip(i, k)
    <3>1. j \in DOMAIN fs /\ Alike(gs[k], fs[j]) /\ (fs[j].late => gs[k].late)
      BY <1>4
    <3>2. ListKnown(fs[j], s.sigs) /\ LetterKnown(fs[j], s.sigs)
      BY <2>1, <3>1
    <3> HIDE DEF j
    <3> QED
      BY <3>1, <3>2 DEF ListKnown, LetterKnown, Alike
  <2>3. "lists" \in q.stale \/ Known(w.sigs, s.sigs)
    <3>1. ListKnown(fs[i], s.sigs)
      BY <2>1
    <3> QED
      BY <2>1, <3>1 DEF ListKnown
  <2> QED
    BY <1>3, <2>2, <2>3 DEF DocumentsKept, gs
<1> QED
  BY <1>5, <1>6

LEMMA DocumentsLoaded ==
  ASSUME DocumentsInv, NEW i \in DOMAIN flight, Documents!HandleLists(i)
  PROVE  DocumentsInv'
<1> DEFINE r == flight[i]
           stale == Documents!StaleAfterLoad(past.stale, r)
<1>1. /\ view \in DocumentsViews /\ past \in DocumentsPasts /\ DocumentsAsk(r)
      /\ flight \in Seq(DocumentsRequests) /\ flight \in Seq(DocumentsAll)
      /\ DocumentsTracks(flight, server, view, past) /\ DocumentsKept(flight, server, view, past)
  BY DocumentsFacts DEF DocumentsInv
<1>2. /\ r.op = "lists" /\ flight' = F!Handled(flight, i) /\ UNCHANGED server
      /\ view' = IF r.outcome = "ok" THEN [view EXCEPT !.docs = r.data.docs, !.sigs = r.data.sigs]
                 ELSE view
      /\ past' = [past EXCEPT !.stale = stale]
  BY DocumentsFetch DEF Documents!HandleLists, Documents!Answers
<1>3. /\ stale \in SUBSET {"lists"}
      /\ "lists" \in stale \/ (r.outcome = "ok" /\ ~r.late)
  BY <1>1, <1>2 DEF DocumentsPasts, Documents!StaleAfterLoad
<1>4. /\ r.arg = None
      /\ r.outcome = "ok" => /\ r.data.docs # None /\ r.data.sigs # None
                             /\ r.data.docs \in SUBSET Letters /\ r.data.sigs \in SUBSET Sigs
  BY <1>1, <1>2 DEF DocumentsAsk, Lists
<1> HIDE DEF stale
<1>5. flight' \in Seq(DocumentsRequests)
  BY <1>1, <1>2, DocumentsClosed, HandledIn
<1>6. past' \in DocumentsPasts /\ past'.stale = stale
  BY <1>1, <1>2, <1>3 DEF DocumentsPasts
<1> HIDE DEF r
<1>7. /\ view' \in DocumentsViews
      /\ view'.dialog = view.dialog /\ view'.form = view.form
      /\ r.outcome = "ok" => view'.docs = r.data.docs /\ view'.sigs = r.data.sigs
  BY <1>1, <1>2, <1>4 DEF DocumentsViews
<1>8. DocumentsTracks(flight', server, view', past')
  <2>1. /\ r.op = "lists" /\ r.op \notin DocumentsChanges
        /\ "lists" \in stale
           \/ /\ r.outcome = "ok" /\ ~r.late
              /\ r.data["docs"] # None /\ view'.docs = r.data["docs"]
              /\ r.data["sigs"] # None /\ view'.sigs = r.data["sigs"]
    BY <1>2, <1>3, <1>4, <1>7 DEF DocumentsChanges
  <2>2. /\ HalfTracks(flight, "docs", server.docs, view.docs, past.stale)
        /\ HalfTracks(flight, "sigs", server.sigs, view.sigs, past.stale)
    BY <1>1 DEF DocumentsTracks
  <2>3. HalfTracks(flight', "docs", server.docs, view'.docs, stale)
    BY <1>1, <1>2, <1>4, <2>1, <2>2, HalfHandled DEF r
  <2>4. HalfTracks(flight', "sigs", server.sigs, view'.sigs, stale)
    BY <1>1, <1>2, <1>4, <2>1, <2>2, HalfHandled DEF r
  <2> QED
    BY <1>6, <2>3, <2>4 DEF DocumentsTracks
<1>9. DocumentsKept(flight', server, view', past')
  <2>1. ~(r.op = "unsign" /\ r.outcome = "throws")
    BY <1>2
  <2>2. \/ "lists" \in past'.stale
        \/ /\ r.op = "lists" /\ r.outcome = "ok" /\ ~r.late
           /\ r.data.sigs # None /\ view'.sigs = r.data.sigs
    BY <1>2, <1>3, <1>4, <1>6, <1>7
  <2> QED
    BY <1>1, <1>2, <2>1, <2>2, KeptHandled DEF r
<1>10. view'.dialog = "doc" => view'.form.content \in Documents!Contents
  BY <1>7 DEF DocumentsInv
<1> QED
  BY <1>2, <1>5, <1>6, <1>7, <1>8, <1>9, <1>10 DEF DocumentsInv

\* A change was answered: everything is loaded again unless its request threw.
LEMMA DocumentsContinues ==
  ASSUME DocumentsInv, NEW i \in DOMAIN flight,
         Documents!HandleSaveDoc(i) \/ Documents!HandleRow(i) \/ Documents!HandleSaveSig(i)
  PROVE  DocumentsInv'
<1> DEFINE r == flight[i]
           rest == F!Handled(flight, i)
<1>1. /\ view \in DocumentsViews /\ past \in DocumentsPasts
      /\ flight \in Seq(DocumentsRequests) /\ flight \in Seq(DocumentsAll)
      /\ DocumentsTracks(flight, server, view, past) /\ DocumentsKept(flight, server, view, past)
      /\ view.dialog = "doc" => view.form.content \in Documents!Contents
      /\ view.form.auto \in BOOLEAN /\ None # "doc"
  BY DocumentsFacts, DialogAssumption DEF DocumentsInv, DocumentsViews, Forms
<1>2. PICK v : /\ r.op \in DocumentsChanges /\ r.op # "lists" /\ Documents!Continued(i, v)
               /\ \/ v = view
                  \/ v = Documents!Closed("doc")
                  \/ v = [Documents!Closed("sig") EXCEPT !.image = FALSE]
  BY DEF Documents!HandleSaveDoc, Documents!HandleRow, Documents!HandleSaveSig,
         Documents!Answers, DocumentsChanges
<1>3. /\ v \in DocumentsViews /\ v.docs = view.docs /\ v.sigs = view.sigs
      /\ v.dialog = "doc" => v.form.content \in Documents!Contents
  <2> DEFINE form == Documents!NoForm(view.form.auto)
             empty == [view EXCEPT !.dialog = None, !.form = form]
             less(w) == [w EXCEPT !.image = FALSE]
  <2>1. form \in Forms
    BY <1>1 DEF Documents!NoForm, Forms
  <2>2. v \in {view, empty, less(view), less(empty)}
    BY <1>2 DEF Documents!Closed
  <2> HIDE DEF form
  <2>3. empty \in DocumentsViews /\ empty.docs = view.docs /\ empty.sigs = view.sigs /\ empty.dialog = None
    BY <1>1, <2>1 DEF DocumentsViews
  <2> HIDE DEF empty
  <2>4. \A w \in DocumentsViews :
          /\ less(w) \in DocumentsViews /\ less(w).docs = w.docs /\ less(w).sigs = w.sigs
          /\ less(w).dialog = w.dialog /\ less(w).form = w.form
    BY DEF DocumentsViews
  <2> HIDE DEF less
  <2> QED
    BY <1>1, <2>2, <2>3, <2>4
<1>4. /\ view' = (IF r.outcome = "throws" THEN view ELSE v) /\ UNCHANGED server
      /\ r.outcome = "throws" => /\ flight' = F!Outdated(rest, {"lists", "post"})
                                 /\ past' = [past EXCEPT !.stale = past.stale \cup {"lists"}]
      /\ r.outcome # "throws" => /\ flight' = Append(rest, Documents!LoadAll)
                                 /\ past' = [past EXCEPT !.stale = past.stale]
  BY <1>2, DocumentsFetch DEF Documents!Continued, Documents!Reloaded
<1>5. /\ view' \in DocumentsViews /\ view'.docs = view.docs /\ view'.sigs = view.sigs
      /\ view'.dialog = "doc" => view'.form.content \in Documents!Contents
  BY <1>1, <1>3, <1>4
<1>6. Closed(DocumentsRequests, DocumentsOps, DocumentsArgs, DocumentsData)
  BY DocumentsClosed
<1>7. rest \in Seq(DocumentsRequests) /\ rest \in Seq(DocumentsAll)
  <2>1. rest \in Seq(DocumentsAll)
    BY <1>1, HandledFacts DEF DocumentsAll
  <2> QED
    BY <1>1, <1>6, <2>1, HandledIn
<1>8. CASE r.outcome = "throws"
  <2> DEFINE stale == past.stale \cup {"lists"}
             loads == {"lists", "post"}
  <2>1. flight' = F!Outdated(rest, loads) /\ past' = [past EXCEPT !.stale = stale]
    BY <1>4, <1>8
  <2>2. stale \in SUBSET {"lists"} /\ "lists" \in stale /\ "lists" \in loads /\ "post" \in loads
    BY <1>1 DEF DocumentsPasts
  <2> HIDE DEF stale, rest, loads, r
  <2>3. past' \in DocumentsPasts /\ past'.stale = stale
    BY <1>1, <2>1, <2>2 DEF DocumentsPasts
  <2>4. flight' \in Seq(DocumentsRequests)
    BY <1>6, <1>7, <2>1, OutdatedIn
  <2>5. flight' \in Seq(DocumentsAll)
    BY <1>7, <2>1, OutdatedFacts DEF DocumentsAll
  <2>6. \A j \in DOMAIN flight' : flight'[j].op \in {"lists", "post"} => flight'[j].late
    <3>1. rest \in Seq(Requests(DocumentsOps, DocumentsArgs, DocumentsData))
      BY <1>7 DEF DocumentsAll
    <3>2. DOMAIN F!Outdated(rest, loads) = DOMAIN rest
      BY <3>1, OutdatedFacts
    <3>3. ASSUME NEW j \in DOMAIN rest
          PROVE  /\ Alike(F!Outdated(rest, loads)[j], rest[j])
                 /\ rest[j].op \in loads => F!Outdated(rest, loads)[j].late
      BY <3>1, OutdatedFacts
    <3> QED
      BY <2>1, <2>2, <3>2, <3>3 DEF Alike
  <2>7. DocumentsTracks(flight', server, view', past')
    <3>1. \A j \in DOMAIN flight' : flight'[j].op = "lists" => flight'[j].late
      BY <2>6
    <3> QED
      BY <2>2, <2>3, <2>5, <3>1, HalfOutdated DEF DocumentsTracks
  <2>8. DocumentsKept(flight', server, view', past')
    BY <2>2, <2>3, <2>6 DEF DocumentsKept, ListKnown, LetterKnown
  <2> QED
    BY <1>4, <1>5, <2>3, <2>4, <2>7, <2>8 DEF DocumentsInv, DocumentsTracks, DocumentsKept
<1>9. CASE r.outcome # "throws"
  <2> DEFINE q == Documents!LoadAll
             n == Len(rest)
  <2>1. flight' = Append(rest, q) /\ past' = [past EXCEPT !.stale = past.stale]
    BY <1>4, <1>9
  <2>2. past' \in DocumentsPasts /\ past'.stale = past.stale
    BY <1>1, <2>1 DEF DocumentsPasts
  <2>3. /\ q \in DocumentsRequests /\ q \in DocumentsAll /\ q.op = "lists" /\ q.outcome = "none"
        /\ q.data["docs"] = None /\ q.data["sigs"] = None
    BY LoadAllFacts
  <2>4. DocumentsKept(rest, server, view', past')
    BY <1>1, <1>5, <1>9, <2>2, KeptHandled
  <2> HIDE DEF q, rest, n
  <2>5. flight' \in Seq(DocumentsRequests)
    BY <1>7, <2>1, <2>3
  <2>6. DocumentsTracks(flight', server, view', past')
    BY <1>7, <2>1, <2>3, HalfSent DEF DocumentsTracks
  <2>7. /\ n \in Nat /\ DOMAIN rest = 1..n /\ DOMAIN flight' = 1..(n + 1)
        /\ (\A j \in 1..n : flight'[j] = rest[j]) /\ flight'[n + 1] = q
    BY <1>7, <2>1 DEF n
  <2>8. DocumentsKept(flight', server, view', past')
    <3>1. (\A j \in DOMAIN flight' : j \in 1..n \/ j = n + 1) /\ \A j \in 1..n : j \in DOMAIN flight'
      BY <2>7
    <3>2. ListKnown(q, server.sigs) /\ LetterKnown(q, server.sigs)
      BY <2>3 DEF ListKnown, LetterKnown
    <3>3. CASE Unsigned(rest)
      BY <2>7, <3>1, <3>3 DEF Unsigned, DocumentsKept
    <3>4. CASE ~Unsigned(rest)
      <4>1. /\ "lists" \in past'.stale \/ Known(view'.sigs, server.sigs)
            /\ \A j \in 1..n : ListKnown(rest[j], server.sigs) /\ LetterKnown(rest[j], server.sigs)
        BY <2>4, <2>7, <3>4 DEF DocumentsKept
      <4> QED
        BY <2>7, <3>1, <3>2, <4>1 DEF DocumentsKept
    <3> QED
      BY <3>3, <3>4
  <2> QED
    BY <1>4, <1>5, <2>2, <2>5, <2>6, <2>8 DEF DocumentsInv, DocumentsTracks, DocumentsKept
<1> QED
  BY <1>8, <1>9

LEMMA DocumentsInit == ASSUME Documents!Init PROVE DocumentsInv
<1> DEFINE q == Documents!LoadAll
           first == [id |-> 1, default |-> TRUE]
<1>1. /\ server = [docs |-> {}, sigs |-> {first}, open |-> {}, next |-> 2]
      /\ view = [docs |-> {}, sigs |-> {}, dialog |-> None, image |-> FALSE,
                 form |-> Documents!NoForm(FALSE)]
      /\ flight = <<q>>
      /\ past = [stale |-> {}, steps |-> 0, faults |-> 0]
  BY DEF Documents!Init
<1>2. DocumentsServer(server)
  <2>1. first \in Sigs
    BY DEF Sigs
  <2> HIDE DEF first
  <2> QED
    BY <1>1, <2>1 DEF DocumentsServer, DocumentsServers
<1>3. view \in DocumentsViews /\ view.docs = {} /\ view.sigs = {} /\ view.dialog = None
  <2>1. Documents!NoForm(FALSE) \in Forms
    BY DEF Documents!NoForm, Forms
  <2> QED
    BY <1>1, <2>1 DEF DocumentsViews
<1>4. past \in DocumentsPasts
  BY <1>1 DEF DocumentsPasts
<1>5. /\ q \in DocumentsRequests /\ q \in DocumentsAll /\ q.op = "lists" /\ q.outcome = "none"
      /\ q.data["docs"] = None /\ q.data["sigs"] = None
  BY LoadAllFacts
<1> HIDE DEF q
<1>6. /\ flight \in Seq(DocumentsRequests) /\ flight = Append(<<>>, q) /\ <<>> \in Seq(DocumentsAll)
      /\ \A j \in DOMAIN flight : flight[j] = q
  BY <1>1, <1>5
<1>7. DocumentsTracks(flight, server, view, past)
  BY <1>5, <1>6, HalfSent DEF DocumentsTracks
<1>8. DocumentsKept(flight, server, view, past)
  BY <1>3, <1>5, <1>6 DEF DocumentsKept, Known, ListKnown, LetterKnown
<1>9. None # "doc"
  BY DialogAssumption
<1> QED
  BY <1>2, <1>3, <1>4, <1>6, <1>7, <1>8, <1>9 DEF DocumentsInv

LEMMA DocumentsNext ==
  ASSUME DocumentsInv, Documents!Next
  PROVE  DocumentsInv'
  BY DocumentsDialogs, DocumentsPage, DocumentsLetters, DocumentsSigs, DocumentsListed,
     DocumentsCommits, DocumentsLoaded, DocumentsContinues DEF Documents!Next

\* The properties of the page.
LEMMA DocumentsShows ==
  ASSUME DocumentsInv
  PROVE  Documents!TypeOK /\ Documents!ViewConverges /\ Documents!LettersAreKept
<1>1. /\ DocumentsServer(server) /\ view \in DocumentsViews /\ past \in DocumentsPasts
      /\ DocumentsTracks(flight, server, view, past) /\ DocumentsKept(flight, server, view, past)
  BY DEF DocumentsInv
<1>2. Documents!TypeOK
  <2>1. \A i \in DOMAIN flight :
          Documents!IsRequest(flight[i], {"lists"} \cup Documents!Changes)
    BY DocumentsFacts DEF Documents!IsRequest, Documents!Outcomes, F!Outcomes, DocumentsOps,
       DocumentsChanges, Documents!Changes
  <2>2. \A d \in server.docs :
          /\ d.content \in Documents!Contents /\ d.status \in {"draft", "generated", "sent"}
          /\ d.sig # None => Documents!Sig(d.sig) # {}
    BY <1>1 DEF DocumentsServer, DocumentsServers, Sound, Letters, HasSig, Documents!Sig
  <2> QED
    BY <1>1, <2>1, <2>2 DEF Documents!TypeOK, DocumentsViews
<1>3. Documents!ViewConverges
  <2>1. ASSUME flight = <<>>, past.stale = {}
        PROVE  view.docs = server.docs /\ view.sigs = server.sigs
    <3>1. /\ Half(flight, "docs") = <<>> /\ Half(flight, "sigs") = <<>>
      <4>1. \A list : Half(flight, list) = [i \in {} |-> Side(flight[i], list)]
        BY <2>1 DEF Half
      <4> QED
        BY <4>1
    <3>2. Now(None, server.docs)[None] = server.docs /\ Now(None, server.sigs)[None] = server.sigs
      BY NowIs, Zenon
    <3> QED
      BY <1>1, <2>1, <3>1, <3>2, TracksIdle DEF DocumentsTracks, HalfTracks
  <2> QED
    BY <2>1 DEF Documents!ViewConverges
<1>4. Documents!LettersAreKept
  <2> SUFFICES ASSUME NEW i \in DOMAIN flight, flight[i].op = "post", flight[i].outcome = "refused"
               PROVE  flight[i].arg.outdated \/ flight[i].late
                      \/ Documents!Answers(flight, "unsign") # {}
    BY DEF Documents!LettersAreKept, Documents!Answers
  <2>1. CASE Unsigned(flight)
    BY <2>1 DEF Unsigned, Documents!Answers
  <2>2. CASE ~Unsigned(flight)
    <3>1. LetterKnown(flight[i], server.sigs)
      BY <1>1, <2>2 DEF DocumentsKept
    <3> QED
      BY <3>1 DEF LetterKnown
  <2> QED
    BY <2>1, <2>2
<1> QED
  BY <1>2, <1>3, <1>4

-----------------------------------------------------------------------------
(* KeywordsPage: the table of keywords. *)

KeywordsOps == {"keywords", "post", "patch", "delete"}

KeywordsChanges == {"post", "patch", "delete"}

AllRows == [id : Nat, word : Names, active : BOOLEAN]

Switches == [id : Nat, active : BOOLEAN]

KeywordsArgs == {{}} \cup Names \cup Nat \cup Switches

KeywordsData == SUBSET AllRows

KeywordsAll == Requests(KeywordsOps, KeywordsArgs, KeywordsData)

\* Rows with ids that were given out before the next one.
RowsBefore(next) == {row \in AllRows : 1 <= row.id /\ row.id < next}

KeywordsAsk(r, next) ==
  /\ r.op = "keywords" => r.arg = {} /\ (r.outcome = "ok" => r.data \subseteq RowsBefore(next))
  /\ r.op = "post" => r.arg \in Names
  /\ r.op = "patch" => r.arg \in Switches

KeywordsRequests(next) == {r \in KeywordsAll : KeywordsAsk(r, next)}

\* What was changed and is not committed yet: of some ids, to rows with ids given out before.
KeywordsOpen(next) == [ids : SUBSET Nat, rows : SUBSET RowsBefore(next)]

KeywordsServer(s) ==
  /\ s \in [rows : SUBSET AllRows, open : SUBSET KeywordsOpen(s.next), next : Nat] /\ s.next >= 1
  /\ s.rows \subseteq RowsBefore(s.next)

KeywordsViews == [shown : SUBSET AllRows, loading : BOOLEAN, adding : BOOLEAN]

KeywordsPasts == [stale : SUBSET {"keywords"}, steps : Nat, faults : Nat]

KeywordsTracks(fs, s, v, p) ==
  Tracks(fs, "keywords", KeywordsChanges, Now({}, s.rows), {}, v.shown, p.stale)

\* The table says "Loading..." only while it is being loaded.
KeywordsLoads(fs, v, p) == "keywords" \in p.stale \/ ~v.loading \/ Sent(fs, "keywords")

KeywordsInv ==
  /\ KeywordsServer(server) /\ view \in KeywordsViews /\ view.shown \subseteq RowsBefore(server.next)
  /\ past \in KeywordsPasts
  /\ flight \in Seq(KeywordsRequests(server.next))
  /\ KeywordsTracks(flight, server, view, past) /\ KeywordsLoads(flight, view, past)

LEMMA KeywordsFetch ==
  /\ \A fs, i : Keywords!Handled(fs, i) = F!Handled(fs, i)
  /\ \A fs, i, o, d : Keywords!Served(fs, i, o, d) = F!Served(fs, i, o, d)
  /\ \A op, a : Keywords!Request(op, a) = F!Request(op, a)
  /\ \A fs, l : Keywords!Outdated(fs, l) = F!Outdated(fs, l)
  /\ \A fs, l : Keywords!Overtaken(fs, l) = F!Overtaken(fs, l)
  /\ \A st, fs, c, l : Keywords!StaleAfterCommit(st, fs, c, l) = F!StaleAfterCommit(st, fs, c, l)
  BY DEF Keywords!Handled, F!Handled, Keywords!Served, F!Served,
         Keywords!Request, F!Request, Keywords!Outdated, F!Outdated,
         Keywords!Overtaken, F!Overtaken, Keywords!StaleAfterCommit, F!StaleAfterCommit,
         Keywords!Reacting, F!Reacting

LEMMA KeywordsClosed ==
  ASSUME NEW next
  PROVE  /\ Closed(KeywordsRequests(next), KeywordsOps, KeywordsArgs, KeywordsData)
         /\ \A r \in KeywordsRequests(next) :
              /\ r \in KeywordsAll /\ KeywordsAsk(r, next)
              /\ r.op \in KeywordsOps /\ r.outcome \in F!Outcomes /\ r.late \in BOOLEAN
         /\ {} \in KeywordsData /\ {} \in KeywordsArgs
<1>1. \A r \in KeywordsAll : r.op \in KeywordsOps /\ r.outcome \in F!Outcomes /\ r.late \in BOOLEAN
  BY DEF KeywordsAll, Requests
<1>2. \A r \in KeywordsAll, q \in KeywordsRequests(next) :
        Alike(r, q) => r \in KeywordsRequests(next)
  BY DEF KeywordsRequests, KeywordsAsk, Alike
<1> QED
  BY <1>1, <1>2 DEF Closed, KeywordsRequests, KeywordsAll, KeywordsData, KeywordsArgs

\* What holds of the request with number i.
LEMMA KeywordsFacts ==
  ASSUME KeywordsInv
  PROVE  /\ flight \in Seq(KeywordsAll)
         /\ \A i \in DOMAIN flight :
              /\ flight[i] \in KeywordsAll /\ KeywordsAsk(flight[i], server.next)
              /\ flight[i].op \in KeywordsOps /\ flight[i].outcome \in F!Outcomes
              /\ flight[i].late \in BOOLEAN
<1> DEFINE S == KeywordsRequests(server.next)
<1>1. flight \in Seq(S)
  BY DEF KeywordsInv
<1>2. \A r \in S : /\ r \in KeywordsAll /\ KeywordsAsk(r, server.next)
                   /\ r.op \in KeywordsOps /\ r.outcome \in F!Outcomes /\ r.late \in BOOLEAN
  BY KeywordsClosed
<1> HIDE DEF S
<1>3. \A i \in DOMAIN flight : flight[i] \in S
  BY <1>1
<1>4. \A i \in DOMAIN flight : flight[i] \in KeywordsAll
  BY <1>2, <1>3
<1> QED
  BY <1>1, <1>2, <1>3, <1>4, LegalStill

LEMMA KeywordsAsked ==
  ASSUME KeywordsInv, NEW op \in KeywordsOps, NEW arg \in KeywordsArgs, Keywords!Ask(op, arg),
         \A r \in KeywordsAll :
           r.op = op /\ r.arg = arg /\ r.outcome = "none" => KeywordsAsk(r, server.next)
  PROVE  KeywordsInv'
<1> DEFINE S == KeywordsRequests(server.next)
<1>1. /\ flight' = Append(flight, F!Request(op, arg)) /\ UNCHANGED <<server, view>>
      /\ past' = [past EXCEPT !.steps = past.steps + 1]
  BY KeywordsFetch DEF Keywords!Ask
<1>2. past' \in KeywordsPasts /\ past'.stale = past.stale
  BY <1>1 DEF KeywordsInv, KeywordsPasts
<1>3. /\ \A r \in KeywordsAll : r.op = op /\ r.arg = arg /\ r.outcome = "none" => r \in S
      /\ flight \in Seq(S)
  BY DEF KeywordsRequests, KeywordsInv
<1>4. Closed(S, KeywordsOps, KeywordsArgs, KeywordsData) /\ {} \in KeywordsData
  BY KeywordsClosed
<1> HIDE DEF S
<1>5. flight' \in Seq(S)
  BY <1>1, <1>3, <1>4, SentIn DEF KeywordsAll
<1>6. KeywordsTracks(flight', server, view, past)
  BY <1>1, <1>4, SentTracks, KeywordsFacts DEF KeywordsInv, KeywordsTracks, KeywordsAll
<1>7. KeywordsLoads(flight', view, past)
  <2>1. Sent(flight, "keywords") => Sent(flight', "keywords")
    BY <1>1, <1>4, SentFacts, KeywordsFacts DEF KeywordsAll, Sent
  <2> QED
    BY <2>1 DEF KeywordsInv, KeywordsLoads
<1> QED
  BY <1>1, <1>2, <1>5, <1>6, <1>7 DEF KeywordsInv, KeywordsTracks, KeywordsLoads, S

LEMMA KeywordsPage ==
  ASSUME KeywordsInv,
         \/ \E open \in BOOLEAN : Keywords!SetAddOpen(open)
         \/ \E word \in Names : Keywords!AddKeyword(word)
         \/ \E row \in view.shown : Keywords!DeleteKeyword(row) \/ Keywords!ToggleKeyword(row)
  PROVE  KeywordsInv'
<1>1. /\ view \in KeywordsViews
      /\ Names \subseteq KeywordsArgs /\ Nat \subseteq KeywordsArgs /\ Switches \subseteq KeywordsArgs
      /\ {"post", "patch", "delete"} \subseteq KeywordsOps
  BY DEF KeywordsInv, KeywordsArgs, KeywordsOps
<1>2. ASSUME NEW open \in BOOLEAN, Keywords!SetAddOpen(open)
      PROVE  KeywordsInv'
  <2>1. view' = [view EXCEPT !.adding = open] /\ UNCHANGED <<server, flight, past>>
    BY <1>2 DEF Keywords!SetAddOpen
  <2>2. view' \in KeywordsViews /\ view'.shown = view.shown /\ view'.loading = view.loading
    BY <1>1, <2>1 DEF KeywordsViews
  <2> QED
    BY <2>1, <2>2 DEF KeywordsInv, KeywordsTracks, KeywordsLoads
<1>3. ASSUME NEW word \in Names, Keywords!AddKeyword(word)
      PROVE  KeywordsInv'
  <2>1. Keywords!Ask("post", word)
    BY <1>3 DEF Keywords!AddKeyword
  <2>2. \A r \in KeywordsAll :
          r.op = "post" /\ r.arg = word /\ r.outcome = "none" => KeywordsAsk(r, server.next)
    BY DEF KeywordsAsk
  <2> QED
    BY <1>1, <2>1, <2>2, KeywordsAsked
<1>4. ASSUME NEW row \in view.shown, Keywords!DeleteKeyword(row) \/ Keywords!ToggleKeyword(row)
      PROVE  KeywordsInv'
  <2>1. row.id \in Nat /\ row.active \in BOOLEAN
    BY <1>1 DEF KeywordsViews, AllRows
  <2>2. CASE Keywords!DeleteKeyword(row)
    <3>1. Keywords!Ask("delete", row.id)
      BY <2>2 DEF Keywords!DeleteKeyword
    <3>2. \A r \in KeywordsAll :
            r.op = "delete" /\ r.arg = row.id /\ r.outcome = "none" => KeywordsAsk(r, server.next)
      BY DEF KeywordsAsk
    <3> QED
      BY <1>1, <2>1, <3>1, <3>2, KeywordsAsked
  <2>3. CASE Keywords!ToggleKeyword(row)
    <3> DEFINE arg == [id |-> row.id, active |-> ~row.active]
    <3>1. Keywords!Ask("patch", arg) /\ arg \in Switches
      BY <2>1, <2>3 DEF Keywords!ToggleKeyword, Switches
    <3> HIDE DEF arg
    <3>2. \A r \in KeywordsAll :
            r.op = "patch" /\ r.arg = arg /\ r.outcome = "none" => KeywordsAsk(r, server.next)
      BY <3>1 DEF KeywordsAsk
    <3> QED
      BY <1>1, <3>1, <3>2, KeywordsAsked
  <2> QED
    BY <1>4, <2>2, <2>3
<1> QED
  BY <1>2, <1>3, <1>4

\* A request was served, or failed; ids grow.
LEMMA KeywordsAnswered ==
  ASSUME KeywordsInv, NEW i \in DOMAIN flight, NEW outcome \in {"ok", "refused", "throws"},
         NEW data \in KeywordsData, flight' = Keywords!Served(flight, i, outcome, data),
         UNCHANGED view, KeywordsServer(server'), server.next <= server'.next,
         server'.rows = server.rows,
         past' \in KeywordsPasts, past'.stale = past.stale,
         flight[i].op = "keywords" /\ outcome = "ok" => data = server.rows,
         flight[i].op \in KeywordsChanges => outcome # "refused" \/ flight[i].outcome = "none"
  PROVE  KeywordsInv'
<1> DEFINE S == KeywordsRequests(server'.next)
           r == flight[i]
<1>1. /\ flight' = F!Served(flight, i, outcome, data) /\ outcome \in F!Outcomes
      /\ KeywordsAsk(r, server.next)
  BY KeywordsFetch, KeywordsFacts DEF F!Outcomes
<1>2. RowsBefore(server.next) \subseteq RowsBefore(server'.next)
  <2>1. server.next \in Nat /\ server'.next \in Nat
    BY DEF KeywordsInv, KeywordsServer
  <2> QED
    BY <2>1 DEF RowsBefore, AllRows
<1>3. flight' \in Seq(S)
  <2>1. flight \in Seq(S)
    <3>1. \A j \in DOMAIN flight : flight[j] \in S
      BY <1>2, KeywordsFacts DEF KeywordsRequests, KeywordsAsk
    <3> QED
      BY <3>1, KeywordsFacts, LegalStill
  <2>2. \A q \in KeywordsAll :
          q.op = r.op /\ q.arg = r.arg /\ q.outcome = outcome /\ q.data = data => q \in S
    BY <1>1, <1>2 DEF KeywordsRequests, KeywordsAsk, KeywordsInv, KeywordsServer
  <2>3. Closed(S, KeywordsOps, KeywordsArgs, KeywordsData)
    BY KeywordsClosed
  <2> HIDE DEF S, r
  <2> QED
    BY <1>1, <2>1, <2>2, <2>3, ServedIn DEF KeywordsAll, r
<1>4. KeywordsTracks(flight', server', view, past)
  <2>1. Tracks(flight, "keywords", KeywordsChanges, Now({}, server.rows), {}, view.shown, past.stale)
    BY DEF KeywordsInv, KeywordsTracks
  <2>2. /\ "keywords" \notin KeywordsChanges
        /\ r.op \in KeywordsChanges => outcome \in {"ok", "throws"} \/ r.outcome = "none"
        /\ Now({}, server'.rows) = Now({}, server.rows)
    BY DEF KeywordsChanges
  <2>3. r.op = "keywords" => outcome # "ok" \/ data = Now({}, server.rows)[r.arg]
    <3>1. r.op = "keywords" => r.arg = {}
      BY <1>1 DEF KeywordsAsk
    <3>2. Now({}, server.rows)[{}] = server.rows
      BY NowIs, Zenon
    <3>3. r.op = "keywords" => Now({}, server.rows)[r.arg] = server.rows
      BY <3>1, <3>2, Zenon
    <3> QED
      BY <3>3
  <2> HIDE DEF r
  <2> QED
    BY <1>1, <2>1, <2>2, <2>3, ServedTracks, KeywordsFacts DEF KeywordsTracks, KeywordsAll, r
<1>5. KeywordsLoads(flight', view, past)
  <2>1. Sent(flight, "keywords") => Sent(flight', "keywords")
    BY <1>1, ServedFacts, KeywordsFacts DEF KeywordsAll, Sent
  <2> QED
    BY <2>1 DEF KeywordsInv, KeywordsLoads
<1> QED
  BY <1>2, <1>3, <1>4, <1>5 DEF KeywordsInv, KeywordsTracks, KeywordsLoads

LEMMA KeywordsServes ==
  ASSUME KeywordsInv, NEW i \in DOMAIN flight,
         \/ Keywords!ServeList(i) \/ Keywords!ServePost(i) \/ Keywords!ServePatch(i)
         \/ Keywords!ServeDelete(i) \/ Keywords!Fail(i)
  PROVE  KeywordsInv'
<1> DEFINE r == flight[i]
           rows == server.rows
           n == server.next
<1>1. /\ KeywordsServer(server) /\ past \in KeywordsPasts /\ KeywordsAsk(r, n)
      /\ rows \in SUBSET AllRows /\ rows \in SUBSET RowsBefore(n)
      /\ server.open \in SUBSET KeywordsOpen(n)
      /\ n \in Nat /\ n >= 1 /\ {} \in KeywordsData
  BY KeywordsFacts, KeywordsClosed DEF KeywordsInv, KeywordsServer
\* A handler of a change: it may leave an open one.
<1>2. ASSUME r.op \in KeywordsChanges, r.outcome = "none",
             NEW outcome \in {"ok", "refused", "throws"},
             NEW changes \in SUBSET KeywordsOpen(n), Keywords!Answer(i, outcome, changes)
      PROVE  KeywordsInv'
  <2>1. /\ flight' = Keywords!Served(flight, i, outcome, {}) /\ UNCHANGED <<view, past>>
        /\ server' = [server EXCEPT !.open = server.open \cup changes]
    BY <1>2 DEF Keywords!Answer
  <2>2. server.open \cup changes \in SUBSET KeywordsOpen(n)
    BY <1>1, <1>2
  <2>3. KeywordsServer(server') /\ server'.next = n /\ server'.rows = rows
    BY <1>1, <2>1, <2>2 DEF KeywordsServer
  <2>4. /\ r.op # "keywords" /\ server.next <= server'.next
        /\ past' \in KeywordsPasts /\ past'.stale = past.stale /\ UNCHANGED view
    BY <1>1, <1>2, <2>1, <2>3 DEF KeywordsChanges
  <2> QED
    BY <1>1, <1>2, <2>1, <2>3, <2>4, KeywordsAnswered
<1>3. CASE Keywords!ServeList(i)
  <2>1. /\ r.op = "keywords" /\ flight' = Keywords!Served(flight, i, "ok", rows)
        /\ UNCHANGED <<server, view, past>>
    BY <1>3 DEF Keywords!ServeList, Keywords!Waiting
  <2>2. rows \in KeywordsData
    BY <1>1 DEF KeywordsData
  <2> QED
    BY <1>1, <2>1, <2>2, KeywordsAnswered DEF KeywordsChanges
<1>4. CASE Keywords!ServePost(i)
  <2>1. r.op = "post" /\ r.outcome = "none" /\ r.op \in KeywordsChanges
    BY <1>4 DEF Keywords!ServePost, Keywords!Waiting, KeywordsChanges
  <2>2. CASE Keywords!PostNew(i)
    <3> DEFINE new == [id |-> n, word |-> r.arg, active |-> TRUE]
               change == [ids |-> {}, rows |-> {new}]
               open == server.open \cup {change}
    <3>1. /\ flight' = Keywords!Served(flight, i, "ok", {}) /\ UNCHANGED <<view, past>>
          /\ server' = [server EXCEPT !.open = open, !.next = n + 1]
      BY <2>2 DEF Keywords!PostNew, Keywords!NewRow, Keywords!Change
    <3>2. new \in RowsBefore(n + 1)
      BY <1>1, <2>1 DEF KeywordsAsk, AllRows, RowsBefore
    <3> HIDE DEF new
    <3>3. change \in KeywordsOpen(n + 1)
      BY <3>2 DEF KeywordsOpen
    <3>4. /\ RowsBefore(n) \subseteq RowsBefore(n + 1)
          /\ KeywordsOpen(n) \subseteq KeywordsOpen(n + 1)
      <4>1. RowsBefore(n) \subseteq RowsBefore(n + 1)
        BY <1>1 DEF RowsBefore, AllRows
      <4> QED
        BY <4>1 DEF KeywordsOpen
    <3> HIDE DEF change
    <3>5. open \in SUBSET KeywordsOpen(n + 1) /\ rows \in SUBSET RowsBefore(n + 1)
      BY <1>1, <3>3, <3>4
    <3> HIDE DEF open
    <3>6. KeywordsServer(server') /\ server.next <= server'.next /\ server'.rows = rows
      <4>1. server' = [rows |-> rows, open |-> open, next |-> n + 1]
        BY <1>1, <3>1 DEF KeywordsServer
      <4> QED
        BY <1>1, <3>5, <4>1 DEF KeywordsServer
    <3>7. r.op # "keywords" /\ past' \in KeywordsPasts /\ past'.stale = past.stale /\ UNCHANGED view
      BY <1>1, <2>1, <3>1
    <3> QED
      BY <1>1, <2>1, <3>1, <3>6, <3>7, KeywordsAnswered
  <2>3. CASE Keywords!PostAgain(i)
    <3>1. PICK outcome \in {"refused", "throws"} : Keywords!Answer(i, outcome, {})
      BY <2>3 DEF Keywords!PostAgain
    <3> QED
      BY <1>2, <2>1, <3>1
  <2> QED
    BY <1>4, <2>2, <2>3 DEF Keywords!ServePost
<1>5. CASE Keywords!ServePatch(i)
  <2> DEFINE after == {[row EXCEPT !.active = r.arg.active] : row \in Keywords!WithId(r.arg.id)}
  <2>1. /\ r.op = "patch" /\ r.outcome = "none" /\ r.op \in KeywordsChanges
        /\ \/ \E outcome \in {"ok", "refused"} : Keywords!Answer(i, outcome, {})
           \/ Keywords!Answer(i, "ok", {[ids |-> {r.arg.id}, rows |-> after]})
    BY <1>5 DEF Keywords!ServePatch, Keywords!Waiting, Keywords!Change, KeywordsChanges
  <2>2. r.arg.id \in Nat /\ r.arg.active \in BOOLEAN
    BY <1>1, <2>1 DEF KeywordsAsk, Switches
  <2>3. \A row \in RowsBefore(n) : [row EXCEPT !.active = r.arg.active] \in RowsBefore(n)
    BY <2>2 DEF RowsBefore, AllRows
  <2>4. \A row \in Keywords!WithId(r.arg.id) : row \in RowsBefore(n)
    BY <1>1 DEF Keywords!WithId
  <2>5. after \in SUBSET RowsBefore(n)
    BY <2>3, <2>4
  <2> HIDE DEF after
  <2>6. [ids |-> {r.arg.id}, rows |-> after] \in KeywordsOpen(n)
    BY <2>2, <2>5 DEF KeywordsOpen
  <2> QED
    BY <1>2, <2>1, <2>6
<1>6. CASE Keywords!ServeDelete(i)
  <2>1. /\ r.op = "delete" /\ r.outcome = "none" /\ r.op \in KeywordsChanges
        /\ \/ Keywords!Answer(i, "refused", {})
           \/ /\ Keywords!WithId(r.arg) # {}
              /\ Keywords!Answer(i, "throws", {[ids |-> {r.arg}, rows |-> {}]})
    BY <1>6 DEF Keywords!ServeDelete, Keywords!Waiting, Keywords!Change, KeywordsChanges
  <2>2. Keywords!WithId(r.arg) # {} => r.arg \in Nat
    BY <1>1 DEF Keywords!WithId, AllRows
  <2>3. r.arg \in Nat => [ids |-> {r.arg}, rows |-> {}] \in KeywordsOpen(n)
    BY DEF KeywordsOpen
  <2> QED
    BY <1>2, <2>1, <2>2, <2>3
<1>7. CASE Keywords!Fail(i)
  <2>1. /\ flight' = Keywords!Served(flight, i, "throws", {}) /\ UNCHANGED <<server, view>>
        /\ past' = [past EXCEPT !.faults = past.faults + 1]
    BY <1>7 DEF Keywords!Fail
  <2>2. past' \in KeywordsPasts /\ past'.stale = past.stale
    BY <1>1, <2>1 DEF KeywordsPasts
  <2> QED
    BY <1>1, <2>1, <2>2, KeywordsAnswered
<1> QED
  BY <1>3, <1>4, <1>5, <1>6, <1>7

\* A change was committed: what was loaded before is late, and nobody may load again.
LEMMA KeywordsCommits ==
  ASSUME KeywordsInv, NEW change \in server.open, Keywords!Commit(change)
  PROVE  KeywordsInv'
<1> DEFINE S == KeywordsRequests(server.next)
           n == server.next
           rows == {row \in server.rows : row.id \notin change.ids} \cup change.rows
           open == server.open \ {change}
           stale == F!StaleAfterCommit(past.stale, flight, KeywordsChanges, {"keywords"})
<1>1. /\ KeywordsServer(server) /\ past \in KeywordsPasts /\ flight \in Seq(S)
      /\ KeywordsTracks(flight, server, view, past) /\ KeywordsLoads(flight, view, past)
  BY DEF KeywordsInv
<1>2. /\ server' = [server EXCEPT !.open = open, !.rows = rows] /\ UNCHANGED view
      /\ flight' = F!Overtaken(flight, {"keywords"})
      /\ past' = [past EXCEPT !.stale = stale]
  BY KeywordsFetch DEF Keywords!Commit, Keywords!Changes, KeywordsChanges
<1>3. /\ rows \in SUBSET RowsBefore(n) /\ rows \in SUBSET AllRows
      /\ open \in SUBSET KeywordsOpen(n)
  BY <1>1 DEF KeywordsServer, KeywordsOpen, RowsBefore
<1>4. /\ stale \in SUBSET {"keywords"}
      /\ "keywords" \in past.stale => "keywords" \in stale
  BY <1>1 DEF F!StaleAfterCommit, KeywordsPasts
<1>5. Closed(S, KeywordsOps, KeywordsArgs, KeywordsData)
  BY KeywordsClosed
<1> HIDE DEF rows, open, S
<1>6. KeywordsServer(server') /\ server'.next = n /\ server'.rows = rows
  BY <1>1, <1>2, <1>3 DEF KeywordsServer
<1>7. flight' \in Seq(S)
  BY <1>1, <1>2, <1>5, OvertakenIn
<1>8. past' \in KeywordsPasts /\ past'.stale = stale
  BY <1>1, <1>2, <1>4 DEF KeywordsPasts
<1>9. KeywordsTracks(flight', server', view, past')
  <2>1. flight \in Seq(KeywordsAll) /\ "keywords" \in {"keywords"}
    BY KeywordsFacts
  <2>2. Tracks(flight', "keywords", KeywordsChanges, Now({}, rows), {}, view.shown, stale)
    BY <1>1, <1>2, <2>1, OvertakenTracks DEF KeywordsTracks, KeywordsAll
  <2> QED
    BY <1>6, <1>8, <2>2 DEF KeywordsTracks
<1>10. KeywordsLoads(flight', view, past')
  <2>1. Sent(flight, "keywords") => Sent(flight', "keywords")
    BY <1>2, OvertakenFacts, KeywordsFacts DEF KeywordsAll, Sent, Alike
  <2> QED
    BY <1>1, <1>4, <1>8, <2>1 DEF KeywordsLoads
<1> QED
  BY <1>1, <1>2, <1>6, <1>7, <1>8, <1>9, <1>10 DEF KeywordsInv, S

\* The table was loaded.
LEMMA KeywordsLoaded ==
  ASSUME KeywordsInv, NEW i \in DOMAIN flight, Keywords!HandleList(i)
  PROVE  KeywordsInv'
<1> DEFINE r == flight[i]
           S == KeywordsRequests(server.next)
           stale == Keywords!StaleAfterLoad(past.stale, r)
<1>1. /\ view \in KeywordsViews /\ past \in KeywordsPasts /\ KeywordsAsk(r, server.next)
      /\ flight \in Seq(S) /\ KeywordsTracks(flight, server, view, past)
      /\ view.shown \subseteq RowsBefore(server.next)
  BY KeywordsFacts DEF KeywordsInv
<1>2. /\ r.op = "keywords" /\ flight' = F!Handled(flight, i) /\ UNCHANGED server
      /\ view' = IF r.outcome = "ok" THEN [view EXCEPT !.shown = r.data, !.loading = FALSE] ELSE view
      /\ past' = [past EXCEPT !.stale = stale]
  BY KeywordsFetch DEF Keywords!HandleList, Keywords!Answers
<1>3. /\ stale \in SUBSET {"keywords"}
      /\ "keywords" \in stale \/ (r.outcome = "ok" /\ ~r.late)
  BY <1>1, <1>2 DEF KeywordsPasts, Keywords!StaleAfterLoad
<1>4. /\ r.outcome = "ok" => r.data \subseteq RowsBefore(server.next) /\ r.data \in SUBSET AllRows
      /\ r.arg = {}
  BY <1>1, <1>2 DEF KeywordsAsk, RowsBefore
<1>5. Closed(S, KeywordsOps, KeywordsArgs, KeywordsData)
  BY KeywordsClosed
<1> HIDE DEF stale, S
<1>6. flight' \in Seq(S)
  BY <1>1, <1>2, <1>5, HandledIn
<1>7. past' \in KeywordsPasts /\ past'.stale = stale
  BY <1>1, <1>2, <1>3 DEF KeywordsPasts
<1> HIDE DEF r
<1>8. /\ view' \in KeywordsViews /\ view'.shown \subseteq RowsBefore(server.next)
      /\ r.outcome = "ok" => view'.shown = r.data /\ ~view'.loading
  BY <1>1, <1>2, <1>4 DEF KeywordsViews
<1>9. KeywordsTracks(flight', server, view', past')
  <2>1. /\ r.op = "keywords"
        /\ "keywords" \in stale \/ (r.outcome = "ok" /\ ~r.late /\ {} = r.arg /\ view'.shown = r.data)
        /\ "keywords" \notin KeywordsChanges
    BY <1>2, <1>3, <1>4, <1>8 DEF KeywordsChanges
  <2> QED
    BY <1>1, <1>2, <1>7, <2>1, HandledTracks, KeywordsFacts DEF KeywordsTracks, KeywordsAll, r
<1>10. KeywordsLoads(flight', view', past')
  BY <1>3, <1>7, <1>8 DEF KeywordsLoads
<1> QED
  BY <1>2, <1>6, <1>7, <1>8, <1>9, <1>10 DEF KeywordsInv, S

\* A change was answered: the table is loaded again, unless the request threw.
LEMMA KeywordsContinues ==
  ASSUME KeywordsInv, NEW i \in DOMAIN flight,
         Keywords!HandleAdd(i) \/ Keywords!HandleDelete(i) \/ Keywords!HandleToggle(i)
  PROVE  KeywordsInv'
<1> DEFINE r == flight[i]
           rest == F!Handled(flight, i)
           S == KeywordsRequests(server.next)
<1>1. /\ view \in KeywordsViews /\ past \in KeywordsPasts
      /\ flight \in Seq(S) /\ KeywordsTracks(flight, server, view, past)
  BY DEF KeywordsInv
<1>2. PICK v \in {view, [view EXCEPT !.adding = FALSE]} :
        r.op \in KeywordsChanges /\ Keywords!Continued(i, v)
  BY DEF Keywords!HandleAdd, Keywords!HandleDelete, Keywords!HandleToggle, KeywordsChanges,
         Keywords!Answers
<1>3. /\ v \in KeywordsViews /\ v.shown = view.shown /\ UNCHANGED server
  BY <1>1, <1>2 DEF KeywordsViews, Keywords!Continued
<1>4. /\ Closed(S, KeywordsOps, KeywordsArgs, KeywordsData)
      /\ {} \in KeywordsData /\ {} \in KeywordsArgs /\ "keywords" \in KeywordsOps
      /\ r.op # "keywords" /\ "keywords" \notin KeywordsChanges
  BY <1>2, KeywordsClosed DEF KeywordsChanges, KeywordsOps
<1>5. rest \in Seq(S) /\ flight \in Seq(KeywordsAll) /\ rest \in Seq(KeywordsAll)
  <2>1. flight \in Seq(KeywordsAll)
    BY KeywordsFacts
  <2>2. rest \in Seq(KeywordsAll)
    BY <2>1, HandledFacts DEF KeywordsAll
  <2> HIDE DEF S
  <2> QED
    BY <1>1, <1>4, <2>1, <2>2, HandledIn
<1>6. CASE r.outcome = "throws"
  <2> DEFINE stale == past.stale \cup {"keywords"}
  <2>1. /\ view' = view /\ past' = [past EXCEPT !.stale = stale]
        /\ flight' = F!Outdated(rest, {"keywords"})
    BY <1>2, <1>6, KeywordsFetch DEF Keywords!Continued
  <2>2. stale \in SUBSET {"keywords"} /\ "keywords" \in stale
    BY <1>1 DEF KeywordsPasts
  <2> HIDE DEF stale, S, rest
  <2>3. past' \in KeywordsPasts /\ past'.stale = stale
    BY <1>1, <2>1, <2>2 DEF KeywordsPasts
  <2>4. flight' \in Seq(S)
    BY <1>4, <1>5, <2>1, OutdatedIn
  <2>5. KeywordsTracks(flight', server, view, past')
    <3>1. IF "keywords" \in {"keywords"} THEN "keywords" \in stale ELSE FALSE
      BY <2>2
    <3>2. Tracks(flight', "keywords", KeywordsChanges, Now({}, server.rows), {}, view.shown, stale)
      BY <1>5, <2>1, <2>2, <3>1, OutdatedTracks DEF KeywordsAll
    <3> QED
      BY <2>3, <3>2 DEF KeywordsTracks
  <2>6. KeywordsLoads(flight', view', past')
    BY <2>2, <2>3 DEF KeywordsLoads
  <2> QED
    BY <1>1, <1>3, <2>1, <2>3, <2>4, <2>5, <2>6 DEF KeywordsInv, S
<1>7. CASE r.outcome # "throws"
  <2>1. /\ view' = [v EXCEPT !.loading = TRUE] /\ past' = [past EXCEPT !.stale = past.stale]
        /\ flight' = Append(rest, F!Request("keywords", {}))
    BY <1>2, <1>7, KeywordsFetch DEF Keywords!Continued, Keywords!LoadAll
  <2>2. past' = past
    BY <1>1, <2>1 DEF KeywordsPasts
  <2>3. view' \in KeywordsViews /\ view'.shown = view.shown
    BY <1>3, <2>1 DEF KeywordsViews
  <2>4. \A q \in KeywordsAll : q.op = "keywords" /\ q.arg = {} /\ q.outcome = "none" => q \in S
    BY DEF KeywordsRequests, KeywordsAsk
  <2> HIDE DEF S, rest
  <2>5. flight' \in Seq(S)
    BY <1>4, <1>5, <2>1, <2>4, SentIn DEF KeywordsAll
  <2>6. KeywordsTracks(flight', server, view', past')
    <3>1. Tracks(flight', "keywords", KeywordsChanges, Now({}, server.rows), {}, view.shown, past.stale)
      BY <1>4, <1>5, <2>1, SentTracks DEF KeywordsAll
    <3> QED
      BY <2>2, <2>3, <3>1 DEF KeywordsTracks
  <2>7. Sent(flight', "keywords")
    <3>1. /\ Len(rest) + 1 \in DOMAIN flight'
          /\ flight'[Len(rest) + 1] = F!Request("keywords", {})
      BY <1>4, <1>5, <2>1, SentFacts DEF KeywordsAll
    <3> QED
      BY <3>1 DEF Sent, F!Request
  <2> QED
    BY <1>1, <1>3, <2>2, <2>3, <2>5, <2>6, <2>7 DEF KeywordsInv, KeywordsLoads, S
<1> QED
  BY <1>6, <1>7

LEMMA KeywordsInit == ASSUME Keywords!Init PROVE KeywordsInv
<1>1. PICK word \in Names :
        server = [rows |-> {[id |-> 1, word |-> word, active |-> TRUE]}, open |-> {}, next |-> 2]
  BY DEF Keywords!Init
<1>2. /\ view = [shown |-> {}, loading |-> TRUE, adding |-> FALSE]
      /\ flight = <<F!Request("keywords", {})>>
      /\ past = [stale |-> {}, steps |-> 0, faults |-> 0]
  BY KeywordsFetch DEF Keywords!Init, Keywords!LoadAll
<1>3. KeywordsServer(server)
  <2> DEFINE row == [id |-> 1, word |-> word, active |-> TRUE]
             rows == {row}
  <2>1. row \in AllRows /\ 1 <= row.id /\ row.id < 2
    BY DEF AllRows
  <2> HIDE DEF row
  <2>2. rows \in SUBSET AllRows /\ rows \subseteq RowsBefore(2)
    BY <2>1 DEF RowsBefore
  <2>3. server = [rows |-> rows, open |-> {}, next |-> 2]
    BY <1>1 DEF row
  <2> HIDE DEF rows
  <2> QED
    BY <2>2, <2>3 DEF KeywordsServer
<1>4. view \in KeywordsViews /\ view.shown \subseteq RowsBefore(server.next) /\ past \in KeywordsPasts
  BY <1>2 DEF KeywordsViews, KeywordsPasts
<1> DEFINE S == KeywordsRequests(server.next)
<1>5. flight = Append(<<>>, F!Request("keywords", {})) /\ <<>> \in Seq(S) /\ <<>> \in Seq(KeywordsAll)
  BY <1>2
<1>6. \A q \in KeywordsAll : q.op = "keywords" /\ q.arg = {} /\ q.outcome = "none" => q \in S
  BY DEF KeywordsRequests, KeywordsAsk
<1>7. /\ "keywords" \in KeywordsOps /\ {} \in KeywordsArgs /\ {} \in KeywordsData
      /\ Closed(S, KeywordsOps, KeywordsArgs, KeywordsData)
  BY KeywordsClosed DEF KeywordsOps
<1> HIDE DEF S
<1>8. flight \in Seq(S)
  BY ZenonT(60), <1>5, <1>6, <1>7, SentIn DEF KeywordsAll
<1>9. KeywordsTracks(flight, server, view, past)
  BY <1>5, <1>7, SentTracks DEF KeywordsTracks, KeywordsAll
<1>10. Sent(flight, "keywords")
  BY <1>2 DEF Sent, F!Request
<1> QED
  BY <1>3, <1>4, <1>8, <1>9, <1>10 DEF KeywordsInv, KeywordsLoads, S

LEMMA KeywordsNext ==
  ASSUME KeywordsInv, Keywords!Next
  PROVE  KeywordsInv'
  BY KeywordsPage, KeywordsServes, KeywordsCommits, KeywordsLoaded, KeywordsContinues
  DEF Keywords!Next

\* The properties of the page.
LEMMA KeywordsShows ==
  ASSUME KeywordsInv
  PROVE  Keywords!TypeOK /\ Keywords!ViewConverges
<1>1. /\ KeywordsServer(server) /\ view \in KeywordsViews
      /\ view.shown \subseteq RowsBefore(server.next)
      /\ KeywordsTracks(flight, server, view, past) /\ KeywordsLoads(flight, view, past)
  BY DEF KeywordsInv
<1>2. Keywords!TypeOK
  <2>1. \A i \in DOMAIN flight :
          Keywords!IsRequest(flight[i], {"keywords", "post", "patch", "delete"})
    BY KeywordsFacts DEF Keywords!IsRequest, Keywords!Outcomes, F!Outcomes, KeywordsOps
  <2>2. /\ server.next \in Nat /\ server.rows \subseteq RowsBefore(server.next)
        /\ \A change \in server.open : change.rows \subseteq RowsBefore(server.next)
    BY <1>1 DEF KeywordsServer, KeywordsOpen
  <2>3. \A row \in UNION ({server.rows, view.shown} \cup {change.rows : change \in server.open}) :
          row.id \in 1..server.next - 1 /\ row.word \in Names
    <3>1. \A row \in RowsBefore(server.next) : row.id \in 1..server.next - 1 /\ row.word \in Names
      BY <2>2 DEF RowsBefore, AllRows
    <3> QED
      BY <1>1, <2>2, <3>1
  <2>4. view.loading \in BOOLEAN /\ view.adding \in BOOLEAN
    BY <1>1 DEF KeywordsViews
  <2> QED
    BY <2>1, <2>2, <2>3, <2>4 DEF Keywords!TypeOK, Keywords!Changes
<1>3. Keywords!ViewConverges
  <2>1. ASSUME flight = <<>>, past.stale = {}
        PROVE  view.shown = server.rows /\ ~view.loading
    <3>1. view.shown = Now({}, server.rows)[{}]
      BY <1>1, <2>1, TracksIdle DEF KeywordsTracks
    <3>2. Now({}, server.rows)[{}] = server.rows
      BY NowIs, Zenon
    <3> QED
      BY <1>1, <2>1, <3>1, <3>2 DEF KeywordsLoads, Sent
  <2> QED
    BY <2>1 DEF Keywords!ViewConverges
<1> QED
  BY <1>2, <1>3

-----------------------------------------------------------------------------
(* SupportPage: the messages of a channel, and the text in the field. *)

SupportOps == {"messages", "send"}

Bodies == 1..(MaxSteps + 1)

Messages == Seq(Bodies)

SupportPosts == [channel : Names, body : Bodies]

SupportArgs == Names \cup SupportPosts

SupportData == {{}} \cup Messages

SupportAll == Requests(SupportOps, SupportArgs, SupportData)

SupportAsk(r) ==
  /\ r.outcome # "refused"
  /\ r.op = "messages" => r.arg \in Names /\ (r.outcome = "ok" => r.data \in Messages)
  /\ r.op = "send" => r.arg \in SupportPosts

StoredIn(s, text) == \E channel \in Names : \E k \in DOMAIN s[channel] : s[channel][k] = text

\* What is sent is the text in the field, or that was typed while another was being sent.
Posted(r, s, body, exposed) ==
  r.op = "send" => /\ r.outcome = "ok" => StoredIn(s, r.arg.body)
                   /\ body = 0 \/ body \in exposed \/ body = r.arg.body

SupportRequests(s, body, exposed) ==
  {r \in SupportAll : SupportAsk(r) /\ Posted(r, s, body, exposed)}

SupportServers == [Names -> Messages]

SupportViews == [channel : Names, shown : Messages, body : 0..(MaxSteps + 1)]

SupportPasts ==
  [stale : SUBSET {"messages"}, typed : SUBSET Bodies, exposed : SUBSET Bodies,
   steps : Nat, faults : Nat]

SupportTracks(fs, s, v, p) ==
  Tracks(fs, "messages", {"send"}, s, v.channel, v.shown, p.stale)

Kept(s, body, typed, exposed) ==
  \A text \in typed : text = body \/ text \in exposed \/ StoredIn(s, text)

SupportInv ==
  /\ server \in SupportServers /\ view \in SupportViews /\ past \in SupportPasts
  /\ flight \in Seq(SupportRequests(server, view.body, past.exposed))
  /\ SupportTracks(flight, server, view, past)
  /\ Kept(server, view.body, past.typed, past.exposed)

LEMMA SupportFetch ==
  /\ \A fs, i : Support!Handled(fs, i) = F!Handled(fs, i)
  /\ \A fs, i, o, d : Support!Served(fs, i, o, d) = F!Served(fs, i, o, d)
  /\ \A op, a : Support!Request(op, a) = F!Request(op, a)
  /\ \A fs, l : Support!Outdated(fs, l) = F!Outdated(fs, l)
  BY DEF Support!Handled, F!Handled, Support!Served, F!Served,
         Support!Request, F!Request, Support!Outdated, F!Outdated

LEMMA SupportClosed ==
  ASSUME NEW s, NEW body, NEW exposed
  PROVE  /\ Closed(SupportRequests(s, body, exposed), SupportOps, SupportArgs, SupportData)
         /\ \A r \in SupportRequests(s, body, exposed) :
              /\ r \in SupportAll /\ SupportAsk(r) /\ Posted(r, s, body, exposed)
              /\ r.op \in SupportOps /\ r.outcome \in F!Outcomes /\ r.late \in BOOLEAN
         /\ {} \in SupportData
<1>1. \A r \in SupportAll : r.op \in SupportOps /\ r.outcome \in F!Outcomes /\ r.late \in BOOLEAN
  BY DEF SupportAll, Requests
<1>2. \A r \in SupportAll, q \in SupportRequests(s, body, exposed) :
        Alike(r, q) => r \in SupportRequests(s, body, exposed)
  BY DEF SupportRequests, SupportAsk, Posted, Alike
<1> QED
  BY <1>1, <1>2 DEF Closed, SupportRequests, SupportAll, SupportData

\* What holds of the request with number i.
LEMMA SupportFacts ==
  ASSUME SupportInv
  PROVE  /\ flight \in Seq(SupportAll)
         /\ \A i \in DOMAIN flight :
              /\ flight[i] \in SupportAll /\ SupportAsk(flight[i])
              /\ Posted(flight[i], server, view.body, past.exposed)
              /\ flight[i].op \in SupportOps /\ flight[i].outcome \in F!Outcomes
<1> DEFINE S == SupportRequests(server, view.body, past.exposed)
<1>1. flight \in Seq(S)
  BY DEF SupportInv
<1>2. \A r \in S : /\ r \in SupportAll /\ SupportAsk(r) /\ Posted(r, server, view.body, past.exposed)
                   /\ r.op \in SupportOps /\ r.outcome \in F!Outcomes
  BY SupportClosed
<1> HIDE DEF S
<1>3. \A i \in DOMAIN flight : flight[i] \in S
  BY <1>1
<1>4. \A i \in DOMAIN flight : flight[i] \in SupportAll
  BY <1>2, <1>3
<1> QED
  BY <1>1, <1>2, <1>3, <1>4, LegalStill

\* A load of a channel, or the text in the field is sent.
LEMMA SupportSent ==
  ASSUME SupportInv, NEW op \in SupportOps, NEW arg \in SupportArgs,
         flight' = Append(flight, Support!Request(op, arg)), UNCHANGED server,
         view' \in SupportViews, view'.body = view.body,
         past' = [past EXCEPT !.steps = past.steps + 1],
         \/ op = "messages" /\ arg \in Names
         \/ op = "send" /\ arg \in SupportPosts /\ arg.body = view.body /\ view' = view
  PROVE  SupportInv'
<1> DEFINE S == SupportRequests(server, view.body, past.exposed)
<1>1. /\ past' \in SupportPasts /\ past'.typed = past.typed /\ past'.exposed = past.exposed
      /\ past'.stale = past.stale
  BY DEF SupportInv, SupportPasts
<1>2. flight' = Append(flight, F!Request(op, arg)) /\ flight \in Seq(S)
  BY SupportFetch DEF SupportInv
<1>3. \A r \in SupportAll : r.op = op /\ r.arg = arg /\ r.outcome = "none" => r \in S
  BY DEF SupportRequests, SupportAsk, Posted
<1>4. Closed(S, SupportOps, SupportArgs, SupportData) /\ {} \in SupportData
  BY SupportClosed
<1> HIDE DEF S
<1>5. flight' \in Seq(S)
  BY <1>2, <1>3, <1>4, SentIn DEF SupportAll
<1>6. SupportTracks(flight', server, view', past)
  <2>1. Tracks(flight, "messages", {"send"}, server, view'.channel, view'.shown, past.stale)
        \/ op = "messages"
    BY DEF SupportInv, SupportTracks
  <2> QED
    BY <1>2, <1>4, <2>1, SentTracks, SupportFacts DEF SupportTracks, SupportAll
<1> QED
  BY <1>1, <1>5, <1>6 DEF SupportInv, SupportTracks, S

LEMMA SupportActs ==
  ASSUME SupportInv,
         \/ Support!Load \/ Support!Send
         \/ \E channel \in Names : Support!SetChannel(channel)
  PROVE  SupportInv'
<1>1. view \in SupportViews /\ Names \subseteq SupportArgs /\ SupportPosts \subseteq SupportArgs
  BY DEF SupportInv, SupportArgs
<1>2. CASE Support!Load
  <2>1. /\ flight' = Append(flight, Support!Request("messages", view.channel))
        /\ UNCHANGED <<server, view>> /\ past' = [past EXCEPT !.steps = past.steps + 1]
    BY <1>2 DEF Support!Load, Support!LoadMessages, Support!Acted
  <2>2. view.channel \in Names
    BY <1>1 DEF SupportViews
  <2> QED
    BY <1>1, <2>1, <2>2, SupportSent DEF SupportOps
<1>3. CASE Support!Send
  <2> DEFINE arg == [channel |-> view.channel, body |-> view.body]
  <2>1. /\ flight' = Append(flight, Support!Request("send", arg)) /\ view.body # 0
        /\ UNCHANGED <<server, view>> /\ past' = [past EXCEPT !.steps = past.steps + 1]
    BY <1>3 DEF Support!Send, Support!Acted
  <2>2. view.channel \in Names /\ view.body \in Bodies
    BY <1>1, <2>1, BoundsAssumption DEF SupportViews, Bodies
  <2>3. arg \in SupportPosts /\ arg.body = view.body
    BY <2>2 DEF SupportPosts
  <2> HIDE DEF arg
  <2> QED
    BY <1>1, <2>1, <2>3, SupportSent DEF SupportOps
<1>4. ASSUME NEW channel \in Names, Support!SetChannel(channel)
      PROVE  SupportInv'
  <2>1. /\ flight' = Append(flight, Support!Request("messages", channel))
        /\ view' = [view EXCEPT !.channel = channel]
        /\ UNCHANGED server /\ past' = [past EXCEPT !.steps = past.steps + 1]
    BY <1>4 DEF Support!SetChannel, Support!LoadMessages, Support!Acted
  <2>2. view' \in SupportViews /\ view'.body = view.body
    BY <1>1, <2>1 DEF SupportViews
  <2> QED
    BY <1>1, <2>1, <2>2, SupportSent DEF SupportOps
<1> QED
  BY <1>2, <1>3, <1>4

\* A text is typed: it is exposed if another is being sent.
LEMMA SupportType ==
  ASSUME SupportInv, Support!Type
  PROVE  SupportInv'
<1> DEFINE new == past.steps + 1
           typed == (past.typed \ {view.body}) \cup {new}
           exposed == IF Support!InFlight(flight, "send") THEN past.exposed \cup {new} ELSE past.exposed
<1>1. /\ past.steps < MaxSteps + 1 /\ UNCHANGED <<server, flight>>
      /\ view' = [view EXCEPT !.body = new]
      /\ past' = [past EXCEPT !.steps = new, !.typed = typed, !.exposed = exposed]
  BY DEF Support!Type, Support!MayAct, Support!Acted
<1>2. view \in SupportViews /\ past \in SupportPasts
  BY DEF SupportInv
<1>3. new \in Nat /\ new \in Bodies /\ new \in 0..(MaxSteps + 1)
  <2>1. past.steps \in Nat
    BY <1>2 DEF SupportPasts
  <2> QED
    BY <1>1, <2>1, BoundsAssumption DEF Bodies
<1>4. typed \in SUBSET Bodies /\ exposed \in SUBSET Bodies
  BY <1>2, <1>3 DEF SupportPasts
<1>5. Kept(server, new, typed, exposed)
  BY DEF SupportInv, Kept
<1>6. \A i \in DOMAIN flight : flight[i].op = "send" => new \in exposed
  BY DEF Support!InFlight
<1> HIDE DEF new, typed, exposed
<1>7. /\ view' \in SupportViews /\ view'.body = new
      /\ view'.channel = view.channel /\ view'.shown = view.shown
  BY <1>1, <1>2, <1>3 DEF SupportViews
<1>8. /\ past' \in SupportPasts /\ past'.typed = typed /\ past'.exposed = exposed
      /\ past'.stale = past.stale
  BY <1>1, <1>2, <1>3, <1>4 DEF SupportPasts
<1>9. flight \in Seq(SupportRequests(server, new, exposed))
  <2>1. \A i \in DOMAIN flight : flight[i] \in SupportRequests(server, new, exposed)
    BY <1>6, SupportFacts DEF SupportRequests, Posted
  <2> QED
    BY <2>1, SupportFacts, LegalStill
<1> QED
  BY <1>1, <1>5, <1>7, <1>8, <1>9 DEF SupportInv, SupportTracks

\* A request was served, or failed; what is stored stays.
LEMMA SupportAnswered ==
  ASSUME SupportInv, NEW i \in DOMAIN flight, NEW outcome \in {"ok", "throws"},
         NEW data \in SupportData, flight' = Support!Served(flight, i, outcome, data), UNCHANGED view,
         server' \in SupportServers, past' \in SupportPasts, past'.stale = past.stale,
         past'.typed = past.typed, past'.exposed = past.exposed,
         \A text : StoredIn(server, text) => StoredIn(server', text),
         flight[i].op = "messages" /\ outcome = "ok" =>
           data = server[flight[i].arg] /\ data \in Messages,
         server' = server \/ (flight[i].op = "send" /\ outcome = "ok"),
         flight[i].op = "send" /\ outcome = "ok" => StoredIn(server', flight[i].arg.body)
  PROVE  SupportInv'
<1> DEFINE S == SupportRequests(server', view.body, past.exposed)
           r == flight[i]
<1>1. /\ flight' = F!Served(flight, i, outcome, data) /\ outcome \in F!Outcomes
      /\ SupportAsk(r) /\ Posted(r, server, view.body, past.exposed)
  BY SupportFetch, SupportFacts DEF F!Outcomes
<1>2. flight' \in Seq(S)
  <2>1. flight \in Seq(S)
    <3>1. \A j \in DOMAIN flight : flight[j] \in S
      BY SupportFacts DEF SupportRequests, Posted
    <3> QED
      BY <3>1, SupportFacts, LegalStill
  <2>2. \A q \in SupportAll :
          q.op = r.op /\ q.arg = r.arg /\ q.outcome = outcome /\ q.data = data => q \in S
    BY <1>1 DEF SupportRequests, SupportAsk, Posted
  <2>3. Closed(S, SupportOps, SupportArgs, SupportData)
    BY SupportClosed
  <2> HIDE DEF S, r
  <2> QED
    BY <1>1, <2>1, <2>2, <2>3, ServedIn DEF SupportAll, r
<1>3. SupportTracks(flight', server', view, past)
  <2>1. Tracks(flight, "messages", {"send"}, server, view.channel, view.shown, past.stale)
    BY DEF SupportInv, SupportTracks
  <2>2. /\ "messages" \notin {"send"}
        /\ r.op = "messages" => outcome # "ok" \/ data = server[r.arg]
        /\ r.op \in {"send"} => outcome \in {"ok", "throws"} \/ r.outcome = "none"
        /\ server' = server \/ (r.op \in {"send"} /\ outcome \in {"ok", "throws"})
    OBVIOUS
  <2> HIDE DEF r
  <2> QED
    BY <1>1, <2>1, <2>2, ServedTracks, SupportFacts DEF SupportTracks, SupportAll, r
<1>4. Kept(server', view.body, past.typed, past.exposed)
  BY DEF SupportInv, Kept
<1> QED
  BY <1>2, <1>3, <1>4 DEF SupportInv, SupportTracks

\* A message is put before the others.
PutFirst(s, channel, text) == [s EXCEPT ![channel] = <<text>> \o s[channel]]

LEMMA SupportPut ==
  ASSUME NEW s \in SupportServers, NEW channel \in Names, NEW text \in Bodies,
         NEW t, t = PutFirst(s, channel, text)
  PROVE  /\ t \in SupportServers /\ StoredIn(t, text)
         /\ \A other : StoredIn(s, other) => StoredIn(t, other)
<1> DEFINE old == s[channel]
           new == <<text>> \o old
<1>1. old \in Messages
  BY DEF SupportServers
<1> HIDE DEF old
<1>2. /\ new \in Messages /\ 1 \in DOMAIN new /\ new[1] = text
      /\ \A k \in DOMAIN old : k + 1 \in DOMAIN new /\ new[k + 1] = old[k]
  <2>1. <<text>> \in Seq(Bodies) /\ Len(<<text>>) = 1 /\ <<text>>[1] = text
    OBVIOUS
  <2>2. /\ new \in Seq(Bodies) /\ Len(new) = 1 + Len(old) /\ Len(old) \in Nat
        /\ \A k \in 1..(1 + Len(old)) : new[k] = IF k <= 1 THEN <<text>>[k] ELSE old[k - 1]
    BY <1>1, <2>1, ConcatProperties DEF Messages
  <2> HIDE DEF new
  <2>3. DOMAIN new = 1..(1 + Len(old)) /\ DOMAIN old = 1..Len(old)
    BY <1>1, <2>2 DEF Messages
  <2>4. \A k \in 1..Len(old) : k + 1 \in 1..(1 + Len(old)) /\ ~(k + 1 <= 1) /\ (k + 1) - 1 = k
    BY <2>2
  <2> QED
    BY <2>1, <2>2, <2>3, <2>4 DEF Messages
<1> HIDE DEF new
<1>3. /\ t \in SupportServers /\ t[channel] = new
      /\ \A c \in Names \ {channel} : t[c] = s[c]
  BY <1>2 DEF SupportServers, PutFirst, new, old
<1>4. StoredIn(t, text)
  BY <1>2, <1>3 DEF StoredIn
<1>5. ASSUME NEW other, StoredIn(s, other)
      PROVE  StoredIn(t, other)
  <2>1. PICK c \in Names : \E k \in DOMAIN s[c] : s[c][k] = other
    BY <1>5 DEF StoredIn
  <2>2. CASE c = channel
    BY <1>2, <1>3, <2>1, <2>2 DEF StoredIn, old
  <2>3. CASE c # channel
    BY <1>3, <2>1, <2>3 DEF StoredIn
  <2> QED
    BY <2>2, <2>3
<1> QED
  BY <1>3, <1>4, <1>5

LEMMA SupportServes ==
  ASSUME SupportInv, NEW i \in DOMAIN flight,
         Support!ServeMessages(i) \/ Support!ServeSend(i) \/ Support!Fail(i)
  PROVE  SupportInv'
<1> DEFINE r == flight[i]
<1>1. /\ server \in SupportServers /\ past \in SupportPasts /\ SupportAsk(r)
      /\ {} \in SupportData /\ Messages \subseteq SupportData
  BY SupportFacts DEF SupportInv, SupportData
<1>2. CASE Support!ServeMessages(i)
  <2>1. /\ r.op = "messages" /\ flight' = Support!Served(flight, i, "ok", server[r.arg])
        /\ UNCHANGED <<server, view, past>>
    BY <1>2 DEF Support!ServeMessages, Support!Waiting
  <2>2. server[r.arg] \in Messages
    BY <1>1, <2>1 DEF SupportAsk, SupportServers
  <2> QED
    BY <1>1, <2>1, <2>2, SupportAnswered
<1>3. CASE Support!ServeSend(i)
  <2> DEFINE c == r.arg.channel
             b == r.arg.body
  <2>1. /\ r.op = "send" /\ flight' = Support!Served(flight, i, "ok", {})
        /\ server' = [server EXCEPT ![c] = <<b>> \o server[c]]
        /\ UNCHANGED <<view, past>>
    BY <1>3 DEF Support!ServeSend, Support!Waiting
  <2>2. c \in Names /\ b \in Bodies
    BY <1>1, <2>1 DEF SupportAsk, SupportPosts
  <2> HIDE DEF c, b
  <2>3. /\ server' \in SupportServers /\ StoredIn(server', b)
        /\ \A text : StoredIn(server, text) => StoredIn(server', text)
    <3>1. server' = PutFirst(server, c, b)
      BY <2>1 DEF PutFirst
    <3> QED
      BY <1>1, <2>2, <3>1, SupportPut
  <2> QED
    BY <1>1, <2>1, <2>3, SupportAnswered DEF b
<1>4. CASE Support!Fail(i)
  <2>1. /\ flight' = Support!Served(flight, i, "throws", {}) /\ UNCHANGED <<server, view>>
        /\ past' = [past EXCEPT !.faults = past.faults + 1]
    BY <1>4 DEF Support!Fail
  <2>2. /\ past' \in SupportPasts /\ past'.typed = past.typed /\ past'.exposed = past.exposed
        /\ past'.stale = past.stale
    BY <1>1, <2>1 DEF SupportPasts
  <2> QED
    BY <1>1, <2>1, <2>2, SupportAnswered
<1> QED
  BY <1>2, <1>3, <1>4

\* Messages were loaded, if of another channel than the page's, the list is outdated.
LEMMA SupportLoaded ==
  ASSUME SupportInv, NEW i \in DOMAIN flight, Support!HandleMessages(i)
  PROVE  SupportInv'
<1> DEFINE r == flight[i]
           S == SupportRequests(server, view.body, past.exposed)
           stale == IF r.arg = view.channel THEN Support!StaleAfterLoad(past.stale, r)
                    ELSE past.stale \cup {"messages"}
<1>1. /\ view \in SupportViews /\ past \in SupportPasts /\ SupportAsk(r)
      /\ flight \in Seq(S) /\ SupportTracks(flight, server, view, past)
  BY SupportFacts DEF SupportInv
<1>2. /\ r.op = "messages" /\ flight' = F!Handled(flight, i) /\ UNCHANGED server
      /\ view' = IF r.outcome = "ok" THEN [view EXCEPT !.shown = r.data] ELSE view
      /\ past' = [past EXCEPT !.stale = stale]
  BY SupportFetch DEF Support!HandleMessages, Support!Answers
<1>3. /\ stale \in SUBSET {"messages"}
      /\ "messages" \in stale \/ (r.outcome = "ok" /\ ~r.late /\ r.arg = view.channel)
  BY <1>1, <1>2 DEF SupportPasts, Support!StaleAfterLoad
<1>4. r.outcome = "ok" => r.data \in Messages
  BY <1>1, <1>2 DEF SupportAsk
<1>5. Closed(S, SupportOps, SupportArgs, SupportData)
  BY SupportClosed
<1> HIDE DEF stale, S
<1>6. flight' \in Seq(S)
  BY <1>1, <1>2, <1>5, HandledIn
<1>7. /\ past' \in SupportPasts /\ past'.stale = stale /\ past'.typed = past.typed
      /\ past'.exposed = past.exposed
  BY <1>1, <1>2, <1>3 DEF SupportPasts
<1> HIDE DEF r
<1>8. /\ view' \in SupportViews /\ view'.body = view.body /\ view'.channel = view.channel
      /\ r.outcome = "ok" => view'.shown = r.data
  BY <1>1, <1>2, <1>4 DEF SupportViews
<1>9. SupportTracks(flight', server, view', past')
  <2>1. /\ r.op = "messages"
        /\ "messages" \in stale \/ (r.outcome = "ok" /\ ~r.late /\ view.channel = r.arg /\ view'.shown = r.data)
        /\ "messages" \notin {"send"}
    BY <1>2, <1>3, <1>8
  <2> QED
    BY <1>1, <1>2, <1>7, <1>8, <2>1, HandledTracks, SupportFacts DEF SupportTracks, SupportAll, r
<1> QED
  BY <1>2, <1>6, <1>7, <1>8, <1>9 DEF SupportInv, S

\* A text was sent, and the field is emptied; or it may not have been.
LEMMA SupportHandleSend ==
  ASSUME SupportInv, NEW i \in DOMAIN flight, Support!HandleSend(i)
  PROVE  SupportInv'
<1> DEFINE r == flight[i]
           rest == F!Handled(flight, i)
           S == SupportRequests(server, view.body, past.exposed)
<1>1. /\ view \in SupportViews /\ past \in SupportPasts /\ SupportAsk(r)
      /\ Posted(r, server, view.body, past.exposed)
      /\ flight \in Seq(S) /\ SupportTracks(flight, server, view, past)
      /\ Kept(server, view.body, past.typed, past.exposed)
  BY SupportFacts DEF SupportInv
<1>2. r.op = "send" /\ r.arg \in SupportPosts /\ UNCHANGED server /\ Names \subseteq SupportArgs
  BY <1>1 DEF Support!HandleSend, Support!Answers, SupportAsk, SupportArgs
<1>3. Closed(S, SupportOps, SupportArgs, SupportData) /\ {} \in SupportData
  BY SupportClosed
<1>4. /\ rest \in Seq(S) /\ flight \in Seq(SupportAll)
      /\ \A k \in DOMAIN rest : rest[k] \in S
  <2> HIDE DEF S
  <2>1. rest \in Seq(S)
    BY <1>1, <1>3, HandledIn
  <2> QED
    BY <2>1, SupportFacts
<1>5. CASE r.outcome = "ok"
  <2> DEFINE c == r.arg.channel
             T == SupportRequests(server, 0, past.exposed)
  <2>1. /\ view' = [view EXCEPT !.body = 0] /\ past' = past
        /\ flight' = Append(rest, F!Request("messages", c))
    <3>1. /\ view' = [view EXCEPT !.body = 0] /\ past' = [past EXCEPT !.stale = past.stale]
          /\ flight' = Append(Support!Handled(flight, i), Support!Request("messages", c))
      BY <1>5 DEF Support!HandleSend, Support!LoadMessages
    <3>2. past' = past
      BY <1>1, <3>1 DEF SupportPasts
    <3> QED
      BY <3>1, <3>2, SupportFetch
  <2>2. /\ view' \in SupportViews /\ view'.body = 0
        /\ view'.channel = view.channel /\ view'.shown = view.shown
    <3>1. 0 \in 0..(MaxSteps + 1)
      BY BoundsAssumption
    <3> QED
      BY <1>1, <2>1, <3>1 DEF SupportViews
  <2>3. c \in Names /\ c \in SupportArgs /\ "messages" \in SupportOps
    BY <1>2 DEF SupportPosts, SupportOps
  <2>4. rest \in Seq(T)
    <3>1. \A q \in S : q \in T
      BY DEF SupportRequests, Posted
    <3> HIDE DEF S, T, rest
    <3> QED
      BY <1>4, <3>1, LegalStill
  <2>5. /\ \A q \in SupportAll : q.op = "messages" /\ q.arg = c /\ q.outcome = "none" => q \in T
        /\ Closed(T, SupportOps, SupportArgs, SupportData)
    <3>1. \A q \in SupportAll : q.op = "messages" /\ q.arg = c /\ q.outcome = "none" => q \in T
      BY <2>3 DEF SupportRequests, SupportAsk, Posted
    <3> QED
      BY <3>1, SupportClosed
  <2> HIDE DEF c
  <2>6. flight' \in Seq(T)
    <3> HIDE DEF T, rest
    <3> QED
      BY <1>3, <2>1, <2>3, <2>4, <2>5, SentIn DEF SupportAll
  <2>7. SupportTracks(flight', server, view', past')
    <3>1. "messages" \notin {"send"}
      OBVIOUS
    <3>2. Tracks(flight', "messages", {"send"}, server, view.channel, view.shown, past.stale)
      BY <1>3, <1>4, <2>1, <2>3, <3>1, FollowedTracks DEF SupportAll
    <3> QED
      BY <2>1, <2>2, <3>2 DEF SupportTracks
  <2>8. Kept(server, 0, past.typed, past.exposed)
    BY <1>1, <1>2, <1>5 DEF Kept, Posted
  <2> QED
    BY <1>1, <1>2, <2>1, <2>2, <2>6, <2>7, <2>8 DEF SupportInv
<1>6. CASE r.outcome # "ok"
  <2> DEFINE stale == past.stale \cup {"messages"}
  <2>1. /\ view' = view /\ past' = [past EXCEPT !.stale = stale]
        /\ flight' = F!Outdated(rest, {"messages"})
    <3>1. /\ view' = view /\ past' = [past EXCEPT !.stale = stale]
          /\ flight' = Support!Outdated(Support!Handled(flight, i), {"messages"})
      BY <1>6 DEF Support!HandleSend
    <3> QED
      BY <3>1, SupportFetch
  <2>2. stale \in SUBSET {"messages"} /\ "messages" \in stale
    BY <1>1 DEF SupportPasts
  <2> HIDE DEF stale
  <2>3. /\ past' \in SupportPasts /\ past'.stale = stale /\ past'.typed = past.typed
        /\ past'.exposed = past.exposed
    BY <1>1, <2>1, <2>2 DEF SupportPasts
  <2>4. flight' \in Seq(S)
    <3> HIDE DEF S, rest
    <3> QED
      BY <1>3, <1>4, <2>1, OutdatedIn
  <2>5. SupportTracks(flight', server, view, past')
    <3>1. /\ "messages" \notin {"send"}
          /\ IF "messages" \in {"messages"} THEN "messages" \in stale ELSE FALSE
      BY <2>2
    <3>2. rest \in Seq(SupportAll)
      BY <1>4, HandledFacts DEF SupportAll
    <3> HIDE DEF rest
    <3>3. Tracks(flight', "messages", {"send"}, server, view.channel, view.shown, stale)
      BY <2>1, <2>2, <3>1, <3>2, OutdatedTracks DEF SupportAll
    <3> QED
      BY <2>3, <3>3 DEF SupportTracks
  <2> QED
    BY <1>1, <1>2, <2>1, <2>3, <2>4, <2>5 DEF SupportInv
<1> QED
  BY <1>5, <1>6

LEMMA SupportInit == ASSUME Support!Init PROVE SupportInv
<1>1. PICK channel \in Names :
        /\ view = [channel |-> channel, shown |-> <<>>, body |-> 0]
        /\ flight = <<F!Request("messages", channel)>>
  BY SupportFetch DEF Support!Init, Support!LoadMessages
<1>2. /\ server = [c \in Names |-> <<>>]
      /\ past = [stale |-> {}, typed |-> {}, exposed |-> {}, steps |-> 0, faults |-> 0]
  BY DEF Support!Init
<1>3. <<>> \in Messages /\ 0 \in 0..(MaxSteps + 1)
  BY BoundsAssumption DEF Messages
<1>4. server \in SupportServers /\ view \in SupportViews /\ past \in SupportPasts
  BY <1>1, <1>2, <1>3 DEF SupportServers, SupportViews, SupportPasts
<1>5. Kept(server, view.body, past.typed, past.exposed)
  BY <1>2 DEF Kept
<1> DEFINE S == SupportRequests(server, view.body, past.exposed)
<1>6. flight = Append(<<>>, F!Request("messages", channel)) /\ <<>> \in Seq(S) /\ <<>> \in Seq(SupportAll)
  BY <1>1
<1>7. /\ "messages" \in SupportOps /\ channel \in SupportArgs /\ {} \in SupportData
      /\ \A q \in SupportAll : q.op = "messages" /\ q.arg = channel /\ q.outcome = "none" => q \in S
      /\ Closed(S, SupportOps, SupportArgs, SupportData)
  <2>1. \A q \in SupportAll : q.op = "messages" /\ q.arg = channel /\ q.outcome = "none" => q \in S
    BY DEF SupportRequests, SupportAsk, Posted
  <2> QED
    BY <2>1, SupportClosed DEF SupportOps, SupportArgs
<1> HIDE DEF S
<1>8. flight \in Seq(S)
  BY <1>6, <1>7, SentIn DEF SupportAll
<1>9. SupportTracks(flight, server, view, past)
  BY <1>6, <1>7, SentTracks DEF SupportTracks, SupportAll
<1> QED
  BY <1>4, <1>5, <1>8, <1>9 DEF SupportInv, S

LEMMA SupportNext ==
  ASSUME SupportInv, Support!Next
  PROVE  SupportInv'
  BY SupportActs, SupportType, SupportServes, SupportLoaded, SupportHandleSend DEF Support!Next

\* The properties of the page.
LEMMA SupportShows ==
  ASSUME SupportInv
  PROVE  Support!TypeOK /\ Support!ViewConverges /\ Support!TypedIsKept
<1>1. /\ server \in SupportServers /\ view \in SupportViews
      /\ SupportTracks(flight, server, view, past)
      /\ Kept(server, view.body, past.typed, past.exposed)
  BY DEF SupportInv
<1>2. \A text : StoredIn(server, text) <=> text \in Support!Stored
  BY DEF StoredIn, Support!Stored
<1>3. Support!TypeOK
  <2>1. \A i \in DOMAIN flight : Support!IsRequest(flight[i], {"messages", "send"})
    <3>1. \A i \in DOMAIN flight :
            flight[i].op \in SupportOps /\ flight[i].outcome \in F!Outcomes /\ flight[i].late \in BOOLEAN
      BY SupportFacts DEF SupportAll, Requests
    <3> QED
      BY <3>1 DEF Support!IsRequest, Support!Outcomes, F!Outcomes, SupportOps
  <2>2. Support!Stored \subseteq Bodies
    <3>1. ASSUME NEW text, StoredIn(server, text)
          PROVE  text \in Bodies
      BY <1>1, <3>1 DEF StoredIn, SupportServers, Messages
    <3> QED
      BY <1>2, <3>1
  <2>3. view.channel \in Names /\ view.body \in 0..(MaxSteps + 1)
    BY <1>1 DEF SupportViews
  <2> QED
    BY <2>1, <2>2, <2>3 DEF Support!TypeOK, Bodies
<1>4. Support!ViewConverges
  BY <1>1, TracksIdle DEF Support!ViewConverges, SupportTracks
<1>5. Support!TypedIsKept
  BY <1>1, <1>2 DEF Support!TypedIsKept, Kept
<1> QED
  BY <1>3, <1>4, <1>5

-----------------------------------------------------------------------------
(* FlasherPage: what is on the board when the page says that it is done. *)

FlasherOps == {"download", "reader"}

FlasherArgs == {"button", "flash"} \cup Names

FlasherData == {{}} \cup Names

FlasherAll == Requests(FlasherOps, FlasherArgs, FlasherData)

FlasherAsk(r) ==
  /\ r.op = "download" /\ r.outcome = "ok" => r.data \in Names
  /\ r.op = "reader" => r.arg \in Names

FlasherRequests == {r \in FlasherAll : FlasherAsk(r)}

Files == Names \cup {None}

FlasherViews ==
  [serial : BOOLEAN, status : Flasher!Statuses, stage : Flasher!Stages, active : 0..3,
   progress : 0..Flasher!Chunks, firmware : Files, using : Files, rate : Flasher!Rates, tries : Int]

FlasherTypes(s, v, p) ==
  /\ s \in [erased : BOOLEAN, has : Files]
  /\ v \in FlasherViews
  /\ p \in [swapped : BOOLEAN, steps : {p.steps}, faults : {p.faults}]

\* An attempt works with the firmware of its click, or waits for its own download.  Only
\* a firmware that was loaded after the click may be another one.
Attempt(s, v, p) ==
  /\ v.status \in {"connecting", "flashing"} => v.stage # "none"
  /\ v.stage # "none" => v.status \in {"connecting", "flashing"}
  /\ v.stage \in {"port", "connect", "firmware", "erase"} => v.progress = 0
  /\ v.stage = "write" => v.progress < Flasher!Chunks
  /\ v.stage \in {"port", "connect"} /\ v.using # None => v.firmware # None
  /\ v.stage \in {"port", "connect"} => v.using = v.firmware \/ p.swapped
  /\ v.stage \in {"erase", "write", "reset"} =>
       v.using # None /\ v.firmware # None /\ (v.using = v.firmware \/ p.swapped)
  /\ v.stage = "reset" => s.has = v.using
  /\ s.erased => v.firmware # None
  /\ v.status = "done" => s.has # None /\ (s.has = v.firmware \/ p.swapped)

FlasherCore(s, v, p) == FlasherTypes(s, v, p) /\ Attempt(s, v, p)

\* The attempt that waits for r.
Mine(r) == r.op = "download" /\ r.arg = "flash"

FlasherFlight(fs, v) ==
  /\ fs \in Seq(FlasherRequests)
  /\ \A i \in DOMAIN fs : Mine(fs[i]) => v.stage = "firmware"
  /\ \A i, j \in DOMAIN fs : Mine(fs[i]) /\ Mine(fs[j]) => i = j

FlasherInv == FlasherCore(server, view, past) /\ FlasherFlight(flight, view)

LEMMA FlasherFetch ==
  /\ \A fs, i : Flasher!Handled(fs, i) = F!Handled(fs, i)
  /\ \A fs, i, o, d : Flasher!Served(fs, i, o, d) = F!Served(fs, i, o, d)
  /\ \A op, a : Flasher!Request(op, a) = F!Request(op, a)
  BY DEF Flasher!Handled, F!Handled, Flasher!Served, F!Served, Flasher!Request, F!Request

LEMMA FlasherClosed ==
  /\ Closed(FlasherRequests, FlasherOps, FlasherArgs, FlasherData)
  /\ \A r \in FlasherRequests :
       /\ FlasherAsk(r) /\ r.op \in FlasherOps /\ r.outcome \in F!Outcomes /\ r.late \in BOOLEAN
  /\ {} \in FlasherData
<1>1. \A r \in FlasherAll : r.op \in FlasherOps /\ r.outcome \in F!Outcomes /\ r.late \in BOOLEAN
  BY DEF FlasherAll, Requests
<1>2. \A r \in FlasherAll, q \in FlasherRequests : Alike(r, q) => r \in FlasherRequests
  BY DEF FlasherRequests, FlasherAsk, Alike
<1> QED
  BY <1>1, <1>2 DEF Closed, FlasherRequests, FlasherAll, FlasherData

LEMMA FlasherFacts ==
  ASSUME FlasherInv
  PROVE  \A i \in DOMAIN flight : flight[i] \in FlasherRequests /\ FlasherAsk(flight[i])
<1>1. flight \in Seq(FlasherRequests)
  BY DEF FlasherInv, FlasherFlight
<1>2. \A i \in DOMAIN flight : flight[i] \in FlasherRequests
  BY <1>1
<1> QED
  BY <1>2, FlasherClosed

\* One more download or file.
LEMMA FlasherSent ==
  ASSUME NEW fs, NEW v, FlasherFlight(fs, v), NEW w, NEW op \in FlasherOps,
         NEW arg \in FlasherArgs, op = "reader" => arg \in Names,
         IF op = "download" /\ arg = "flash" THEN v.stage # "firmware" /\ w.stage = "firmware"
         ELSE w.stage = v.stage
  PROVE  FlasherFlight(Append(fs, Flasher!Request(op, arg)), w)
<1> DEFINE q == F!Request(op, arg)
           gs == Append(fs, q)
           n == Len(fs)
<1>1. fs \in Seq(FlasherRequests) /\ n \in Nat /\ DOMAIN fs = 1..n
  BY DEF FlasherFlight
<1>2. \A r \in FlasherAll : r.op = op /\ r.arg = arg /\ r.outcome = "none" => r \in FlasherRequests
  BY DEF FlasherRequests, FlasherAsk
<1>3. /\ gs \in Seq(FlasherRequests) /\ DOMAIN gs = 1..(n + 1) /\ (\A j \in DOMAIN fs : gs[j] = fs[j])
      /\ gs[n + 1] = q
  BY <1>1, <1>2, SentIn, FlasherClosed DEF FlasherAll
<1>4. Mine(q) <=> op = "download" /\ arg = "flash"
  BY DEF Mine, F!Request
<1> HIDE DEF q, gs, n
<1>5. \A j \in DOMAIN gs : j \in DOMAIN fs \/ j = n + 1
  BY <1>1, <1>3
<1>6. FlasherFlight(gs, w)
  BY <1>1, <1>3, <1>4, <1>5 DEF FlasherFlight
<1> QED
  BY <1>6, FlasherFetch DEF gs, q

\* A request is done with.
LEMMA FlasherHandled ==
  ASSUME NEW fs, NEW v, FlasherFlight(fs, v), NEW w, NEW i \in DOMAIN fs,
         w.stage = v.stage \/ Mine(fs[i])
  PROVE  FlasherFlight(Flasher!Handled(fs, i), w)
<1> DEFINE gs == F!Handled(fs, i)
           n == Len(fs)
<1>1. fs \in Seq(FlasherRequests) /\ n \in Nat /\ i \in 1..n
  BY DEF FlasherFlight
<1>2. /\ gs \in Seq(FlasherRequests) /\ DOMAIN gs = 1..(n - 1)
      /\ \A k \in 1..(n - 1) : Skip(i, k) \in DOMAIN fs \ {i} /\ Alike(gs[k], fs[Skip(i, k)])
  BY <1>1, HandledIn, FlasherClosed
<1> HIDE DEF gs, n
<1>3. \A k \in DOMAIN gs : Mine(gs[k]) <=> Mine(fs[Skip(i, k)])
  BY <1>2 DEF Mine, Alike
<1>4. \A j, k \in DOMAIN gs : Skip(i, j) = Skip(i, k) => j = k
  <2>1. DOMAIN gs \subseteq Int /\ i \in Int
    BY <1>1, <1>2
  <2> QED
    BY <2>1 DEF Skip
<1>5. \A k \in DOMAIN gs : Mine(gs[k]) => w.stage = "firmware"
  <2> SUFFICES ASSUME NEW k \in DOMAIN gs, Mine(gs[k])
               PROVE  w.stage = "firmware"
    OBVIOUS
  <2>1. Skip(i, k) \in DOMAIN fs /\ Skip(i, k) # i /\ Mine(fs[Skip(i, k)])
    BY <1>2, <1>3
  <2>2. ~Mine(fs[i])
    BY <2>1 DEF FlasherFlight
  <2> QED
    BY <2>1, <2>2 DEF FlasherFlight
<1>6. FlasherFlight(gs, w)
  BY <1>2, <1>3, <1>4, <1>5 DEF FlasherFlight
<1> QED
  BY <1>6, FlasherFetch DEF gs

\* A download was answered, or failed.
LEMMA FlasherServed ==
  ASSUME NEW fs, NEW v, FlasherFlight(fs, v), NEW i \in DOMAIN fs, fs[i].op = "download",
         NEW outcome \in {"ok", "throws"}, NEW data \in FlasherData,
         outcome = "ok" => data \in Names
  PROVE  FlasherFlight(Flasher!Served(fs, i, outcome, data), v)
<1> DEFINE gs == F!Served(fs, i, outcome, data)
<1>1. fs \in Seq(FlasherRequests) /\ outcome \in F!Outcomes
  BY DEF FlasherFlight, F!Outcomes
<1>2. \A r \in FlasherAll :
        r.op = fs[i].op /\ r.arg = fs[i].arg /\ r.outcome = outcome /\ r.data = data =>
          r \in FlasherRequests
  BY DEF FlasherRequests, FlasherAsk
<1>3. /\ gs \in Seq(FlasherRequests) /\ DOMAIN gs = DOMAIN fs /\ \A j \in DOMAIN fs \ {i} : gs[j] = fs[j]
      /\ gs[i].op = fs[i].op /\ gs[i].arg = fs[i].arg
  BY <1>1, <1>2, ServedIn, FlasherClosed DEF FlasherAll
<1> HIDE DEF gs
<1>4. \A j \in DOMAIN gs : Mine(gs[j]) <=> Mine(fs[j])
  BY <1>3 DEF Mine
<1>5. FlasherFlight(gs, v)
  BY <1>3, <1>4 DEF FlasherFlight
<1> QED
  BY <1>5, FlasherFetch DEF gs

\* Steps that send nothing and leave no stage that a download belongs to.
LEMMA FlasherQuiet ==
  ASSUME FlasherInv, FlasherCore(server', view', past'), UNCHANGED flight,
         view'.stage = view.stage \/ view.stage # "firmware"
  PROVE  FlasherInv'
  BY DEF FlasherInv, FlasherFlight

\* The buttons.
LEMMA FlasherPage ==
  ASSUME FlasherInv,
         \/ Flasher!FetchFirmware \/ Flasher!Flash \/ Flasher!FlashAnother
         \/ \E file \in Names : Flasher!FileUpload(file)
         \/ \E rate \in Flasher!Rates : Flasher!SetBaudRate(rate)
         \/ \E index \in 0..3 : Flasher!Continue(index)
  PROVE  FlasherInv'
<1>1. FlasherCore(server, view, past) /\ FlasherFlight(flight, view)
  BY DEF FlasherInv
<1>2. FlasherCore(server, view, Flasher!Acted)
  BY <1>1 DEF FlasherCore, FlasherTypes, FlasherViews, Attempt, Flasher!Acted
<1>3. CASE Flasher!FetchFirmware
  BY <1>1, <1>2, <1>3, FlasherSent
     DEF Flasher!FetchFirmware, Flasher!Download, FlasherOps, FlasherArgs, FlasherInv
<1>4. CASE Flasher!Flash
  <2>1. /\ view.status \notin {"connecting", "flashing"} /\ UNCHANGED <<server, flight>>
        /\ view' = [view EXCEPT !.status = "connecting", !.progress = 0, !.stage = "port",
                                !.using = view.firmware, !.tries = view.rate]
        /\ past' = [past EXCEPT !.steps = past.steps + 1, !.swapped = FALSE]
    BY <1>4 DEF Flasher!Flash, Flasher!OffersFlash, Flasher!Acted
  <2>5. view \in FlasherViews /\ Flasher!Rates \subseteq Int
    BY <1>1 DEF FlasherCore, FlasherTypes, Flasher!Rates
  <2>6. "connecting" \in Flasher!Statuses /\ "port" \in Flasher!Stages /\ 0 \in 0..Flasher!Chunks
    BY DEF Flasher!Statuses, Flasher!Stages, Flasher!Chunks
  <2>7. view' \in FlasherViews
    BY <2>1, <2>5, <2>6 DEF FlasherViews
  <2>2. FlasherTypes(server', view', past')
    BY <1>1, <2>1, <2>7 DEF FlasherCore, FlasherTypes
  <2>3. /\ view'.status = "connecting" /\ view'.stage = "port" /\ view'.progress = 0
        /\ view'.using = view'.firmware /\ view'.firmware = view.firmware
    BY <1>1, <2>1 DEF FlasherCore, FlasherTypes, FlasherViews
  <2>4. FlasherCore(server', view', past')
    BY <1>1, <2>1, <2>2, <2>3 DEF FlasherCore, Attempt
  <2> QED
    BY <1>1, <2>1, <2>4, FlasherQuiet DEF FlasherCore, Attempt
<1>5. CASE Flasher!FlashAnother
  <2>1. /\ view.status = "done" /\ UNCHANGED flight /\ past' = Flasher!Acted
        /\ view' = [view EXCEPT !.active = 0, !.status = "idle", !.progress = 0, !.firmware = None]
        /\ server' = [erased |-> FALSE, has |-> None]
    BY <1>5 DEF Flasher!FlashAnother
  <2>5. view \in FlasherViews
    BY <1>1 DEF FlasherCore, FlasherTypes
  <2>6. "idle" \in Flasher!Statuses /\ 0 \in 0..3 /\ 0 \in 0..Flasher!Chunks /\ None \in Files
    BY DEF Flasher!Statuses, Flasher!Chunks, Files
  <2>7. view' \in FlasherViews
    BY <2>1, <2>5, <2>6 DEF FlasherViews
  <2>2. FlasherTypes(server', view', past')
    BY <1>1, <1>2, <2>1, <2>6, <2>7 DEF FlasherCore, FlasherTypes
  <2>3. view'.stage = "none" /\ view.stage = "none" /\ view'.status = "idle"
    BY <1>1, <2>1 DEF FlasherCore, FlasherTypes, FlasherViews, Attempt
  <2>4. FlasherCore(server', view', past')
    BY <2>1, <2>2, <2>3 DEF FlasherCore, Attempt
  <2> QED
    BY <2>1, <2>3, <2>4, FlasherQuiet
<1>6. ASSUME NEW file \in Names, Flasher!FileUpload(file)
      PROVE  FlasherInv'
  BY <1>1, <1>2, <1>6, FlasherSent DEF Flasher!FileUpload, FlasherOps, FlasherArgs, FlasherInv
<1>7. ASSUME NEW rate \in Flasher!Rates, Flasher!SetBaudRate(rate)
      PROVE  FlasherInv'
  <2>1. /\ view' = [view EXCEPT !.rate = rate] /\ past' = Flasher!Acted
        /\ UNCHANGED <<server, flight>>
    BY <1>7 DEF Flasher!SetBaudRate
  <2>2. FlasherCore(server', view', past')
    BY <1>2, <2>1 DEF FlasherCore, FlasherTypes, FlasherViews, Attempt
  <2>3. view'.stage = view.stage
    BY <1>1, <2>1 DEF FlasherCore, FlasherTypes, FlasherViews, Attempt
  <2> QED
    BY <2>1, <2>2, <2>3, FlasherQuiet
<1>8. ASSUME NEW index \in 0..3, Flasher!Continue(index)
      PROVE  FlasherInv'
  <2>1. /\ view' = [view EXCEPT !.active = index + 1] /\ past' = Flasher!Acted
        /\ UNCHANGED <<server, flight>> /\ index < view.active
    BY <1>8 DEF Flasher!Continue
  <2>2. index + 1 \in 0..3
    BY <1>1, <2>1 DEF FlasherCore, FlasherTypes, FlasherViews, Attempt
  <2>3. FlasherCore(server', view', past')
    BY <1>2, <2>1, <2>2 DEF FlasherCore, FlasherTypes, FlasherViews, Attempt
  <2>4. view'.stage = view.stage
    BY <1>1, <2>1 DEF FlasherCore, FlasherTypes, FlasherViews, Attempt
  <2> QED
    BY <2>1, <2>3, <2>4, FlasherQuiet
<1> QED
  BY <1>3, <1>4, <1>5, <1>6, <1>7, <1>8

\* handleFlash from await to await.
LEMMA FlasherRuns ==
  ASSUME FlasherInv,
         \/ Flasher!PortChosen \/ Flasher!NoPortChosen \/ Flasher!Connected
         \/ Flasher!NotConnected \/ Flasher!Erase \/ Flasher!Write \/ Flasher!Restarted
         \/ Flasher!BoardFails
  PROVE  FlasherInv'
<1>1. FlasherCore(server, view, past) /\ FlasherFlight(flight, view)
  BY DEF FlasherInv
<1>2. ASSUME Flasher!MayFault
      PROVE  FlasherCore(server, view, past') /\ past'.swapped = past.swapped
  <2>1. past' = [past EXCEPT !.faults = past.faults + 1]
    BY <1>2 DEF Flasher!MayFault
  <2> QED
    BY <1>1, <2>1 DEF FlasherCore, FlasherTypes, FlasherViews, Attempt
<1>3. ASSUME NEW status \in {"idle", "error"}, NEW p, FlasherCore(server, view, p)
      PROVE  FlasherCore(server, Flasher!Thrown(status), p)
  BY <1>3 DEF FlasherCore, FlasherTypes, FlasherViews, Attempt, Flasher!Thrown, Flasher!Statuses, Flasher!Stages
<1>4. CASE Flasher!PortChosen
  <2>1. /\ view.stage = "port" /\ view' = [view EXCEPT !.stage = "connect"]
        /\ UNCHANGED <<server, flight, past>>
    BY <1>4 DEF Flasher!PortChosen, Flasher!At, Flasher!Goes
  <2>2. FlasherCore(server', view', past')
    BY <1>1, <2>1 DEF FlasherCore, FlasherTypes, FlasherViews, Attempt, Flasher!Stages
  <2> QED
    BY <2>1, <2>2, FlasherQuiet
<1>5. CASE Flasher!NoPortChosen
  BY <1>1, <1>3, <1>5, FlasherQuiet DEF Flasher!NoPortChosen, Flasher!At, Flasher!Goes
<1>6. CASE Flasher!Connected
  <2>1. /\ view.stage = "connect" /\ UNCHANGED <<server, past>>
        /\ view' = [view EXCEPT !.status = "flashing", !.active = 2,
                                !.stage = IF view.using = None THEN "firmware" ELSE "erase"]
        /\ flight' = IF view.using = None THEN Append(flight, Flasher!Request("download", "flash"))
                     ELSE flight
    BY <1>6 DEF Flasher!Connected, Flasher!At, Flasher!Download
  <2> DEFINE next == IF view.using = None THEN "firmware" ELSE "erase"
  <2>7. view \in FlasherViews
    BY <1>1 DEF FlasherCore, FlasherTypes
  <2>8. 2 \in 0..3 /\ "flashing" \in Flasher!Statuses /\ next \in Flasher!Stages
    BY DEF Flasher!Statuses, Flasher!Stages
  <2> HIDE DEF next
  <2>10. view' = [view EXCEPT !.status = "flashing", !.active = 2, !.stage = next]
    BY <2>1 DEF next
  <2>9. view' \in FlasherViews
    BY <2>7, <2>8, <2>10 DEF FlasherViews
  <2>5. FlasherTypes(server', view', past')
    BY <1>1, <2>1, <2>9 DEF FlasherCore, FlasherTypes
  <2> USE DEF next
  <2>6. /\ view'.status = "flashing" /\ view'.stage = next /\ view'.progress = view.progress
        /\ view'.using = view.using /\ view'.firmware = view.firmware
    BY <1>1, <2>1 DEF FlasherCore, FlasherTypes, FlasherViews
  <2>2. FlasherCore(server', view', past')
    BY <1>1, <2>1, <2>5, <2>6 DEF FlasherCore, Attempt
  <2>3. CASE view.using = None
    <3>1. view'.stage = "firmware"
      BY <1>1, <2>1, <2>3 DEF FlasherCore, FlasherTypes, FlasherViews, Attempt
    <3>2. FlasherFlight(flight', view')
      BY <1>1, <2>1, <2>3, <3>1, FlasherSent DEF FlasherOps, FlasherArgs
    <3> QED
      BY <2>2, <3>2 DEF FlasherInv
  <2>4. CASE view.using # None
    BY <2>1, <2>2, <2>4, FlasherQuiet
  <2> QED
    BY <2>3, <2>4
<1>7. CASE Flasher!NotConnected
  <2>1. /\ view.stage = "connect" /\ Flasher!MayFault /\ UNCHANGED <<server, flight>>
        /\ view' = IF view.tries = 1 THEN Flasher!Thrown("error")
                   ELSE [view EXCEPT !.tries = view.tries - 1]
    BY <1>7 DEF Flasher!NotConnected, Flasher!At
  <2>2. CASE view.tries = 1
    BY <1>2, <1>3, <2>1, <2>2, FlasherQuiet
  <2>3. CASE view.tries # 1
    <3>1. FlasherCore(server', view', past')
      <4>1. FlasherCore(server, view, past')
        BY <1>2, <2>1
      <4> QED
        BY <2>1, <2>3, <4>1 DEF FlasherCore, FlasherTypes, FlasherViews, Attempt
    <3> QED
      BY <2>1, <3>1, FlasherQuiet
  <2> QED
    BY <2>2, <2>3
<1>8. CASE Flasher!Erase
  <2>1. /\ view.stage = "erase" /\ view' = [view EXCEPT !.stage = "write"]
        /\ server' = [erased |-> TRUE, has |-> None] /\ UNCHANGED <<flight, past>>
    BY <1>8 DEF Flasher!Erase, Flasher!At
  <2>2. FlasherCore(server', view', past')
    BY <1>1, <2>1 DEF FlasherCore, FlasherTypes, FlasherViews, Attempt, Flasher!Stages, Flasher!Chunks, Files
  <2> QED
    BY <2>1, <2>2, FlasherQuiet
<1>9. CASE Flasher!Write
  <2> DEFINE last == view.progress + 1 = Flasher!Chunks
  <2>1. /\ view.stage = "write" /\ UNCHANGED <<flight, past>>
        /\ view' = [view EXCEPT !.progress = view.progress + 1,
                                !.stage = IF last THEN "reset" ELSE "write"]
        /\ server' = IF last THEN [erased |-> FALSE, has |-> view.using] ELSE server
    BY <1>9 DEF Flasher!Write, Flasher!At
  <2>2. /\ view.progress + 1 \in 0..Flasher!Chunks
        /\ ~last => view.progress + 1 < Flasher!Chunks
    BY <1>1, <2>1 DEF FlasherCore, FlasherTypes, FlasherViews, Attempt, Flasher!Chunks
  <2> HIDE DEF last
  <2>3. FlasherCore(server', view', past')
    BY <1>1, <2>1, <2>2 DEF FlasherCore, FlasherTypes, FlasherViews, Attempt, Flasher!Stages
  <2> QED
    BY <2>1, <2>3, FlasherQuiet
<1>10. CASE Flasher!Restarted
  <2>1. /\ view.stage = "reset" /\ UNCHANGED <<server, flight, past>>
        /\ view' = [view EXCEPT !.stage = "none", !.status = "done", !.active = 3]
    BY <1>10 DEF Flasher!Restarted, Flasher!At, Flasher!Goes
  <2>5. view \in FlasherViews
    BY <1>1 DEF FlasherCore, FlasherTypes
  <2>6. 3 \in 0..3 /\ "done" \in Flasher!Statuses /\ "none" \in Flasher!Stages
    BY DEF Flasher!Statuses, Flasher!Stages
  <2>7. view' \in FlasherViews
    BY <2>1, <2>5, <2>6 DEF FlasherViews
  <2>2. FlasherTypes(server', view', past')
    BY <1>1, <2>1, <2>7 DEF FlasherCore, FlasherTypes
  <2>3. /\ view'.status = "done" /\ view'.stage = "none"
        /\ view'.using = view.using /\ view'.firmware = view.firmware
    BY <1>1, <2>1 DEF FlasherCore, FlasherTypes, FlasherViews
  <2>4. FlasherCore(server', view', past')
    BY <1>1, <2>1, <2>2, <2>3 DEF FlasherCore, Attempt
  <2> QED
    BY <2>1, <2>4, FlasherQuiet
<1>11. CASE Flasher!BoardFails
  BY <1>2, <1>3, <1>11, FlasherQuiet DEF Flasher!BoardFails
<1> QED
  BY <1>4, <1>5, <1>6, <1>7, <1>8, <1>9, <1>10, <1>11

\* A firmware is there, or the download failed.
LEMMA FlasherServes ==
  ASSUME FlasherInv, NEW i \in DOMAIN flight, Flasher!ServeDownload(i) \/ Flasher!DownloadFails(i)
  PROVE  FlasherInv'
<1>1. FlasherCore(server, view, past) /\ FlasherFlight(flight, view)
  BY DEF FlasherInv
<1>2. CASE Flasher!ServeDownload(i)
  <2>1. /\ flight[i].op = "download" /\ flight' = Flasher!Served(flight, i, "ok", Flasher!Site)
        /\ UNCHANGED <<server, view, past>>
    BY <1>2 DEF Flasher!ServeDownload, Flasher!Waiting
  <2>2. Flasher!Site \in Names /\ Flasher!Site \in FlasherData
    BY NamesAssumption DEF Flasher!Site, FlasherData
  <2>3. FlasherFlight(flight', view)
    BY <1>1, <2>1, <2>2, FlasherServed
  <2> QED
    BY <1>1, <2>1, <2>3 DEF FlasherInv
<1>3. CASE Flasher!DownloadFails(i)
  <2>1. /\ flight[i].op = "download" /\ flight' = Flasher!Served(flight, i, "throws", {})
        /\ UNCHANGED <<server, view>> /\ past' = [past EXCEPT !.faults = past.faults + 1]
    BY <1>3 DEF Flasher!DownloadFails, Flasher!Waiting, Flasher!MayFault
  <2>2. FlasherFlight(flight', view)
    BY <1>1, <2>1, FlasherServed, FlasherClosed
  <2>3. FlasherCore(server, view, past')
    BY <1>1, <2>1 DEF FlasherCore, FlasherTypes, Attempt
  <2> QED
    BY <2>1, <2>2, <2>3 DEF FlasherInv
<1> QED
  BY <1>2, <1>3

\* A firmware was loaded by a button.
LEMMA FlasherReady ==
  ASSUME FlasherInv, NEW file \in Names, view' = Flasher!Ready(view, file), past' = Flasher!Noted,
         UNCHANGED server
  PROVE  FlasherCore(server', view', past') /\ view'.stage = view.stage
<1>1. FlasherCore(server, view, past)
  BY DEF FlasherInv
<1>2. /\ view' = [view EXCEPT !.firmware = file] /\ file \in Files /\ file # None
      /\ past' = [past EXCEPT !.swapped = past.swapped
                                          \/ view.status \in {"connecting", "flashing", "done"}]
  BY NoneAssumption DEF Flasher!Ready, Flasher!Noted, Files
<1>3. FlasherTypes(server', view', past')
  BY <1>1, <1>2 DEF FlasherCore, FlasherTypes, FlasherViews
<1>4. /\ view'.status = view.status /\ view'.stage = view.stage /\ view'.progress = view.progress
      /\ view'.using = view.using /\ view'.firmware = file
      /\ past.swapped => past'.swapped
      /\ view.status \in {"connecting", "flashing", "done"} => past'.swapped
  BY <1>1, <1>2 DEF FlasherCore, FlasherTypes, FlasherViews
<1> QED
  BY <1>1, <1>2, <1>3, <1>4 DEF FlasherCore, Attempt

LEMMA FlasherHandles ==
  ASSUME FlasherInv, NEW i \in DOMAIN flight, Flasher!HandleDownload(i) \/ Flasher!ReaderLoads(i)
  PROVE  FlasherInv'
<1> DEFINE r == flight[i]
<1>1. FlasherCore(server, view, past) /\ FlasherFlight(flight, view) /\ FlasherAsk(r)
  BY FlasherFacts DEF FlasherInv
<1>2. CASE Flasher!ReaderLoads(i)
  <2>1. /\ r.arg \in Names /\ view' = Flasher!Ready(view, r.arg) /\ UNCHANGED server
        /\ flight' = Flasher!Handled(flight, i) /\ past' = Flasher!Noted
    BY <1>1, <1>2 DEF Flasher!ReaderLoads, Flasher!Waiting, FlasherAsk
  <2>2. FlasherCore(server', view', past') /\ view'.stage = view.stage
    BY <2>1, FlasherReady
  <2> QED
    BY <1>1, <2>1, <2>2, FlasherHandled DEF FlasherInv
<1>3. CASE Flasher!HandleDownload(i)
  <2>1. /\ r.op = "download" /\ r.outcome # "none" /\ flight' = Flasher!Handled(flight, i)
        /\ UNCHANGED server /\ (r.outcome = "ok" => r.data \in Names)
    BY <1>1, <1>3 DEF Flasher!HandleDownload, Flasher!Answers, FlasherAsk
  <2>2. CASE r.outcome = "ok" /\ r.arg # "flash"
    <3>1. view' = Flasher!Ready(view, r.data) /\ past' = Flasher!Noted
      BY <1>3, <2>2 DEF Flasher!HandleDownload
    <3>2. FlasherCore(server', view', past') /\ view'.stage = view.stage
      BY <2>1, <2>2, <3>1, FlasherReady
    <3> QED
      BY <1>1, <2>1, <3>2, FlasherHandled DEF FlasherInv
  <2>3. CASE r.outcome = "ok" /\ r.arg = "flash"
    <3>1. /\ view' = [[view EXCEPT !.firmware = r.data] EXCEPT !.using = r.data, !.stage = "erase"]
          /\ past' = past
      BY <1>3, <2>3 DEF Flasher!HandleDownload, Flasher!Ready
    <3>2. view.stage = "firmware" /\ Mine(r)
      BY <1>1, <2>1, <2>3 DEF FlasherFlight, Mine
    <3>3. /\ view \in FlasherViews /\ r.data \in Files /\ r.data # None
          /\ "erase" \in Flasher!Stages
      BY <1>1, <2>1, <2>3, NoneAssumption DEF FlasherCore, FlasherTypes, Files, Flasher!Stages
    <3> HIDE DEF r
    <3>4. /\ view' \in FlasherViews
      BY <3>1, <3>3 DEF FlasherViews
    <3>5. /\ view'.status = view.status /\ view'.stage = "erase" /\ view'.progress = view.progress
          /\ view'.using = r.data /\ view'.firmware = r.data
      BY <3>1, <3>3 DEF FlasherViews
    <3>6. FlasherTypes(server', view', past')
      BY <1>1, <2>1, <3>1, <3>4 DEF FlasherCore, FlasherTypes
    <3>7. Attempt(server', view', past')
      BY <1>1, <2>1, <3>1, <3>2, <3>3, <3>5 DEF FlasherCore, Attempt
    <3> QED
      BY <1>1, <2>1, <3>2, <3>6, <3>7, FlasherHandled DEF FlasherInv, FlasherCore, r
  <2>4. CASE r.outcome # "ok" /\ r.arg = "flash"
    <3>1. view' = [view EXCEPT !.stage = "none", !.status = "error"] /\ past' = past
      BY <1>3, <2>4 DEF Flasher!HandleDownload, Flasher!Thrown
    <3>2. Mine(r)
      BY <2>1, <2>4 DEF Mine
    <3>3. FlasherCore(server', view', past')
      BY <1>1, <2>1, <3>1
         DEF FlasherCore, FlasherTypes, FlasherViews, Attempt, Flasher!Stages, Flasher!Statuses
    <3> QED
      BY <1>1, <2>1, <3>2, <3>3, FlasherHandled DEF FlasherInv
  <2>5. CASE r.outcome # "ok" /\ r.arg # "flash"
    <3>1. view' = view /\ past' = past
      BY <1>3, <2>5 DEF Flasher!HandleDownload
    <3> QED
      BY <1>1, <2>1, <3>1, FlasherHandled DEF FlasherInv
  <2> QED
    BY <2>2, <2>3, <2>4, <2>5
<1> QED
  BY <1>2, <1>3

LEMMA FlasherInit == ASSUME Flasher!Init PROVE FlasherInv
<1>1. PICK serial \in BOOLEAN :
        view = [serial |-> serial, status |-> "idle", stage |-> "none", active |-> 0,
                progress |-> 0, firmware |-> None, using |-> None, rate |-> 3, tries |-> 0]
  BY DEF Flasher!Init
<1>2. /\ server = [erased |-> FALSE, has |-> None] /\ flight = <<>>
      /\ past = [swapped |-> FALSE, steps |-> 0, faults |-> 0]
  BY DEF Flasher!Init
<1>3. FlasherTypes(server, view, past)
  BY <1>1, <1>2 DEF FlasherTypes, FlasherViews, Files, Flasher!Statuses, Flasher!Stages,
                    Flasher!Chunks, Flasher!Rates
<1>4. Attempt(server, view, past)
  BY <1>1, <1>2 DEF Attempt
<1>5. FlasherFlight(flight, view)
  BY <1>2 DEF FlasherFlight
<1> QED
  BY <1>3, <1>4, <1>5 DEF FlasherInv, FlasherCore

LEMMA FlasherNext ==
  ASSUME FlasherInv, Flasher!Next
  PROVE  FlasherInv'
  BY FlasherPage, FlasherRuns, FlasherServes, FlasherHandles DEF Flasher!Next

\* The properties of the page.
LEMMA FlasherShows ==
  ASSUME FlasherInv
  PROVE  Flasher!TypeOK /\ Flasher!FlashedAsShown
<1>1. FlasherTypes(server, view, past) /\ Attempt(server, view, past)
  BY DEF FlasherInv, FlasherCore
<1>2. \A i \in DOMAIN flight : Flasher!IsRequest(flight[i], {"download", "reader"})
  BY FlasherFacts, FlasherClosed DEF Flasher!IsRequest, Flasher!Outcomes, F!Outcomes, FlasherOps
<1>3. /\ server.erased \in BOOLEAN /\ server.has \in Names \cup {None}
      /\ view.status \in Flasher!Statuses /\ view.stage \in Flasher!Stages
      /\ {view.firmware, view.using} \subseteq Names \cup {None}
      /\ view.active \in 0..3 /\ view.progress \in 0..Flasher!Chunks /\ view.rate \in Flasher!Rates
  BY <1>1 DEF FlasherTypes, FlasherViews, Files
<1>4. view.status \in {"connecting", "flashing"} <=> view.stage # "none"
  BY <1>1 DEF Attempt
<1>5. Flasher!FlashedAsShown
  BY <1>1 DEF Attempt, Flasher!FlashedAsShown
<1> QED
  BY <1>2, <1>3, <1>4, <1>5 DEF Flasher!TypeOK
=============================================================================
