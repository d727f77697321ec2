-------------------------- MODULE SearchPageProofs --------------------------
(***************************************************************************)
(* Proofs about SearchPage for any number of tabs, steps, requests, polls  *)
(* and failures.                                                           *)
(*                                                                         *)
(* Answers of an earlier search arrive while the tab shows another, so the *)
(* inductive invariant has two halves.  Of every request it says which tab *)
(* and which search wait for the answer.  Of every tab that was not crossed*)
(* since its last wish, it says that all that it shows, polls and decrypts *)
(* is of the one search that was wished for.  Keys are simpler: as long as *)
(* no two tabs were opened at once, there is one.                          *)
(***************************************************************************)
EXTENDS SearchPage, TLAPS, SequenceTheorems

Ids(s) == DOMAIN s.searches

Snapshots(s) == [id : Ids(s), completed : BOOLEAN, found : BOOLEAN]

Phases == {"closed", "loading", "ready", "paywall"}

SearchRecords(n) ==
  [key : 1..n, reason : {"subscription", "trial"}, crawl : {"no", "found", "failed"},
   completed : BOOLEAN]

\* Searches are encrypted for a key that was generated, and for the stored one as long as
\* no two tabs were opened at once.
ServerOK(s, p, stored) ==
  /\ s \in [searches : Seq(SearchRecords(p.keys)), subscribed : {s.subscribed}, trial : {s.trial}]
  /\ \A id \in Ids(s) : /\ s.searches[id].completed => s.searches[id].crawl # "no"
                        /\ ~p.overlapped => s.searches[id].key = stored

PastOK(p) ==
  p \in [steps : {p.steps}, faults : {p.faults}, keys : Nat, overlapped : BOOLEAN,
         wanted : [Tabs -> {p.wanted[t] : t \in Tabs}], crossed : [Tabs -> BOOLEAN]]

TabTypes(s, n) ==
  [phase : Phases, pub : 0..n, searching : BOOLEAN, current : Snapshots(s) \cup {None},
   text : [of : Ids(s), plain : BOOLEAN] \cup {None}, history : SUBSET Snapshots(s),
   asking : SUBSET (1..n), polls : SUBSET [id : Ids(s), left : 0..MaxPolls],
   decrypts : SUBSET [id : Ids(s), key : 0..n, polled : BOOLEAN]]

\* Everything that a tab shows or is about to show is of the search that is wanted.
Shown(v, id) ==
  /\ v.current # None => v.current.id = id
  /\ v.text # None => v.text.of = id
  /\ \A q \in v.polls : q.id = id
  /\ \A d \in v.decrypts : d.id = id

\* A tab knows the stored key, if it knows one, and reads with it.
OneKey(v, stored) ==
  /\ v.pub \in {0, stored} /\ (v.phase = "loading" => v.pub = stored)
  /\ \A d \in v.decrypts : d.key = stored
  /\ v.text # None => v.text.plain

TabOK(v, t, s, p, stored) ==
  /\ v \in TabTypes(s, p.keys)
  /\ \A q, r \in v.polls : q.id = r.id => q = r
  /\ v.polls # {} => v.phase = "ready"
  /\ ~p.crossed[t] => Shown(v, p.wanted[t])
  /\ ~p.overlapped => OneKey(v, stored)

ViewOK(w, s, p) ==
  /\ w \in [stored : 0..p.keys, webCrypto : BOOLEAN, profile : {w.profile},
            tabs : [Tabs -> TabTypes(s, p.keys)]]
  /\ \A t \in Tabs : TabOK(w.tabs[t], t, s, p, w.stored)
  /\ ~p.overlapped => \A t, u \in Tabs :
       w.tabs[t].phase = "loading" /\ w.tabs[u].phase = "loading" => t = u

\* A tab that has just been asked for a new search has nothing else to show.
Waits(v) == v.polls = {} /\ v.decrypts = {} /\ v.current = None /\ v.text = None

\* What a request says of keys and searches.
Sound(r, s, p, stored) ==
  /\ r.op = "search" =>
       /\ r.arg.key \in 1..p.keys /\ (~p.overlapped => r.arg.key = stored)
       /\ r.outcome = "none" => r.data \subseteq {"subscription", "trial"}
       /\ r.outcome = "ok" => \E id \in Ids(s) : r.data = {id}
  /\ r.op = "get" =>
       /\ r.arg.id \in Ids(s)
       /\ r.outcome = "ok" => \E x \in Snapshots(s) : r.data = {x} /\ x.id = r.arg.id

\* How the tab v that waits for request r is.
Here(r, v, p) ==
  /\ v.phase = "ready"
  /\ r.op = "search" =>
       /\ v.searching
       /\ ~p.crossed[r.arg.tab] => p.wanted[r.arg.tab] = None /\ Waits(v)
  /\ r.op = "get" => \E q \in v.polls : q.id = r.arg.id

\* The search that is created is not polled yet.
Unpolled(r, v) ==
  r.op = "search" /\ r.outcome = "ok" => \A q \in v.polls : q.id \notin r.data

IsReq(r) ==
  /\ r \in [op : {"search", "get"}, arg : {r.arg}, outcome : Outcomes, data : {r.data},
            late : BOOLEAN]
  /\ r.op = "search" => r.arg \in [tab : Tabs \cup {None}, key : Nat]
  /\ r.op = "get" => r.arg \in [tab : Tabs \cup {None}, id : Nat]
  /\ r.arg.tab \in Tabs \cup {None}

ReqOK(r, s, w, p) ==
  /\ IsReq(r) /\ Sound(r, s, p, w.stored)
  /\ \A t \in Tabs : Unpolled(r, w.tabs[t])
  /\ r.arg.tab # None => Here(r, w.tabs[r.arg.tab], p)

\* Two requests: a tab waits for one new search at a time, a poll for one answer, and no
\* search is created twice.
PairOK(r, q) ==
  r.op = q.op =>
    /\ r.op = "search" => r.arg.tab # q.arg.tab \/ r.arg.tab = None
    /\ r.op = "get" => r.arg # q.arg \/ r.arg.tab = None
    /\ r.op = "search" /\ r.outcome = "ok" /\ q.outcome = "ok" => r.data \cap q.data = {}

\* The requests other than number i.
OthersOK(fs, i, s, w, p) ==
  /\ fs \in Seq(Range(fs))
  /\ \A j \in DOMAIN fs \ {i} : ReqOK(fs[j], s, w, p)
  /\ \A j, k \in DOMAIN fs \ {i} : j # k => PairOK(fs[j], fs[k])

FlightOK(fs, s, w, p) == OthersOK(fs, 0, s, w, p)

IInv ==
  /\ ServerOK(server, past, view.stored) /\ PastOK(past) /\ ViewOK(view, server, past)
  /\ FlightOK(flight, server, view, past)
-----------------------------------------------------------------------------
(* Sequences of requests. *)

\* r is q, or q marked as late.
Alike(r, q) ==
  r \in [op : {q.op}, arg : {q.arg}, outcome : {q.outcome}, data : {q.data}, late : BOOLEAN]

\* What is true of a request is true of one that is only marked as late.
LEMMA AlikeOK ==
  ASSUME NEW r, NEW q, Alike(r, q), NEW s, NEW w, NEW p
  PROVE  /\ ReqOK(q, s, w, p) => ReqOK(r, s, w, p)
         /\ \A x : (PairOK(q, x) <=> PairOK(r, x)) /\ (PairOK(x, q) <=> PairOK(x, r))
<1>1. ReqOK(q, s, w, p) => ReqOK(r, s, w, p)
  <2> SUFFICES ASSUME ReqOK(q, s, w, p) PROVE ReqOK(r, s, w, p)
    OBVIOUS
  <2>1. r.op = q.op /\ r.arg = q.arg /\ r.outcome = q.outcome /\ r.data = q.data /\ IsReq(r)
    BY DEF Alike, ReqOK, IsReq
  <2>2. Sound(r, s, p, w.stored) /\ (r.arg.tab # None => Here(r, w.tabs[r.arg.tab], p))
    BY <2>1 DEF ReqOK, Sound, Here
  <2>3. \A t \in Tabs : Unpolled(r, w.tabs[t])
    BY <2>1 DEF ReqOK, Unpolled
  <2> QED
    BY <2>1, <2>2, <2>3 DEF ReqOK
<1>2. \A x : (PairOK(q, x) <=> PairOK(r, x)) /\ (PairOK(x, q) <=> PairOK(x, r))
  BY DEF Alike, PairOK
<1> QED
  BY <1>1, <1>2

\* A sequence is one of its entries.
LEMMA OwnRange ==
  ASSUME NEW S, NEW q \in Seq(S)
  PROVE  /\ q \in Seq(Range(q)) /\ Len(q) \in Nat /\ DOMAIN q = 1..Len(q)
         /\ q = [i \in 1..Len(q) |-> q[i]]
<1>1. Len(q) \in Nat /\ DOMAIN q = 1..Len(q) /\ q = [i \in 1..Len(q) |-> q[i]]
  OBVIOUS
<1>2. \A i \in 1..Len(q) : q[i] \in Range(q)
  BY <1>1 DEF Range
<1> QED
  BY <1>1, <1>2

\* Where request k of Handled(fs, i) was.
Skip(i, k) == IF k < i THEN k ELSE k + 1

\* A request is like itself, late or not.
LEMMA MarkedLate ==
  ASSUME NEW q, IsReq(q)
  PROVE  Alike(q, q) /\ Alike([q EXCEPT !.late = TRUE], q)
  BY DEF Alike, IsReq

\* Handled(fs, i) has the requests of fs other than number i, each of them once.
LEMMA HandledEntries ==
  ASSUME NEW fs, fs \in Seq(Range(fs)), NEW i \in DOMAIN fs, \A j \in DOMAIN fs \ {i} : IsReq(fs[j])
  PROVE  /\ Handled(fs, i) \in Seq(Range(Handled(fs, i)))
         /\ \A k \in DOMAIN Handled(fs, i) :
              Skip(i, k) \in DOMAIN fs \ {i} /\ Alike(Handled(fs, i)[k], fs[Skip(i, k)])
         /\ \A j, k \in DOMAIN Handled(fs, i) : j # k => Skip(i, j) # Skip(i, k)
<1> DEFINE h == Handled(fs, i)
           m == Len(fs)
<1>1. m \in Nat /\ DOMAIN fs = 1..m /\ i \in 1..m
  BY OwnRange
<1>2. DOMAIN h = 1..(m - 1) /\ h = [k \in 1..(m - 1) |-> h[k]]
  BY DEF Handled
<1>3. \A k \in 1..(m - 1) : Skip(i, k) \in (1..m) \ {i}
  BY <1>1 DEF Skip
<1>4. \A j, k \in 1..(m - 1) : j # k => Skip(i, j) # Skip(i, k)
  BY <1>1 DEF Skip
<1>5. ASSUME NEW k \in 1..(m - 1)
      PROVE  Alike(h[k], fs[Skip(i, k)])
  <2>1. h[k] \in {fs[Skip(i, k)], [fs[Skip(i, k)] EXCEPT !.late = TRUE]}
    BY DEF Handled, Skip
  <2> QED
    BY <1>1, <1>3, <2>1, MarkedLate
<1> HIDE DEF h
<1>6. h \in Seq(Range(h))
  <2>1. \A k \in 1..(m - 1) : h[k] \in Range(h)
    BY <1>2 DEF Range
  <2>2. CASE m - 1 \in Nat
    BY <1>2, <2>1, <2>2
  <2> QED
    BY <1>1, <2>2
<1> QED
  BY <1>1, <1>2, <1>3, <1>4, <1>5, <1>6 DEF h

\* What is left when request i was handled.
LEMMA HandledOK ==
  ASSUME NEW fs, NEW i \in DOMAIN fs, NEW s, NEW w, NEW p, OthersOK(fs, i, s, w, p)
  PROVE  FlightOK(Handled(fs, i), s, w, p)
<1> DEFINE h == Handled(fs, i)
<1>1. /\ fs \in Seq(Range(fs))
      /\ \A j \in DOMAIN fs \ {i} : ReqOK(fs[j], s, w, p) /\ IsReq(fs[j])
      /\ \A j, k \in DOMAIN fs \ {i} : j # k => PairOK(fs[j], fs[k])
  BY DEF OthersOK, ReqOK
<1>2. /\ h \in Seq(Range(h))
      /\ \A k \in DOMAIN h : Skip(i, k) \in DOMAIN fs \ {i} /\ Alike(h[k], fs[Skip(i, k)])
      /\ \A j, k \in DOMAIN h : j # k => Skip(i, j) # Skip(i, k)
  BY <1>1, HandledEntries
<1> HIDE DEF h
<1>3. \A k \in DOMAIN h : ReqOK(h[k], s, w, p)
  BY <1>1, <1>2, AlikeOK
<1>4. ASSUME NEW j \in DOMAIN h, NEW k \in DOMAIN h, j # k
      PROVE  PairOK(h[j], h[k])
  <2>1. PairOK(fs[Skip(i, j)], fs[Skip(i, k)])
    BY <1>1, <1>2, <1>4
  <2>2. PairOK(h[j], fs[Skip(i, k)])
    BY <1>2, <2>1, AlikeOK
  <2> QED
    BY <1>2, <2>2, AlikeOK
<1> QED
  BY <1>2, <1>3, <1>4 DEF FlightOK, OthersOK, h

\* One request more.
LEMMA SentOK ==
  ASSUME NEW fs, NEW r, NEW s, NEW w, NEW p, FlightOK(fs, s, w, p),
         ReqOK(r, s, w, p), \A i \in DOMAIN fs : PairOK(fs[i], r) /\ PairOK(r, fs[i])
  PROVE  FlightOK(Append(fs, r), s, w, p)
<1> DEFINE S == Range(fs) \cup {r}
           h == Append(fs, r)
           m == Len(fs)
<1>1. /\ fs \in Seq(Range(fs)) /\ m \in Nat /\ DOMAIN fs = 1..m
      /\ \A j \in 1..m : ReqOK(fs[j], s, w, p)
      /\ \A j, k \in 1..m : j # k => PairOK(fs[j], fs[k])
  <2>1. fs \in Seq(Range(fs)) /\ m \in Nat /\ DOMAIN fs = 1..m
    BY OwnRange DEF FlightOK, OthersOK
  <2> QED
    BY <2>1 DEF FlightOK, OthersOK
<1>2. fs \in Seq(S) /\ r \in S
  BY <1>1
<1>3. /\ h \in Seq(S) /\ Len(h) = m + 1
      /\ \A j \in 1..m : h[j] = fs[j]
      /\ h[m + 1] = r
  BY <1>1, <1>2
<1> HIDE DEF S, h, m
<1>4. h \in Seq(Range(h)) /\ DOMAIN h = 1..(m + 1)
  BY <1>3, OwnRange
<1>5. \A j \in 1..(m + 1) : j \in 1..m \/ j = m + 1
  BY <1>1
<1>6. \A j \in DOMAIN h : ReqOK(h[j], s, w, p)
  BY <1>1, <1>3, <1>4, <1>5
<1>7. \A j, k \in DOMAIN h : j # k => PairOK(h[j], h[k])
  BY <1>1, <1>3, <1>4, <1>5
<1> QED
  BY <1>4, <1>6, <1>7 DEF FlightOK, OthersOK, h

\* One request answered.
LEMMA ServedOK ==
  ASSUME NEW fs, NEW i \in DOMAIN fs, NEW outcome, NEW data, NEW s, NEW w, NEW p,
         OthersOK(fs, i, s, w, p), IsReq(fs[i]), NEW r, r = Served(fs, i, outcome, data)[i],
         ReqOK(r, s, w, p),
         \A j \in DOMAIN fs \ {i} : PairOK(fs[j], r) /\ PairOK(r, fs[j])
  PROVE  FlightOK(Served(fs, i, outcome, data), s, w, p)
<1> DEFINE h == Served(fs, i, outcome, data)
<1>1. /\ fs \in Seq(Range(fs)) /\ i # 0
      /\ \A j \in DOMAIN fs \ {i} : ReqOK(fs[j], s, w, p)
      /\ \A j, k \in DOMAIN fs \ {i} : j # k => PairOK(fs[j], fs[k])
  BY OwnRange DEF OthersOK
<1>2. /\ DOMAIN h = DOMAIN fs /\ \A j \in DOMAIN fs \ {i} : h[j] = fs[j]
      /\ h[i] = r
  BY DEF Served
<1>3. h \in Seq(Range(fs) \cup {r})
  <2>1. Len(fs) \in Nat /\ DOMAIN fs = 1..Len(fs)
    BY <1>1, OwnRange
  <2>2. \A j \in 1..Len(fs) : h[j] \in Range(fs) \cup {r}
    BY <1>2, <2>1 DEF Range
  <2>3. h = [j \in 1..Len(fs) |-> h[j]]
    BY <2>1 DEF Served
  <2> HIDE DEF h
  <2> QED
    BY <2>1, <2>2, <2>3
<1> HIDE DEF h
<1>4. h \in Seq(Range(h))
  BY <1>3, OwnRange
<1> QED
  BY <1>1, <1>2, <1>4 DEF FlightOK, OthersOK, h

\* What a service leaves of a request, and what it adds.
LEMMA AnswerFields ==
  ASSUME NEW fs, NEW i \in DOMAIN fs, IsReq(fs[i]), NEW outcome \in Outcomes, NEW data
  PROVE  LET r == Served(fs, i, outcome, data)[i]
         IN /\ IsReq(r) /\ r.op = fs[i].op /\ r.arg = fs[i].arg
            /\ r.outcome = outcome /\ r.data = data
  BY DEF Served, IsReq

-----------------------------------------------------------------------------
(* The invariant again after a step, from its parts. *)

LEMMA InvFacts ==
  ASSUME IInv
  PROVE  /\ ServerOK(server, past, view.stored) /\ PastOK(past) /\ ViewOK(view, server, past)
         /\ FlightOK(flight, server, view, past)
         /\ past.keys \in Nat /\ past.overlapped \in BOOLEAN
         /\ flight \in Seq(Range(flight)) /\ 0 \notin DOMAIN flight
         /\ \A t \in Tabs : TabOK(Now(t), t, server, past, view.stored)
         /\ \A i \in DOMAIN flight :
              i # 0 /\ IsReq(flight[i]) /\ ReqOK(flight[i], server, view, past)
<1>1. /\ ServerOK(server, past, view.stored) /\ PastOK(past) /\ ViewOK(view, server, past)
      /\ FlightOK(flight, server, view, past)
  BY DEF IInv
<1>2. past.keys \in Nat /\ past.overlapped \in BOOLEAN /\ flight \in Seq(Range(flight))
  BY <1>1 DEF PastOK, FlightOK, OthersOK
<1>3. 0 \notin DOMAIN flight
  BY <1>2, OwnRange
<1>4. \A i \in DOMAIN flight : ReqOK(flight[i], server, view, past)
  BY <1>1, <1>3 DEF FlightOK, OthersOK
<1>5. \A t \in Tabs : TabOK(Now(t), t, server, past, view.stored)
  BY <1>1 DEF ViewOK, Now
<1> QED
  BY <1>1, <1>2, <1>3, <1>4, <1>5 DEF ReqOK

\* What happens to the histories while only tab t asks for something.
PastStep(p, q, t) ==
  /\ PastOK(q) /\ q.keys = p.keys /\ (p.overlapped => q.overlapped)
  /\ \A u \in Tabs \ {t} : q.wanted[u] = p.wanted[u] /\ q.crossed[u] = p.crossed[u]

\* Histories that only count.
Counts(p, q) ==
  /\ PastOK(q) /\ q.keys = p.keys /\ q.overlapped = p.overlapped
  /\ q.wanted = p.wanted /\ q.crossed = p.crossed

LEMMA PastCounts ==
  ASSUME NEW p, PastOK(p), NEW n
  PROVE  /\ Counts(p, p) /\ Counts(p, Counted(p))
         /\ Counts(p, [p EXCEPT !.faults = @ + n])
  BY DEF Counts, PastOK, Counted

LEMMA CountsIsStep ==
  ASSUME NEW p, NEW q, Counts(p, q), NEW t
  PROVE  PastStep(p, q, t)
  BY DEF Counts, PastStep

\* Searches come and are completed, and keep their keys.
Grown(s, more) ==
  /\ Ids(s) \subseteq Ids(more)
  /\ \A id \in Ids(s) : more.searches[id].key = s.searches[id].key

\* A tab is as right as it was when there are more searches and more is counted.
LEMMA TabLater ==
  ASSUME NEW v, NEW t, NEW s, NEW p, NEW stored, TabOK(v, t, s, p, stored),
         NEW more, Ids(s) \subseteq Ids(more),
         NEW q, p.keys \in Nat, q.keys = p.keys, p.overlapped => q.overlapped,
         q.wanted[t] = p.wanted[t], q.crossed[t] = p.crossed[t]
  PROVE  TabOK(v, t, more, q, stored)
<1>1. Snapshots(s) \subseteq Snapshots(more)
  BY DEF Snapshots
<1>2. v \in TabTypes(more, q.keys)
  BY <1>1 DEF TabOK, TabTypes
<1> QED
  BY <1>2 DEF TabOK

\* So is what a request says of keys and searches.
LEMMA SoundLater ==
  ASSUME NEW r, NEW s, NEW p, NEW stored, Sound(r, s, p, stored),
         NEW more, Ids(s) \subseteq Ids(more),
         NEW q, q.keys = p.keys, p.overlapped => q.overlapped
  PROVE  Sound(r, more, q, stored)
<1>1. Snapshots(s) \subseteq Snapshots(more)
  BY DEF Snapshots
<1> QED
  BY <1>1 DEF Sound

LEMMA ServerLater ==
  ASSUME NEW s, NEW p, NEW stored, ServerOK(s, p, stored),
         NEW q, q.keys = p.keys, p.overlapped => q.overlapped
  PROVE  ServerOK(s, q, stored)
  BY DEF ServerOK

\* The view with a new state of one tab.
LEMMA BecomesFacts ==
  ASSUME IInv, NEW t \in Tabs, NEW v
  PROVE  /\ Becomes(t, v).stored = view.stored /\ Becomes(t, v).tabs[t] = v
         /\ \A u \in Tabs \ {t} : Becomes(t, v).tabs[u] = Now(u)
<1>1. view \in [stored : 0..past.keys, webCrypto : BOOLEAN, profile : {view.profile},
               tabs : [Tabs -> TabTypes(server, past.keys)]]
  BY InvFacts DEF ViewOK
<1> QED
  BY <1>1 DEF Becomes, Now

LEMMA BecomesTyped ==
  ASSUME IInv, NEW t \in Tabs, NEW v, v \in TabTypes(server, past.keys)
  PROVE  Becomes(t, v) \in [stored : 0..past.keys, webCrypto : BOOLEAN,
                           profile : {Becomes(t, v).profile},
                           tabs : [Tabs -> TabTypes(server, past.keys)]]
<1>1. view \in [stored : 0..past.keys, webCrypto : BOOLEAN, profile : {view.profile},
               tabs : [Tabs -> TabTypes(server, past.keys)]]
  BY InvFacts DEF ViewOK
<1> QED
  BY <1>1 DEF Becomes

\* A step in tab t, which is v afterwards.
LEMMA TabStep ==
  ASSUME IInv, NEW t \in Tabs, NEW v, view' = Becomes(t, v), UNCHANGED server,
         PastStep(past, past', t), TabOK(v, t, server, past', view.stored),
         ~past'.overlapped /\ v.phase = "loading" =>
           \A u \in Tabs \ {t} : Now(u).phase # "loading",
         FlightOK(flight', server, Becomes(t, v), past')
  PROVE  IInv'
<1> DEFINE w == Becomes(t, v)
<1>1. /\ w.stored = view.stored /\ w.tabs[t] = v
      /\ \A u \in Tabs \ {t} : w.tabs[u] = Now(u)
  BY BecomesFacts
<1>2. past.keys \in Nat /\ past'.keys = past.keys
  BY InvFacts DEF PastStep
<1>3. w \in [stored : 0..past'.keys, webCrypto : BOOLEAN, profile : {w.profile},
             tabs : [Tabs -> TabTypes(server, past'.keys)]]
  BY <1>2, BecomesTyped DEF TabOK
<1> HIDE DEF w
<1>4. \A u \in Tabs : TabOK(w.tabs[u], u, server, past', w.stored)
  <2> TAKE u \in Tabs
  <2>1. CASE u = t
    BY <1>1, <2>1
  <2>2. CASE u # t
    <3>1. TabOK(Now(u), u, server, past, view.stored)
      BY InvFacts
    <3>2. TabOK(Now(u), u, server, past', view.stored)
      BY <1>2, <2>2, <3>1, TabLater DEF PastStep
    <3> QED
      BY <1>1, <2>2, <3>2
  <2> QED
    BY <2>1, <2>2
<1>5. ~past'.overlapped => \A x, u \in Tabs :
        w.tabs[x].phase = "loading" /\ w.tabs[u].phase = "loading" => x = u
  <2>1. ~past'.overlapped => \A x, u \in Tabs :
          Now(x).phase = "loading" /\ Now(u).phase = "loading" => x = u
    BY InvFacts DEF ViewOK, PastStep, Now
  <2> QED
    BY <1>1, <2>1
<1>6. ViewOK(w, server, past')
  BY <1>3, <1>4, <1>5 DEF ViewOK
<1>7. ServerOK(server, past', w.stored)
  BY <1>1, InvFacts, ServerLater DEF PastStep
<1>8. view' = w /\ server' = server /\ FlightOK(flight', server, w, past') /\ PastOK(past')
  BY DEF PastStep, w
<1> QED
  BY <1>1, <1>6, <1>7, <1>8 DEF IInv

\* A request after such a step.
LEMMA ReqStep ==
  ASSUME IInv, NEW j \in DOMAIN flight, NEW t \in Tabs, NEW v, NEW p, PastStep(past, p, t),
         Unpolled(flight[j], v),
         flight[j].arg.tab = t /\ t # None => Here(flight[j], v, p)
  PROVE  ReqOK(flight[j], server, Becomes(t, v), p)
<1> DEFINE w == Becomes(t, v)
<1>1. /\ w.stored = view.stored /\ w.tabs[t] = v
      /\ \A u \in Tabs \ {t} : w.tabs[u] = Now(u)
  BY BecomesFacts
<1> DEFINE r == flight[j]
<1>2. ReqOK(r, server, view, past) /\ IsReq(r)
  BY InvFacts
<1> HIDE DEF w, r
<1>3. Sound(r, server, p, w.stored)
  BY <1>1, <1>2, SoundLater DEF ReqOK, PastStep
<1>4. \A u \in Tabs : Unpolled(r, w.tabs[u])
  BY <1>1, <1>2 DEF ReqOK, Now, r
<1>5. r.arg.tab # None => Here(r, w.tabs[r.arg.tab], p)
  <2> SUFFICES ASSUME r.arg.tab # None PROVE Here(r, w.tabs[r.arg.tab], p)
    OBVIOUS
  <2>1. r.arg.tab \in Tabs
    BY <1>2 DEF IsReq
  <2>2. CASE r.arg.tab = t
    BY <1>1, <2>2 DEF r
  <2>3. CASE r.arg.tab # t
    BY <1>1, <1>2, <2>1, <2>3 DEF ReqOK, Here, PastStep, Now
  <2> QED
    BY <2>2, <2>3
<1> QED
  BY <1>2, <1>3, <1>4, <1>5 DEF ReqOK, w, r

\* All requests but one, and all of them.
LEMMA OthersStay ==
  ASSUME IInv, NEW i, NEW s, NEW w, NEW p,
         \A j \in DOMAIN flight \ {i} : ReqOK(flight[j], s, w, p)
  PROVE  OthersOK(flight, i, s, w, p)
  BY InvFacts DEF FlightOK, OthersOK

LEMMA FlightStays ==
  ASSUME IInv, NEW s, NEW w, NEW p, \A j \in DOMAIN flight : ReqOK(flight[j], s, w, p)
  PROVE  FlightOK(flight, s, w, p)
  BY OthersStay DEF FlightOK

\* A request that is live is of a tab that is ready, and its poll goes on.
LEMMA LiveFacts ==
  ASSUME IInv, NEW j \in DOMAIN flight
  PROVE  /\ \A t \in Tabs : Unpolled(flight[j], Now(t))
         /\ flight[j].arg.tab # None =>
              flight[j].arg.tab \in Tabs /\ Here(flight[j], Now(flight[j].arg.tab), past)
  BY InvFacts DEF ReqOK, IsReq, Now
-----------------------------------------------------------------------------
(* Kinds of steps. *)

\* The requests as they are, when tab t is v afterwards.
LEMMA FlightKept ==
  ASSUME IInv, NEW t \in Tabs, NEW v, NEW p, PastStep(past, p, t),
         \A q \in v.polls : \E x \in Now(t).polls : x.id = q.id,
         \A r : r.arg.tab = t /\ t # None /\ Here(r, Now(t), past) => Here(r, v, p)
  PROVE  FlightOK(flight, server, Becomes(t, v), p)
<1>1. ASSUME NEW j \in DOMAIN flight
      PROVE  ReqOK(flight[j], server, Becomes(t, v), p)
  <2> DEFINE r == flight[j]
  <2>1. Unpolled(r, Now(t)) /\ (r.arg.tab # None => Here(r, Now(r.arg.tab), past))
    BY LiveFacts
  <2> HIDE DEF r
  <2>2. Unpolled(r, v)
    BY <2>1 DEF Unpolled
  <2>3. r.arg.tab = t /\ t # None => Here(r, v, p)
    BY <2>1
  <2> QED
    BY <2>2, <2>3, ReqStep DEF r
<1> QED
  BY <1>1, FlightStays

\* A step in tab t that leaves the requests and the services alone.
LEMMA KeptStep ==
  ASSUME IInv, NEW t \in Tabs, NEW v, view' = Becomes(t, v), UNCHANGED <<server, flight>>,
         PastStep(past, past', t), TabOK(v, t, server, past', view.stored),
         ~past'.overlapped /\ v.phase = "loading" =>
           \A u \in Tabs \ {t} : Now(u).phase # "loading",
         \A q \in v.polls : \E x \in Now(t).polls : x.id = q.id,
         \A r : r.arg.tab = t /\ t # None /\ Here(r, Now(t), past) => Here(r, v, past')
  PROVE  IInv'
<1>1. FlightOK(flight, server, Becomes(t, v), past')
  BY FlightKept
<1> QED
  BY <1>1, TabStep

\* Tabs that differ only in their lists of earlier searches.
Same(v, u) ==
  /\ v.phase = u.phase /\ v.searching = u.searching /\ v.current = u.current
  /\ v.text = u.text /\ v.polls = u.polls /\ v.decrypts = u.decrypts

\* A request does not see the lists of earlier searches.
LEMMA SameHere ==
  ASSUME NEW v, NEW u, Same(v, u), NEW p, NEW q, Counts(p, q), NEW r, Here(r, u, p)
  PROVE  Here(r, v, q)
  BY DEF Same, Counts, Here, Waits

\* A step of the lists in tab t.
LEMMA QuietStep ==
  ASSUME IInv, NEW t \in Tabs, NEW v, view' = Becomes(t, v), UNCHANGED <<server, flight>>,
         Counts(past, past'), TabOK(v, t, server, past', view.stored), Same(v, Now(t))
  PROVE  IInv'
<1>1. \A r : r.arg.tab = t /\ t # None /\ Here(r, Now(t), past) => Here(r, v, past')
  BY SameHere
<1>2. PastStep(past, past', t)
  BY CountsIsStep
<1>3. ~past'.overlapped /\ v.phase = "loading" =>
        \A u \in Tabs \ {t} : Now(u).phase # "loading"
  BY InvFacts DEF Counts, ViewOK, Same, Now
<1>4. \A q \in v.polls : \E x \in Now(t).polls : x.id = q.id
  BY DEF Same
<1> QED
  BY <1>1, <1>2, <1>3, <1>4, KeptStep

\* loadHistory only asks.
LEMMA LoadHistoryOK ==
  ASSUME NEW v, NEW t, NEW s, NEW p, NEW stored, TabOK(v, t, s, p, stored), p.keys \in Nat,
         NEW key \in 0..p.keys
  PROVE  /\ TabOK(LoadHistory(v, key), t, s, p, stored)
         /\ Same(LoadHistory(v, key), v)
<1> DEFINE n == p.keys
           u == LoadHistory(v, key)
<1>1. v \in TabTypes(s, n)
  BY DEF TabOK
<1>2. {key} \ {0} \subseteq 1..n
  OBVIOUS
<1>3. u \in TabTypes(s, n) /\ Same(u, v) /\ u.pub = v.pub
  BY <1>1, <1>2 DEF TabTypes, LoadHistory, Same
<1> HIDE DEF u
<1>4. ~p.crossed[t] => Shown(u, p.wanted[t])
  BY <1>3 DEF TabOK, Same, Shown
<1>5. ~p.overlapped => OneKey(u, stored)
  BY <1>3 DEF TabOK, Same, OneKey
<1> QED
  BY <1>3, <1>4, <1>5 DEF TabOK, Same, u

\* What is stored was generated.
LEMMA StoredFacts ==
  ASSUME IInv
  PROVE  view.stored \in 0..past.keys /\ past.keys \in Nat
  BY InvFacts DEF ViewOK

\* Tabs with nothing on them.
Blank(phases, n) ==
  [phase : phases, pub : 0..n, searching : {FALSE}, current : {None}, text : {None},
   history : {{}}, asking : {{}}, polls : {{}}, decrypts : {{}}]

\* Such a tab is right when it is closed, or loading with the stored key.
LEMMA BlankOK ==
  ASSUME NEW t, NEW s, NEW p, NEW stored, p.keys \in Nat, NEW v \in Blank(Phases, p.keys),
         ~p.overlapped => v.pub \in {0, stored} /\ (v.phase = "loading" => v.pub = stored)
  PROVE  TabOK(v, t, s, p, stored) /\ v.polls = {}
<1>1. v \in TabTypes(s, p.keys)
  BY DEF TabTypes, Blank
<1>2. v.polls = {} /\ v.decrypts = {} /\ v.current = None /\ v.text = None
  BY DEF Blank
<1> QED
  BY <1>1, <1>2 DEF TabOK, Shown, OneKey

LEMMA BlankTabs ==
  ASSUME NEW n \in Nat
  PROVE  /\ Closed \in Blank(Phases, n) /\ Closed.pub = 0 /\ Closed.phase = "closed"
         /\ Exhausted \in Blank(Phases, n) /\ Exhausted.pub = 0 /\ Exhausted.phase = "paywall"
<1>1. Closed \in Blank({"closed"}, n) /\ Closed.pub = 0 /\ Closed.phase = "closed"
  BY DEF Closed, Blank
<1>2. Exhausted = [Closed EXCEPT !.phase = "paywall"]
  BY DEF Exhausted
<1> HIDE DEF Closed, Exhausted
<1>3. /\ Exhausted \in Blank({"paywall"}, n) /\ Exhausted.phase = "paywall"
      /\ Exhausted.pub = Closed.pub
  BY <1>1, <1>2 DEF Blank
<1> QED
  BY <1>1, <1>3 DEF Blank, Phases

\* The user asks for search id.
LEMMA WantingFacts ==
  ASSUME IInv, NEW t \in Tabs, NEW id
  PROVE  LET p == Wanting(t, id)
         IN /\ PastStep(past, p, t) /\ p.wanted[t] = id /\ p.crossed[t] = Busy(t)
            /\ p.keys = past.keys /\ p.overlapped = past.overlapped
<1>1. PastOK(past)
  BY InvFacts
<1>2. Busy(t) \in BOOLEAN
  <2>1. Now(t).searching \in BOOLEAN
    BY InvFacts DEF TabOK, TabTypes
  <2> QED
    BY <2>1 DEF Busy
<1> DEFINE c == Counted(past)
           p == Wanting(t, id)
<1>3. Counts(past, c)
  BY <1>1, PastCounts
<1>4. /\ p = [c EXCEPT !.wanted = [c.wanted EXCEPT ![t] = id],
                       !.crossed = [c.crossed EXCEPT ![t] = Busy(t)]]
  BY DEF Wanting
<1> HIDE DEF c, p
<1>5. /\ PastOK(c) /\ c.keys = past.keys /\ c.overlapped = past.overlapped
      /\ c.wanted = past.wanted /\ c.crossed = past.crossed
  BY <1>3 DEF Counts
<1>6. /\ c.wanted \in [Tabs -> {c.wanted[u] : u \in Tabs}] /\ c.crossed \in [Tabs -> BOOLEAN]
      /\ c.keys \in Nat /\ c.overlapped \in BOOLEAN
      /\ c \in [steps : {c.steps}, faults : {c.faults}, keys : Nat, overlapped : BOOLEAN,
                wanted : {c.wanted}, crossed : {c.crossed}]
  BY <1>5 DEF PastOK
<1>7. /\ p.steps = c.steps /\ p.faults = c.faults /\ p.keys = c.keys
      /\ p.overlapped = c.overlapped
      /\ p.wanted = [c.wanted EXCEPT ![t] = id] /\ p.crossed = [c.crossed EXCEPT ![t] = Busy(t)]
      /\ p \in [steps : {c.steps}, faults : {c.faults}, keys : {c.keys},
                overlapped : {c.overlapped}, wanted : {[c.wanted EXCEPT ![t] = id]},
                crossed : {[c.crossed EXCEPT ![t] = Busy(t)]}]
  BY <1>4, <1>6
<1>8. /\ p.wanted \in [Tabs -> {p.wanted[u] : u \in Tabs}] /\ p.crossed \in [Tabs -> BOOLEAN]
      /\ p.wanted[t] = id /\ p.crossed[t] = Busy(t)
      /\ \A u \in Tabs \ {t} : p.wanted[u] = c.wanted[u] /\ p.crossed[u] = c.crossed[u]
  BY <1>2, <1>6, <1>7
<1>9. PastOK(p)
  BY <1>6, <1>7, <1>8 DEF PastOK
<1> QED
  BY <1>5, <1>7, <1>8, <1>9 DEF PastStep, p

\* Request q when tab t was left.
Left(q, t) == IF q.arg.tab = t THEN [q EXCEPT !.arg.tab = None] ELSE q

LEMMA LeftFacts ==
  ASSUME NEW q, IsReq(q), NEW t
  PROVE  LET r == Left(q, t)
         IN /\ IsReq(r) /\ r.op = q.op /\ r.outcome = q.outcome /\ r.data = q.data
            /\ r.op = "search" => r.arg.key = q.arg.key
            /\ r.op = "get" => r.arg.id = q.arg.id
            /\ IF q.arg.tab = t THEN r.arg.tab = None ELSE r.arg = q.arg
<1>1. CASE q.arg.tab = t
  <2> DEFINE a == [q.arg EXCEPT !.tab = None]
  <2>1. /\ q.op = "search" => a \in [tab : {None}, key : {q.arg.key}] /\ q.arg.key \in Nat
        /\ q.op = "get" => a \in [tab : {None}, id : {q.arg.id}] /\ q.arg.id \in Nat
    BY DEF IsReq
  <2>2. Left(q, t) = [q EXCEPT !.arg = a]
    BY <1>1 DEF Left
  <2> HIDE DEF a
  <2>3. q \in [op : {"search", "get"}, arg : {q.arg}, outcome : Outcomes, data : {q.data},
               late : BOOLEAN]
    BY DEF IsReq
  <2>4. Left(q, t) \in [op : {q.op}, arg : {a}, outcome : {q.outcome}, data : {q.data},
                        late : {q.late}]
    BY <2>2, <2>3
  <2> QED
    BY <1>1, <2>1, <2>3, <2>4 DEF IsReq
<1>2. CASE q.arg.tab # t
  BY <1>2 DEF Left
<1> QED
  BY <1>1, <1>2

\* The requests once tab t was left.
LEMMA OrphanedOK ==
  ASSUME IInv, NEW t \in Tabs, NEW v, v.polls = {}, NEW p, PastStep(past, p, t),
         NEW fs, FlightOK(fs, server, view, past)
  PROVE  FlightOK(Orphaned(fs, t), server, Becomes(t, v), p)
<1> DEFINE h == Orphaned(fs, t)
           w == Becomes(t, v)
<1>1. /\ w.stored = view.stored /\ w.tabs[t] = v
      /\ \A u \in Tabs \ {t} : w.tabs[u] = view.tabs[u]
  BY BecomesFacts DEF Now
<1>2. /\ fs \in Seq(Range(fs)) /\ DOMAIN fs = 1..Len(fs) /\ Len(fs) \in Nat /\ 0 \notin DOMAIN fs
  BY OwnRange DEF FlightOK, OthersOK
<1>3. /\ \A j \in DOMAIN fs : ReqOK(fs[j], server, view, past) /\ IsReq(fs[j])
      /\ \A j, k \in DOMAIN fs : j # k => PairOK(fs[j], fs[k])
  BY <1>2 DEF FlightOK, OthersOK, ReqOK
<1>4. h = [j \in 1..Len(fs) |-> Left(fs[j], t)]
  BY <1>2 DEF Orphaned, Left
<1> HIDE DEF h, w
<1>5. h \in Seq(Range(h)) /\ DOMAIN h = DOMAIN fs
  <2>1. \A j \in 1..Len(fs) : h[j] \in Range(h)
    BY <1>4 DEF Range
  <2>2. h = [j \in 1..Len(fs) |-> h[j]]
    BY <1>4
  <2> QED
    BY <1>2, <1>4, <2>1, <2>2
<1>6. ASSUME NEW j \in DOMAIN h
      PROVE  ReqOK(h[j], server, w, p)
  <2> DEFINE q == fs[j]
             r == h[j]
  <2>1. ReqOK(q, server, view, past) /\ IsReq(q) /\ r = Left(q, t)
    BY <1>2, <1>3, <1>4, <1>5
  <2> HIDE DEF q, r
  <2>2. /\ IsReq(r) /\ r.op = q.op /\ r.outcome = q.outcome /\ r.data = q.data
        /\ r.op = "search" => r.arg.key = q.arg.key
        /\ r.op = "get" => r.arg.id = q.arg.id
        /\ IF q.arg.tab = t THEN r.arg.tab = None ELSE r.arg = q.arg
    BY <2>1, LeftFacts
  <2>3. Sound(q, server, p, w.stored)
    BY <1>1, <2>1, SoundLater DEF ReqOK, PastStep
  <2>4. Sound(r, server, p, w.stored)
    BY <2>2, <2>3 DEF Sound
  <2>5. \A u \in Tabs : Unpolled(r, w.tabs[u])
    BY <1>1, <2>1, <2>2 DEF ReqOK, Unpolled
  <2>6. r.arg.tab # None => Here(r, w.tabs[r.arg.tab], p)
    <3> SUFFICES ASSUME r.arg.tab # None PROVE Here(r, w.tabs[r.arg.tab], p)
      OBVIOUS
    <3>1. q.arg.tab # t /\ r.arg = q.arg /\ q.arg.tab \in Tabs \ {t}
      BY <2>1, <2>2 DEF IsReq
    <3>2. Here(q, view.tabs[q.arg.tab], past)
      BY <2>1, <3>1 DEF ReqOK
    <3>3. w.tabs[r.arg.tab] = view.tabs[q.arg.tab]
      BY <1>1, <3>1
    <3> QED
      BY <2>2, <3>1, <3>2, <3>3 DEF Here, PastStep
  <2> QED
    BY <2>2, <2>4, <2>5, <2>6 DEF ReqOK, r
<1>7. ASSUME NEW j \in DOMAIN h, NEW k \in DOMAIN h, j # k
      PROVE  PairOK(h[j], h[k])
  <2>1. PairOK(fs[j], fs[k]) /\ IsReq(fs[j]) /\ IsReq(fs[k])
    BY <1>3, <1>5, <1>7
  <2>2. h[j] = Left(fs[j], t) /\ h[k] = Left(fs[k], t)
    BY <1>2, <1>4, <1>5
  <2> DEFINE a == fs[j]
             b == fs[k]
             x == h[j]
             y == h[k]
  <2>3. /\ x.op = a.op /\ x.outcome = a.outcome /\ x.data = a.data
        /\ IF a.arg.tab = t THEN x.arg.tab = None ELSE x.arg = a.arg
    BY <2>1, <2>2, LeftFacts
  <2>4. /\ y.op = b.op /\ y.outcome = b.outcome /\ y.data = b.data
        /\ IF b.arg.tab = t THEN y.arg.tab = None ELSE y.arg = b.arg
    BY <2>1, <2>2, LeftFacts
  <2> HIDE DEF a, b, x, y
  <2>5. PairOK(a, b)
    BY <2>1 DEF a, b
  <2>6. PairOK(x, y)
    BY <2>3, <2>4, <2>5 DEF PairOK
  <2> QED
    BY <2>6 DEF x, y
<1> QED
  BY <1>5, <1>6, <1>7 DEF FlightOK, OthersOK, h, w
-----------------------------------------------------------------------------
(* The steps of a tab. *)

LEMMA OpenInv ==
  ASSUME IInv, NEW t \in Tabs, Open(t)
  PROVE  IInv'
<1> DEFINE v == [Closed EXCEPT !.phase = "loading", !.pub = view.stored]
<1>1. /\ view' = Becomes(t, v) /\ UNCHANGED <<server, flight>> /\ past' = Opened
      /\ Now(t).phase \in {"closed", "paywall"}
  BY DEF Open, OffersDashboard
<1>2. /\ PastStep(past, past', t) /\ past'.keys = past.keys
      /\ past'.overlapped = (past.overlapped \/ \E u \in Tabs : Now(u).phase = "loading")
  <2>1. PastOK(past) /\ Counts(past, Counted(past))
    BY InvFacts, PastCounts
  <2> DEFINE c == Counted(past)
             o == past.overlapped \/ \E u \in Tabs : Now(u).phase = "loading"
  <2>2. past' = [c EXCEPT !.overlapped = o] /\ o \in BOOLEAN
    <3>1. past.overlapped \in BOOLEAN
      BY InvFacts
    <3> QED
      BY <1>1, <2>1, <3>1 DEF Opened, Counts
  <2> HIDE DEF c, o
  <2>3. /\ c.keys = past.keys /\ c.overlapped = past.overlapped
        /\ c.wanted = past.wanted /\ c.crossed = past.crossed /\ PastOK(c)
    BY <2>1 DEF Counts, c
  <2>4. /\ past'.keys = c.keys /\ past'.overlapped = o
        /\ past'.wanted = c.wanted /\ past'.crossed = c.crossed /\ PastOK(past')
    BY <2>2, <2>3 DEF PastOK
  <2> QED
    BY <2>3, <2>4 DEF PastStep, o
<1>3. TabOK(v, t, server, past', view.stored) /\ v.polls = {}
  <2>1. view.stored \in 0..past'.keys /\ past'.keys \in Nat
    BY <1>2, StoredFacts
  <2>2. v \in Blank({"loading"}, past'.keys) /\ v.pub = view.stored
    BY <2>1 DEF Blank, Closed
  <2> HIDE DEF v
  <2>3. v \in Blank(Phases, past'.keys)
    BY <2>2 DEF Blank, Phases
  <2> QED
    BY <2>1, <2>2, <2>3, BlankOK
<1>4. \A r : ~Here(r, Now(t), past)
  BY <1>1 DEF Here
<1> HIDE DEF v
<1> QED
  BY <1>1, <1>2, <1>3, <1>4, KeptStep

\* The tab is ready, with the key it has.
LEMMA ReadyInv ==
  ASSUME IInv, NEW t \in Tabs, Now(t).phase = "loading", UNCHANGED <<server, flight, past>>,
         view' = Becomes(t, LoadHistory([Now(t) EXCEPT !.phase = "ready"], view.stored))
  PROVE  IInv'
<1> DEFINE x == [Now(t) EXCEPT !.phase = "ready"]
           v == LoadHistory(x, view.stored)
<1>1. TabOK(Now(t), t, server, past, view.stored)
  BY InvFacts
<1>2. x \in TabTypes(server, past.keys)
  BY <1>1 DEF TabOK, TabTypes, Phases
<1>3. /\ x.phase = "ready" /\ x.pub = Now(t).pub /\ x.polls = Now(t).polls
      /\ x.decrypts = Now(t).decrypts /\ x.current = Now(t).current /\ x.text = Now(t).text
  BY <1>1 DEF TabOK, TabTypes
<1> HIDE DEF x
<1>4. TabOK(x, t, server, past, view.stored)
  BY <1>1, <1>2, <1>3 DEF TabOK, Shown, OneKey
<1>5. TabOK(v, t, server, past, view.stored) /\ Same(v, x)
  BY <1>4, StoredFacts, LoadHistoryOK
<1>6. view' = Becomes(t, v)
  BY DEF x
<1> HIDE DEF v
<1>7. \A r : ~Here(r, Now(t), past)
  BY DEF Here
<1>8. PastStep(past, past', t)
  BY InvFacts, PastCounts, CountsIsStep
<1>9. past' = past /\ v.phase = "ready" /\ v.polls = Now(t).polls
  BY <1>3, <1>5 DEF Same
<1> QED
  BY <1>5, <1>6, <1>7, <1>8, <1>9, KeptStep

LEMMA SearchInv ==
  ASSUME IInv, NEW t \in Tabs, Search(t)
  PROVE  IInv'
<1> DEFINE p == Wanting(t, None)
<1>1. /\ OffersSearch(t) /\ past' = p /\ UNCHANGED server
  BY DEF Search
<1>2. /\ PastStep(past, p, t) /\ p.wanted[t] = None /\ p.crossed[t] = Busy(t)
      /\ p.keys = past.keys /\ p.overlapped = past.overlapped
  BY WantingFacts
<1> HIDE DEF p
<1>3. TabOK(Now(t), t, server, past, view.stored)
  BY InvFacts
<1>4. /\ Now(t).phase = "ready" /\ ~Now(t).searching /\ Now(t).pub # 0
      /\ Now(t).pub \in 0..past.keys /\ past.keys \in Nat
  BY <1>1, <1>3, InvFacts DEF OffersSearch, TabOK, TabTypes
<1>5. CASE TrialUsed
  <2>1. view' = Becomes(t, Exhausted) /\ flight' = Orphaned(flight, t)
    BY <1>5 DEF Search, HasActiveSub
  <2>2. TabOK(Exhausted, t, server, p, view.stored) /\ Exhausted.polls = {}
        /\ Exhausted.phase = "paywall"
    BY <1>2, <1>4, BlankTabs, BlankOK
  <2>3. FlightOK(flight', server, Becomes(t, Exhausted), past')
    BY <1>1, <1>2, <2>1, <2>2, InvFacts, OrphanedOK
  <2> QED
    BY <1>1, <1>2, <2>1, <2>2, <2>3, TabStep
<1>6. CASE ~TrialUsed
  <2> DEFINE v == [Now(t) EXCEPT !.searching = TRUE, !.current = None, !.text = None]
             q == Request("search", [tab |-> t, key |-> Now(t).pub])
  <2>1. view' = Becomes(t, v) /\ flight' = Append(flight, q)
    BY <1>6 DEF Search
  <2>2. v \in TabTypes(server, past.keys)
    BY <1>3 DEF TabOK, TabTypes
  <2>3. /\ v.phase = "ready" /\ v.pub = Now(t).pub /\ v.searching /\ v.current = None
        /\ v.text = None /\ v.polls = Now(t).polls /\ v.decrypts = Now(t).decrypts
    BY <1>3, <1>4 DEF TabOK, TabTypes
  <2> HIDE DEF v
  <2>4. ~Busy(t) => Waits(v) /\ Shown(v, None)
    BY <2>3 DEF Busy, Waits, Shown
  <2>5. TabOK(v, t, server, p, view.stored)
    BY <1>2, <1>3, <2>2, <2>3, <2>4 DEF TabOK, OneKey
  <2>6. \A r : Here(r, Now(t), past) => r.op # "search" /\ Here(r, v, p)
    BY <1>4, <2>3 DEF Here
  <2>7. FlightOK(flight, server, Becomes(t, v), p)
    BY <1>2, <2>3, <2>6, FlightKept
  <2>8. /\ q.op = "search" /\ q.arg = [tab |-> t, key |-> Now(t).pub] /\ q.arg.tab = t
        /\ q.arg.key = Now(t).pub /\ q.outcome = "none" /\ q.data = {} /\ IsReq(q)
    BY <1>4 DEF Request, IsReq, Outcomes
  <2> HIDE DEF q
  <2>9. ReqOK(q, server, Becomes(t, v), p)
    <3>1. Becomes(t, v).stored = view.stored /\ Becomes(t, v).tabs[t] = v
      BY BecomesFacts
    <3>2. ~past.overlapped => Now(t).pub = view.stored
      BY <1>3, <1>4 DEF TabOK, OneKey
    <3>3. Sound(q, server, p, view.stored)
      BY <1>2, <1>4, <2>8, <3>2 DEF Sound
    <3>4. Here(q, v, p)
      BY <1>2, <2>3, <2>4, <2>8 DEF Here
    <3>5. \A u \in Tabs : Unpolled(q, Becomes(t, v).tabs[u])
      BY <2>8 DEF Unpolled
    <3> QED
      BY <2>8, <3>1, <3>3, <3>4, <3>5 DEF ReqOK
  <2>10. ASSUME NEW i \in DOMAIN flight
         PROVE  PairOK(flight[i], q) /\ PairOK(q, flight[i])
    <3>1. flight[i].arg.tab # None => Here(flight[i], Now(flight[i].arg.tab), past)
      BY LiveFacts
    <3>2. flight[i].op = "search" => flight[i].arg.tab # t \/ t = None
      BY <2>6, <3>1
    <3> QED
      BY <2>8, <3>2 DEF PairOK
  <2>11. FlightOK(flight', server, Becomes(t, v), past')
    BY <1>1, <2>1, <2>7, <2>9, <2>10, SentOK
  <2> QED
    BY <1>1, <1>2, <2>1, <2>3, <2>5, <2>11, TabStep
<1> QED
  BY <1>5, <1>6

LEMMA ViewHistoryInv ==
  ASSUME IInv, NEW t \in Tabs, NEW s \in Now(t).history, ViewHistory(t, s)
  PROVE  IInv'
<1> DEFINE d == IF s.completed /\ s.found
                THEN Now(t).decrypts \cup {Decryption(s.id, FALSE)} ELSE Now(t).decrypts
           v == [Now(t) EXCEPT !.current = s, !.text = None, !.decrypts = d]
           p == Wanting(t, s.id)
<1>1. /\ view' = Becomes(t, v) /\ past' = p /\ UNCHANGED <<server, flight>>
      /\ Now(t).phase = "ready"
  BY DEF ViewHistory, ShowsHistory
<1>2. /\ PastStep(past, p, t) /\ p.wanted[t] = s.id /\ p.crossed[t] = Busy(t)
      /\ p.keys = past.keys /\ p.overlapped = past.overlapped
  BY WantingFacts
<1>3. TabOK(Now(t), t, server, past, view.stored)
  BY InvFacts
<1>4. s \in Snapshots(server) /\ s.id \in Ids(server)
  BY <1>3 DEF TabOK, TabTypes, Snapshots
<1>5. /\ d \subseteq Now(t).decrypts \cup {Decryption(s.id, FALSE)}
      /\ Decryption(s.id, FALSE) \in [id : {s.id}, key : {view.stored}, polled : BOOLEAN]
  BY DEF Decryption
<1> HIDE DEF d
<1>6. d \subseteq [id : Ids(server), key : 0..past.keys, polled : BOOLEAN]
  BY <1>3, <1>4, <1>5, StoredFacts DEF TabOK, TabTypes
<1>7. v \in TabTypes(server, past.keys)
  BY <1>3, <1>4, <1>6 DEF TabOK, TabTypes
<1>8. /\ v.phase = "ready" /\ v.pub = Now(t).pub /\ v.searching = Now(t).searching
      /\ v.current = s /\ v.text = None /\ v.polls = Now(t).polls /\ v.decrypts = d
  BY <1>1, <1>3 DEF TabOK, TabTypes
<1> HIDE DEF v, p
<1>9. ~Busy(t) => Shown(v, s.id)
  BY <1>5, <1>8 DEF Busy, Shown
<1>10. ~past.overlapped => OneKey(v, view.stored)
  BY <1>3, <1>5, <1>8 DEF TabOK, OneKey
<1>11. TabOK(v, t, server, p, view.stored)
  BY <1>2, <1>3, <1>7, <1>8, <1>9, <1>10 DEF TabOK
<1>12. \A r : Here(r, Now(t), past) /\ r.arg.tab = t => Here(r, v, p)
  BY <1>2, <1>8 DEF Here, Busy
<1> QED
  BY <1>1, <1>2, <1>8, <1>11, <1>12, KeptStep

LEMMA RefreshHistoryInv ==
  ASSUME IInv, NEW t \in Tabs, RefreshHistory(t)
  PROVE  IInv'
<1> DEFINE v == LoadHistory(Now(t), view.stored)
<1>1. /\ view' = Becomes(t, v) /\ UNCHANGED <<server, flight>> /\ past' = Counted(past)
  BY DEF RefreshHistory
<1>2. Counts(past, past')
  BY <1>1, InvFacts, PastCounts
<1>3. TabOK(v, t, server, past, view.stored) /\ Same(v, Now(t))
  BY InvFacts, StoredFacts, LoadHistoryOK
<1>4. TabOK(v, t, server, past', view.stored)
  BY <1>2, <1>3, StoredFacts, TabLater DEF Counts
<1> HIDE DEF v
<1> QED
  BY <1>1, <1>2, <1>3, <1>4, QuietStep

LEMMA CloseInv ==
  ASSUME IInv, NEW t \in Tabs, Close(t)
  PROVE  IInv'
<1>1. /\ view' = Becomes(t, Closed) /\ UNCHANGED server /\ past' = Counted(past)
      /\ flight' = Orphaned(flight, t)
  BY DEF Close
<1>2. Counts(past, past') /\ PastStep(past, past', t) /\ past'.keys \in Nat
  BY <1>1, InvFacts, PastCounts, CountsIsStep, StoredFacts DEF Counts
<1>3. TabOK(Closed, t, server, past', view.stored) /\ Closed.polls = {} /\ Closed.phase = "closed"
  BY <1>2, BlankTabs, BlankOK
<1>4. FlightOK(flight', server, Becomes(t, Closed), past')
  BY <1>1, <1>2, <1>3, InvFacts, OrphanedOK
<1> QED
  BY <1>1, <1>2, <1>3, <1>4, TabStep

LEMMA PollInv ==
  ASSUME IInv, NEW t \in Tabs, NEW a \in Now(t).polls, Poll(t, a)
  PROVE  IInv'
<1> DEFINE b == [a EXCEPT !.left = @ - 1]
           v == [Now(t) EXCEPT !.polls = (@ \ {a}) \cup {b}]
           q == Request("get", [tab |-> t, id |-> a.id])
<1>1. /\ view' = Becomes(t, v) /\ flight' = Append(flight, q) /\ UNCHANGED <<server, past>>
      /\ a.left > 0
      /\ \A i \in DOMAIN flight :
           ~(flight[i].op = "get" /\ flight[i].arg = [tab |-> t, id |-> a.id])
  BY DEF Poll
<1>2. TabOK(Now(t), t, server, past, view.stored)
  BY InvFacts
<1>3. /\ a \in [id : Ids(server), left : 0..MaxPolls] /\ a.id \in Ids(server) /\ a.id \in Nat
      /\ Now(t).phase = "ready"
  <2>1. a \in [id : Ids(server), left : 0..MaxPolls] /\ Now(t).phase = "ready"
    BY <1>2 DEF TabOK, TabTypes
  <2>2. Ids(server) \subseteq Nat
    <3>1. server.searches \in Seq(SearchRecords(past.keys))
      BY InvFacts DEF ServerOK
    <3> QED
      BY <3>1, OwnRange DEF Ids
  <2> QED
    BY <2>1, <2>2
<1>4. b \in [id : {a.id}, left : 0..MaxPolls] /\ b.id = a.id
  BY <1>1, <1>3, MaxPollsAssumption
<1>5. v \in TabTypes(server, past.keys)
  BY <1>2, <1>3, <1>4 DEF TabOK, TabTypes
<1>6. /\ v.phase = Now(t).phase /\ v.pub = Now(t).pub /\ v.searching = Now(t).searching
      /\ v.current = Now(t).current /\ v.text = Now(t).text
      /\ v.polls = (Now(t).polls \ {a}) \cup {b} /\ v.decrypts = Now(t).decrypts
  BY <1>2 DEF TabOK, TabTypes
<1> HIDE DEF v, b
<1>7. \A x, y \in v.polls : x.id = y.id => x = y
  BY <1>2, <1>4, <1>6 DEF TabOK
<1>8. \A id : Shown(Now(t), id) => Shown(v, id)
  BY <1>4, <1>6 DEF Shown
<1>9. TabOK(v, t, server, past, view.stored)
  BY <1>2, <1>3, <1>5, <1>6, <1>7, <1>8 DEF TabOK, OneKey
<1>10. \A x \in v.polls : \E y \in Now(t).polls : y.id = x.id
  BY <1>4, <1>6
<1>11. \A x \in Now(t).polls : \E y \in v.polls : y.id = x.id
  BY <1>4, <1>6
<1>12. \A r : Here(r, Now(t), past) => Here(r, v, past)
  BY <1>6, <1>11 DEF Here, Waits
<1>13. PastStep(past, past, t)
  BY InvFacts, PastCounts, CountsIsStep
<1>14. FlightOK(flight, server, Becomes(t, v), past)
  BY <1>10, <1>12, <1>13, FlightKept
<1>15. /\ q.op = "get" /\ q.arg = [tab |-> t, id |-> a.id] /\ q.arg.tab = t /\ q.arg.id = a.id
       /\ q.outcome = "none" /\ q.data = {} /\ IsReq(q)
  BY <1>3 DEF Request, IsReq, Outcomes
<1> HIDE DEF q
<1>16. ReqOK(q, server, Becomes(t, v), past)
  <2>1. Becomes(t, v).stored = view.stored /\ Becomes(t, v).tabs[t] = v
    BY BecomesFacts
  <2>2. Sound(q, server, past, view.stored)
    BY <1>3, <1>15 DEF Sound
  <2>3. Here(q, v, past)
    BY <1>3, <1>6, <1>11, <1>15 DEF Here
  <2>4. \A u \in Tabs : Unpolled(q, Becomes(t, v).tabs[u])
    BY <1>15 DEF Unpolled
  <2> QED
    BY <1>15, <2>1, <2>2, <2>3, <2>4 DEF ReqOK
<1>17. \A i \in DOMAIN flight : PairOK(flight[i], q) /\ PairOK(q, flight[i])
  BY <1>1, <1>15 DEF PairOK
<1>18. FlightOK(flight', server, Becomes(t, v), past)
  BY <1>1, <1>14, <1>16, <1>17, SentOK
<1>19. past' = past /\ v.phase = "ready"
  BY <1>1, <1>3, <1>6
<1> QED
  BY <1>1, <1>9, <1>13, <1>18, <1>19, TabStep

LEMMA DecryptedInv ==
  ASSUME IInv, NEW t \in Tabs, NEW d \in Now(t).decrypts, Decrypted(t, d)
  PROVE  IInv'
<1> DEFINE text == [of |-> d.id, plain |-> d.key = server.searches[d.id].key]
           x == [Now(t) EXCEPT !.text = text, !.decrypts = @ \ {d}]
           v == IF d.polled THEN LoadHistory(x, view.stored) ELSE x
<1>1. view' = Becomes(t, v) /\ UNCHANGED <<server, flight, past>>
  BY DEF Decrypted
<1>2. TabOK(Now(t), t, server, past, view.stored)
  BY InvFacts
<1>3. d.id \in Ids(server)
  BY <1>2 DEF TabOK, TabTypes
<1>4. text \in [of : {d.id}, plain : BOOLEAN] /\ (~past.overlapped => text.plain)
  <2>1. ~past.overlapped => d.key = view.stored /\ server.searches[d.id].key = view.stored
    BY <1>2, <1>3, InvFacts DEF TabOK, OneKey, ServerOK
  <2> QED
    BY <2>1
<1> HIDE DEF text
<1>5. x \in TabTypes(server, past.keys)
  BY <1>2, <1>3, <1>4 DEF TabOK, TabTypes
<1>6. /\ x.phase = Now(t).phase /\ x.pub = Now(t).pub /\ x.searching = Now(t).searching
      /\ x.current = Now(t).current /\ x.text = text /\ x.polls = Now(t).polls
      /\ x.decrypts = Now(t).decrypts \ {d}
  BY <1>2 DEF TabOK, TabTypes
<1> HIDE DEF x
<1>7. \A id : Shown(Now(t), id) => Shown(x, id)
  BY <1>4, <1>6 DEF Shown
<1>8. TabOK(x, t, server, past, view.stored)
  BY <1>2, <1>4, <1>5, <1>6, <1>7 DEF TabOK, OneKey
<1>9. TabOK(v, t, server, past, view.stored) /\ Same(v, x)
  <2>1. Same(x, x)
    BY DEF Same
  <2> QED
    BY <1>8, <2>1, StoredFacts, LoadHistoryOK
<1> HIDE DEF v
<1>10. v.phase = Now(t).phase /\ v.searching = Now(t).searching /\ v.polls = Now(t).polls
  BY <1>6, <1>9 DEF Same
<1>11. \A r : r.arg.tab = t /\ Here(r, Now(t), past) => Here(r, v, past)
  BY <1>10 DEF Here, Waits
<1>12. PastStep(past, past', t) /\ past' = past
  BY <1>1, InvFacts, PastCounts, CountsIsStep
<1>13. ~past.overlapped /\ v.phase = "loading" =>
         \A u \in Tabs \ {t} : Now(u).phase # "loading"
  BY <1>10, InvFacts DEF ViewOK, Now
<1> QED
  BY <1>1, <1>9, <1>10, <1>11, <1>12, <1>13, KeptStep

LEMMA HistoryLoadedInv ==
  ASSUME IInv, NEW t \in Tabs, NEW key \in Now(t).asking, HistoryLoaded(t, key)
  PROVE  IInv'
<1> DEFINE own == {id \in Ids(server) : server.searches[id].key = key}
           list == {Snapshot(id) : id \in own}
           v == [Now(t) EXCEPT !.history = list, !.asking = @ \ {key}]
<1>1. view' = Becomes(t, v) /\ UNCHANGED <<server, flight, past>>
  BY DEF HistoryLoaded, Ids
<1>2. TabOK(Now(t), t, server, past, view.stored)
  BY InvFacts
<1>3. list \subseteq Snapshots(server)
  <2>1. ASSUME NEW id \in own PROVE Snapshot(id) \in Snapshots(server)
    <3>1. server.searches[id].completed \in BOOLEAN
      <4>1. server.searches \in Seq(SearchRecords(past.keys))
        BY InvFacts DEF ServerOK
      <4>2. server.searches[id] \in SearchRecords(past.keys)
        BY <4>1 DEF Ids
      <4> QED
        BY <4>2 DEF SearchRecords
    <3> QED
      BY <3>1 DEF Snapshot, Snapshots
  <2> QED
    BY <2>1
<1> HIDE DEF list
<1>4. v \in TabTypes(server, past.keys) /\ Same(v, Now(t)) /\ v.pub = Now(t).pub
  BY <1>2, <1>3 DEF TabOK, TabTypes, Same
<1> HIDE DEF v
<1>5. TabOK(v, t, server, past, view.stored)
  BY <1>2, <1>4 DEF TabOK, Same, Shown, OneKey
<1>6. Counts(past, past') /\ past' = past
  BY <1>1, InvFacts, PastCounts
<1> QED
  BY <1>1, <1>4, <1>5, <1>6, QuietStep

LEMMA HistoryFailsInv ==
  ASSUME IInv, NEW t \in Tabs, NEW key \in Now(t).asking, HistoryFails(t, key)
  PROVE  IInv'
<1> DEFINE v == [Now(t) EXCEPT !.asking = @ \ {key}]
<1>1. /\ view' = Becomes(t, v) /\ UNCHANGED <<server, flight>>
      /\ past' = [past EXCEPT !.faults = @ + 1]
  BY DEF HistoryFails
<1>2. TabOK(Now(t), t, server, past, view.stored)
  BY InvFacts
<1>3. v \in TabTypes(server, past.keys) /\ Same(v, Now(t)) /\ v.pub = Now(t).pub
  BY <1>2 DEF TabOK, TabTypes, Same
<1> HIDE DEF v
<1>4. TabOK(v, t, server, past, view.stored)
  BY <1>2, <1>3 DEF TabOK, Same, Shown, OneKey
<1>5. Counts(past, past')
  BY <1>1, InvFacts, PastCounts
<1>6. TabOK(v, t, server, past', view.stored)
  BY <1>4, <1>5, StoredFacts, TabLater DEF Counts
<1> QED
  BY <1>1, <1>3, <1>5, <1>6, QuietStep
-----------------------------------------------------------------------------
(* A new pair of keys. *)

\* Without overlapping tabs nothing was encrypted before a pair is generated.
LEMMA NothingBefore ==
  ASSUME IInv, NEW t \in Tabs, Now(t).phase = "loading", Now(t).pub = 0, ~past.overlapped
  PROVE  /\ view.stored = 0 /\ Ids(server) = {} /\ flight = <<>>
         /\ \A u \in Tabs : Now(u).pub = 0 /\ Now(u).decrypts = {} /\ Now(u).text = None
<1>1. \A u \in Tabs : TabOK(Now(u), u, server, past, view.stored)
  BY InvFacts
<1>2. view.stored = 0
  BY <1>1 DEF TabOK, OneKey
<1>3. Ids(server) = {}
  <2> SUFFICES ASSUME NEW id \in Ids(server) PROVE FALSE
    OBVIOUS
  <2>1. server.searches[id].key = 0 /\ server.searches \in Seq(SearchRecords(past.keys))
    BY <1>2, InvFacts DEF ServerOK
  <2>2. server.searches[id] \in SearchRecords(past.keys)
    BY <2>1 DEF Ids
  <2> QED
    BY <2>1, <2>2, StoredFacts DEF SearchRecords
<1>4. flight = <<>>
  <2>1. ASSUME NEW i \in DOMAIN flight PROVE FALSE
    <3>1. IsReq(flight[i]) /\ Sound(flight[i], server, past, view.stored)
      <4>1. ReqOK(flight[i], server, view, past)
        BY <2>1, InvFacts
      <4> QED
        BY <4>1 DEF ReqOK
    <3>2. flight[i].op = "search" => flight[i].arg.key \in 1..past.keys /\ flight[i].arg.key = 0
      BY <1>2, <3>1 DEF Sound
    <3>3. flight[i].op # "get"
      BY <1>3, <3>1 DEF Sound
    <3>4. flight[i].op \in {"search", "get"}
      BY <3>1 DEF IsReq
    <3> QED
      BY <3>2, <3>3, <3>4, StoredFacts
  <2>2. flight \in Seq(Range(flight)) /\ DOMAIN flight = 1..Len(flight) /\ Len(flight) \in Nat
    <3>1. flight \in Seq(Range(flight))
      BY InvFacts
    <3> QED
      BY <3>1, OwnRange
  <2>3. Len(flight) = 0
    <3>1. ~(1 \in 1..Len(flight))
      BY <2>1, <2>2
    <3> QED
      BY <2>2, <3>1
  <2> QED
    BY <2>2, <2>3
<1>5. ASSUME NEW u \in Tabs
      PROVE  Now(u).pub = 0 /\ Now(u).decrypts = {} /\ Now(u).text = None
  <2>1. Now(u) \in TabTypes(server, past.keys) /\ Now(u).pub = 0
    BY <1>1, <1>2 DEF TabOK, OneKey
  <2>2. /\ Now(u).decrypts \subseteq [id : Ids(server), key : 0..past.keys, polled : BOOLEAN]
        /\ Now(u).text \in [of : Ids(server), plain : BOOLEAN] \cup {None}
    BY <2>1 DEF TabTypes
  <2>3. \A d \in Now(u).decrypts : d.id \in Ids(server)
    BY <2>2
  <2>4. Now(u).text # None => Now(u).text.of \in Ids(server)
    BY <2>2
  <2> QED
    BY <1>3, <2>1, <2>3, <2>4
<1> QED
  BY <1>2, <1>3, <1>4, <1>5

\* Types do not mind another key.
LEMMA MoreKeys ==
  ASSUME NEW s, NEW n \in Nat, NEW v \in TabTypes(s, n)
  PROVE  v \in TabTypes(s, n + 1)
<1>1. 1..n \subseteq 1..(n + 1) /\ 0..n \subseteq 0..(n + 1)
  OBVIOUS
<1> QED
  BY <1>1 DEF TabTypes

LEMMA KeyGeneratedInv ==
  ASSUME IInv, NEW t \in Tabs, KeyGenerated(t)
  PROVE  IInv'
<1> DEFINE n == past.keys
           key == past.keys + 1
           x == [Now(t) EXCEPT !.phase = "ready", !.pub = key]
           v == LoadHistory(x, key)
           w == Becomes(t, v)
<1>1. /\ view' = [w EXCEPT !.stored = key] /\ past' = [past EXCEPT !.keys = key]
      /\ UNCHANGED <<server, flight>> /\ Now(t).phase = "loading" /\ Now(t).pub = 0
  BY DEF KeyGenerated
<1>2. n \in Nat /\ PastOK(past)
  BY InvFacts
<1>3. PastOK(past') /\ past'.keys = n + 1 /\ past'.overlapped = past.overlapped
      /\ past'.wanted = past.wanted /\ past'.crossed = past.crossed
  BY <1>1, <1>2 DEF PastOK
<1>4. \A u \in Tabs : TabOK(Now(u), u, server, past, view.stored)
  BY InvFacts
<1>5. \A u \in Tabs : Now(u) \in TabTypes(server, n + 1)
  BY <1>2, <1>4, MoreKeys DEF TabOK
<1>6. /\ x \in TabTypes(server, n + 1) /\ x.phase = "ready" /\ x.pub = key
      /\ x.polls = Now(t).polls /\ x.decrypts = Now(t).decrypts
      /\ x.current = Now(t).current /\ x.text = Now(t).text
  <2>1. Now(t) \in TabTypes(server, n + 1) /\ key \in 0..(n + 1)
    BY <1>2, <1>5
  <2> QED
    BY <2>1 DEF TabTypes, Phases
<1> HIDE DEF x
<1>7. /\ v \in TabTypes(server, n + 1) /\ v.phase = "ready" /\ v.pub = key
      /\ v.polls = Now(t).polls /\ v.decrypts = Now(t).decrypts
      /\ v.current = Now(t).current /\ v.text = Now(t).text
  <2>1. {key} \ {0} \subseteq 1..(n + 1)
    BY <1>2
  <2> QED
    BY <1>6, <2>1 DEF LoadHistory, TabTypes
<1> HIDE DEF v
<1>8. /\ w.tabs[t] = v /\ \A u \in Tabs \ {t} : w.tabs[u] = Now(u)
  BY BecomesFacts
<1>9. w \in [stored : {w.stored}, webCrypto : BOOLEAN, profile : {w.profile},
             tabs : [Tabs -> TabTypes(server, n + 1)]]
  <2>1. view \in [stored : 0..n, webCrypto : BOOLEAN, profile : {view.profile},
                  tabs : [Tabs -> TabTypes(server, n)]]
    BY InvFacts DEF ViewOK
  <2>2. /\ w \in [stored : {w.stored}, webCrypto : BOOLEAN, profile : {w.profile}, tabs : {w.tabs}]
        /\ w.tabs = [view.tabs EXCEPT ![t] = v]
    BY <2>1 DEF Becomes
  <2> HIDE DEF w
  <2>3. DOMAIN w.tabs = Tabs /\ w.tabs = [u \in Tabs |-> w.tabs[u]]
    BY <2>1, <2>2
  <2>4. \A u \in Tabs : w.tabs[u] \in TabTypes(server, n + 1)
    BY <1>5, <1>7, <1>8
  <2>5. w.tabs \in [Tabs -> TabTypes(server, n + 1)]
    BY <2>3, <2>4
  <2> QED
    BY <2>2, <2>5
<1> HIDE DEF w
<1>10. /\ view' \in [stored : 0..(n + 1), webCrypto : BOOLEAN, profile : {view'.profile},
                     tabs : [Tabs -> TabTypes(server, n + 1)]]
       /\ view'.stored = key /\ view'.tabs = w.tabs
  BY <1>1, <1>2, <1>9
<1>11. /\ ~past.overlapped => Ids(server) = {} /\ flight = <<>>
       /\ \A u \in Tabs : ~past.overlapped =>
            Now(u).pub = 0 /\ Now(u).decrypts = {} /\ Now(u).text = None
       /\ ~past.overlapped => \A u \in Tabs \ {t} : Now(u).phase # "loading"
  <2>1. ~past.overlapped => \A u \in Tabs \ {t} : Now(u).phase # "loading"
    BY <1>1, InvFacts DEF ViewOK, Now
  <2> QED
    BY <1>1, <2>1, NothingBefore
<1>12. ASSUME NEW u \in Tabs
       PROVE  TabOK(w.tabs[u], u, server, past', key)
  <2> DEFINE a == w.tabs[u]
             b == Now(u)
  <2>1. /\ a \in TabTypes(server, n + 1) /\ a.polls = b.polls /\ a.decrypts = b.decrypts
        /\ a.current = b.current /\ a.text = b.text
        /\ (a.phase = "ready" /\ a.pub = key) \/ a = b
    BY <1>5, <1>7, <1>8
  <2>2. TabOK(b, u, server, past, view.stored)
    BY <1>4
  <2>3. ~past.overlapped => /\ b.pub = 0 /\ b.decrypts = {} /\ b.text = None
                            /\ a.phase # "loading"
    BY <1>7, <1>8, <1>11
  <2> HIDE DEF a, b
  <2>4. ~past'.overlapped => OneKey(a, key)
    BY <1>3, <2>1, <2>3 DEF OneKey
  <2>5. ~past'.crossed[u] => Shown(a, past'.wanted[u])
    BY <1>3, <2>1, <2>2 DEF TabOK, Shown
  <2>6. /\ \A q, r \in a.polls : q.id = r.id => q = r
        /\ a.polls # {} => a.phase = "ready"
    BY <2>1, <2>2 DEF TabOK
  <2> QED
    BY <1>3, <2>1, <2>4, <2>5, <2>6 DEF TabOK, a
<1>13. ViewOK(view', server, past')
  <2>1. ~past.overlapped => \A u \in Tabs : w.tabs[u].phase # "loading"
    BY <1>7, <1>8, <1>11
  <2> QED
    BY <1>3, <1>10, <1>12, <2>1 DEF ViewOK
<1>14. ServerOK(server, past', key)
  <2>1. ServerOK(server, past, view.stored)
    BY InvFacts
  <2>2. SearchRecords(n) \subseteq SearchRecords(n + 1)
    <3>1. 1..n \subseteq 1..(n + 1)
      BY <1>2
    <3> QED
      BY <3>1 DEF SearchRecords
  <2>3. server.searches \in Seq(SearchRecords(n + 1))
    BY <2>1, <2>2 DEF ServerOK
  <2> QED
    BY <1>3, <1>11, <2>1, <2>3 DEF ServerOK
<1>15. FlightOK(flight, server, view', past')
  <2>1. ASSUME NEW j \in DOMAIN flight
        PROVE  ReqOK(flight[j], server, view', past')
    <3> DEFINE r == flight[j]
    <3>1. past.overlapped
      BY <1>11
    <3>2. ReqOK(r, server, view, past) /\ IsReq(r)
      BY InvFacts
    <3> HIDE DEF r
    <3>3. Sound(r, server, past', view'.stored)
      BY <1>2, <1>3, <3>1, <3>2 DEF ReqOK, Sound
    <3>4. \A u \in Tabs : view'.tabs[u].polls = view.tabs[u].polls
      BY <1>7, <1>8, <1>10 DEF Now
    <3>5. \A u \in Tabs : Unpolled(r, view'.tabs[u])
      BY <3>2, <3>4 DEF ReqOK, Unpolled
    <3>6. r.arg.tab # None => Here(r, view'.tabs[r.arg.tab], past')
      <4> SUFFICES ASSUME r.arg.tab # None PROVE Here(r, view'.tabs[r.arg.tab], past')
        OBVIOUS
      <4>1. r.arg.tab \in Tabs /\ Here(r, view.tabs[r.arg.tab], past)
        BY <3>2 DEF ReqOK, IsReq
      <4>2. r.arg.tab # t
        BY <1>1, <4>1 DEF Here, Now
      <4>3. view'.tabs[r.arg.tab] = view.tabs[r.arg.tab]
        BY <1>8, <1>10, <4>1, <4>2 DEF Now
      <4> QED
        BY <1>3, <4>1, <4>3 DEF Here
    <3> QED
      BY <3>2, <3>3, <3>5, <3>6 DEF ReqOK, r
  <2> QED
    BY <2>1, FlightStays
<1> QED
  BY <1>1, <1>3, <1>10, <1>13, <1>14, <1>15 DEF IInv
-----------------------------------------------------------------------------
(* The steps of the services. *)

\* A request is as right as it was, when searches came and more is counted.
LEMMA ReqLater ==
  ASSUME IInv, NEW j \in DOMAIN flight, NEW s, Grown(server, s), NEW p, Counts(past, p)
  PROVE  ReqOK(flight[j], s, view, p)
<1> DEFINE r == flight[j]
<1>1. ReqOK(r, server, view, past)
  BY InvFacts
<1> HIDE DEF r
<1>2. Sound(r, s, p, view.stored)
  BY <1>1, SoundLater DEF ReqOK, Grown, Counts
<1>3. r.arg.tab # None => Here(r, view.tabs[r.arg.tab], p)
  BY <1>1 DEF ReqOK, Here, Counts
<1> QED
  BY <1>1, <1>2, <1>3 DEF ReqOK, r

\* A step that no tab sees.
LEMMA UnseenStep ==
  ASSUME IInv, UNCHANGED view, Grown(server, server'), Counts(past, past'),
         ServerOK(server', past', view.stored), FlightOK(flight', server', view, past')
  PROVE  IInv'
<1>1. /\ past'.keys = past.keys /\ past'.overlapped = past.overlapped
      /\ past'.wanted = past.wanted /\ past'.crossed = past.crossed /\ PastOK(past')
      /\ past.keys \in Nat /\ Ids(server) \subseteq Ids(server')
  BY InvFacts DEF Counts, Grown
<1>2. ASSUME NEW u \in Tabs
      PROVE  TabOK(view.tabs[u], u, server', past', view.stored)
  <2>1. TabOK(view.tabs[u], u, server, past, view.stored)
    BY InvFacts DEF Now
  <2> QED
    BY <1>1, <2>1, TabLater
<1>3. view \in [stored : 0..past'.keys, webCrypto : BOOLEAN, profile : {view.profile},
                tabs : [Tabs -> TabTypes(server', past'.keys)]]
  <2>1. view \in [stored : 0..past.keys, webCrypto : BOOLEAN, profile : {view.profile},
                  tabs : [Tabs -> TabTypes(server, past.keys)]]
    BY InvFacts DEF ViewOK
  <2>2. \A u \in Tabs : view.tabs[u] \in TabTypes(server', past'.keys)
    BY <1>2 DEF TabOK
  <2>3. view.tabs \in [Tabs -> TabTypes(server', past'.keys)]
    BY <2>1, <2>2
  <2> QED
    BY <1>1, <2>1, <2>3
<1>4. ViewOK(view, server', past')
  <2>1. ~past.overlapped => \A t, u \in Tabs :
          view.tabs[t].phase = "loading" /\ view.tabs[u].phase = "loading" => t = u
    BY InvFacts DEF ViewOK
  <2> QED
    BY <1>1, <1>2, <1>3, <2>1 DEF ViewOK
<1> QED
  BY <1>1, <1>4 DEF IInv

\* Nothing happens to the searches.
LEMMA NothingGrows ==
  ASSUME IInv, NEW p, Counts(past, p)
  PROVE  Grown(server, server) /\ ServerOK(server, p, view.stored)
BY InvFacts, ServerLater DEF Counts, Grown

\* A service answers request i, or does not.
LEMMA ServedStep ==
  ASSUME IInv, NEW i \in DOMAIN flight, NEW outcome \in Outcomes, NEW data,
         flight' = Served(flight, i, outcome, data), UNCHANGED view, Counts(past, past'),
         Grown(server, server'), ServerOK(server', past', view.stored),
         \A r : /\ r.op = flight[i].op /\ r.arg = flight[i].arg
                /\ r.outcome = outcome /\ r.data = data
                => Sound(r, server', past', view.stored),
         flight[i].op = "search" /\ outcome = "ok" =>
           /\ \A t \in Tabs : \A q \in Now(t).polls : q.id \notin data
           /\ \A j \in DOMAIN flight \ {i} :
                flight[j].op = "search" /\ flight[j].outcome = "ok" => flight[j].data \cap data = {}
  PROVE  IInv'
<1> DEFINE q == flight[i]
           r == flight'[i]
<1>1. ReqOK(q, server', view, past') /\ IsReq(q)
  BY ReqLater, InvFacts
<1>2. /\ IsReq(r) /\ r.op = q.op /\ r.arg = q.arg /\ r.outcome = outcome /\ r.data = data
  BY <1>1, AnswerFields
<1>3. Sound(r, server', past', view.stored)
  BY <1>2
<1>4. ASSUME NEW t \in Tabs
      PROVE  Unpolled(r, view.tabs[t])
  BY <1>2 DEF Unpolled, Now
<1>5. \A j \in DOMAIN flight \ {i} : PairOK(flight[j], q) /\ PairOK(q, flight[j])
  BY InvFacts DEF FlightOK, OthersOK
<1> HIDE DEF q, r
<1>6. r.arg.tab # None => Here(r, view.tabs[r.arg.tab], past')
  BY <1>1, <1>2 DEF ReqOK, Here
<1>7. ReqOK(r, server', view, past')
  BY <1>2, <1>3, <1>4, <1>6 DEF ReqOK
<1>8. ASSUME NEW j \in DOMAIN flight \ {i}
      PROVE  PairOK(flight[j], r) /\ PairOK(r, flight[j])
  <2> DEFINE x == flight[j]
  <2>1. PairOK(x, q) /\ PairOK(q, x)
    BY <1>5
  <2>2. q.op = "search" /\ outcome = "ok" /\ x.op = "search" /\ x.outcome = "ok" =>
          x.data \cap data = {}
    BY DEF q
  <2> HIDE DEF x
  <2>3. PairOK(x, r)
    BY <1>2, <2>1, <2>2 DEF PairOK
  <2>4. PairOK(r, x)
    BY <1>2, <2>1, <2>2 DEF PairOK
  <2> QED
    BY <2>3, <2>4 DEF x
<1>9. OthersOK(flight, i, server', view, past')
  <2>1. \A j \in DOMAIN flight \ {i} : ReqOK(flight[j], server', view, past')
    BY ReqLater
  <2> QED
    BY <2>1, OthersStay
<1>10. FlightOK(flight', server', view, past')
  BY <1>1, <1>7, <1>8, <1>9, ServedOK DEF q, r
<1> QED
  BY <1>10, UnseenStep

LEMMA ServeCheckInv ==
  ASSUME IInv, NEW i \in DOMAIN flight, NEW failed, ServeCheck(i, failed)
  PROVE  IInv'
<1>1. /\ flight[i].op = "search" /\ UNCHANGED <<server, view>>
      /\ past' = [past EXCEPT !.faults = @ + Cardinality(failed)]
  BY DEF ServeCheck, Waiting
<1>2. Counts(past, past')
  BY <1>1, InvFacts, PastCounts
<1>3. Grown(server, server') /\ ServerOK(server', past', view.stored)
  BY <1>1, <1>2, NothingGrows
<1>4. Authorisation(failed) \in {"subscription", "trial", "none"}
  BY DEF Authorisation
<1>5. \/ flight' = Served(flight, i, "refused", {})
      \/ flight' = Served(flight, i, "refused", {"paywall"})
      \/ /\ Authorisation(failed) # "none"
         /\ flight' = Served(flight, i, "none", {Authorisation(failed)})
  BY DEF ServeCheck
<1>6. PICK outcome, data :
        /\ outcome \in {"refused", "none"}
        /\ flight' = Served(flight, i, outcome, data)
        /\ outcome = "none" => data \subseteq {"subscription", "trial"}
  <2>1. CASE flight' = Served(flight, i, "refused", {})
    BY <2>1
  <2>2. CASE flight' = Served(flight, i, "refused", {"paywall"})
    BY <2>2
  <2>3. CASE /\ Authorisation(failed) # "none"
             /\ flight' = Served(flight, i, "none", {Authorisation(failed)})
    BY <1>4, <2>3
  <2> QED
    BY <1>5, <2>1, <2>2, <2>3
<1>7. Sound(flight[i], server, past, view.stored)
  <2>1. ReqOK(flight[i], server, view, past)
    BY InvFacts
  <2> QED
    BY <2>1 DEF ReqOK
<1>8. ASSUME NEW r, r.op = flight[i].op /\ r.arg = flight[i].arg,
             r.outcome = outcome /\ r.data = data
      PROVE  Sound(r, server', past', view.stored)
  BY <1>1, <1>2, <1>6, <1>7, <1>8 DEF Sound, Counts
<1> QED
  BY <1>1, <1>2, <1>3, <1>6, <1>8, ServedStep DEF Outcomes

LEMMA ServeCreateInv ==
  ASSUME IInv, NEW i \in DOMAIN flight, ServeCreate(i)
  PROVE  IInv'
<1> DEFINE reason == CHOOSE reason \in flight[i].data : TRUE
           search == [key |-> flight[i].arg.key, reason |-> reason,
                      crawl |-> "no", completed |-> FALSE]
           m == Len(server.searches)
<1>1. /\ flight[i].op = "search" /\ flight[i].outcome = "none" /\ flight[i].data # {}
      /\ flight' = Served(flight, i, "ok", {m + 1}) /\ UNCHANGED <<view, past>>
  BY DEF ServeCreate, Waiting
<1>2. /\ flight[i].arg.key \in 1..past.keys
      /\ ~past.overlapped => flight[i].arg.key = view.stored
      /\ flight[i].data \subseteq {"subscription", "trial"}
  <2>1. ReqOK(flight[i], server, view, past)
    BY InvFacts
  <2> QED
    BY <1>1, <2>1 DEF ReqOK, Sound
<1>3. /\ search \in SearchRecords(past.keys) /\ search.key = flight[i].arg.key
      /\ ~search.completed
  <2>1. reason \in {"subscription", "trial"}
    BY <1>1, <1>2
  <2> QED
    BY <1>2, <2>1 DEF SearchRecords
<1>4. ServerOK(server, past, view.stored)
  BY InvFacts
<1>5. /\ server.searches \in Seq(SearchRecords(past.keys))
      /\ server \in [searches : {server.searches}, subscribed : {server.subscribed},
                     trial : {server.trial}]
  BY <1>4 DEF ServerOK
<1>6. /\ server'.searches = Append(server.searches, search)
      /\ server' \in [searches : {server'.searches}, subscribed : {server'.subscribed},
                      trial : {server'.trial}]
  BY <1>5 DEF ServeCreate
<1> HIDE DEF search
<1>7. /\ m \in Nat /\ Ids(server) = 1..m /\ Ids(server') = 1..(m + 1)
      /\ server'.searches \in Seq(SearchRecords(past.keys))
      /\ server'.searches[m + 1] = search
      /\ \A id \in 1..m : server'.searches[id] = server.searches[id]
  BY <1>3, <1>5, <1>6 DEF Ids
<1>8. Grown(server, server')
  BY <1>7 DEF Grown
<1>9. ServerOK(server', past, view.stored)
  <2>1. \A id \in Ids(server') :
          /\ server'.searches[id].completed => server'.searches[id].crawl # "no"
          /\ ~past.overlapped => server'.searches[id].key = view.stored
    <3> TAKE id \in Ids(server')
    <3>1. CASE id \in 1..m
      BY <1>4, <1>7, <3>1 DEF ServerOK
    <3>2. CASE id = m + 1
      BY <1>2, <1>3, <1>7, <3>2
    <3> QED
      BY <1>7, <3>1, <3>2
  <2> QED
    BY <1>6, <1>7, <2>1 DEF ServerOK
<1>10. Counts(past, past') /\ past' = past
  BY <1>1, InvFacts, PastCounts
<1>11. ASSUME NEW r, r.op = flight[i].op /\ r.arg = flight[i].arg,
              r.outcome = "ok" /\ r.data = {m + 1}
       PROVE  Sound(r, server', past', view.stored)
  <2>1. m + 1 \in Ids(server') /\ r.data = {m + 1} /\ r.op = "search" /\ r.outcome = "ok"
    BY <1>1, <1>7, <1>11
  <2>2. r.arg.key \in 1..past'.keys /\ (~past'.overlapped => r.arg.key = view.stored)
    BY <1>2, <1>10, <1>11
  <2> QED
    BY <2>1, <2>2 DEF Sound
<1>12. \A t \in Tabs : \A q \in Now(t).polls : q.id \notin {m + 1}
  <2> SUFFICES ASSUME NEW t \in Tabs, NEW q \in Now(t).polls PROVE q.id # m + 1
    OBVIOUS
  <2>1. q.id \in Ids(server)
    BY InvFacts DEF TabOK, TabTypes
  <2> QED
    BY <1>7, <2>1
<1>13. ASSUME NEW j \in DOMAIN flight \ {i}, flight[j].op = "search", flight[j].outcome = "ok"
       PROVE  flight[j].data \cap {m + 1} = {}
  <2>1. ReqOK(flight[j], server, view, past)
    BY InvFacts
  <2>2. PICK id \in Ids(server) : flight[j].data = {id}
    BY <1>13, <2>1 DEF ReqOK, Sound
  <2> QED
    BY <1>7, <2>2
<1> QED
  BY <1>1, <1>8, <1>9, <1>10, <1>11, <1>12, <1>13, ServedStep DEF Outcomes

\* Searches with a new state of search id.
LEMMA SearchChanged ==
  ASSUME IInv, NEW id \in Ids(server), NEW x \in SearchRecords(past.keys),
         x.key = server.searches[id].key, x.completed => x.crawl # "no",
         server' = [server EXCEPT !.searches[id] = x]
  PROVE  /\ Grown(server, server') /\ ServerOK(server', past, view.stored)
         /\ Ids(server') = Ids(server)
<1>1. ServerOK(server, past, view.stored)
  BY InvFacts
<1>2. /\ server.searches \in Seq(SearchRecords(past.keys))
      /\ server \in [searches : {server.searches}, subscribed : {server.subscribed},
                     trial : {server.trial}]
  BY <1>1 DEF ServerOK
<1>3. /\ server'.searches = [server.searches EXCEPT ![id] = x]
      /\ server' \in [searches : {server'.searches}, subscribed : {server'.subscribed},
                      trial : {server'.trial}]
  BY <1>2
<1>4. /\ server'.searches \in Seq(SearchRecords(past.keys)) /\ Ids(server') = Ids(server)
      /\ server'.searches[id] = x
      /\ \A j \in Ids(server) \ {id} : server'.searches[j] = server.searches[j]
  BY <1>2, <1>3 DEF Ids
<1>5. \A j \in Ids(server') :
        /\ server'.searches[j].completed => server'.searches[j].crawl # "no"
        /\ ~past.overlapped => server'.searches[j].key = view.stored
        /\ server'.searches[j].key = server.searches[j].key
  <2> TAKE j \in Ids(server')
  <2>1. CASE j = id
    BY <1>1, <1>4, <2>1 DEF ServerOK
  <2>2. CASE j # id
    BY <1>1, <1>4, <2>2 DEF ServerOK
  <2> QED
    BY <2>1, <2>2
<1> QED
  BY <1>3, <1>4, <1>5 DEF ServerOK, Grown

\* The searches there are.
LEMMA SearchFacts ==
  ASSUME IInv, NEW id \in Ids(server)
  PROVE  /\ server.searches[id] \in SearchRecords(past.keys)
         /\ server.searches[id].completed => server.searches[id].crawl # "no"
<1>1. ServerOK(server, past, view.stored)
  BY InvFacts
<1>2. server.searches \in Seq(SearchRecords(past.keys))
  BY <1>1 DEF ServerOK
<1>3. server.searches[id] \in SearchRecords(past.keys)
  BY <1>2 DEF Ids
<1> QED
  BY <1>1, <1>3 DEF ServerOK

LEMMA ServeGetInv ==
  ASSUME IInv, NEW i \in DOMAIN flight, ServeGet(i)
  PROVE  IInv'
<1> DEFINE id == flight[i].arg.id
           x == Checked(server.searches[id])
           s == [id |-> id, completed |-> x.completed, found |-> x.crawl = "found"]
<1>1. /\ flight[i].op = "get" /\ server' = [server EXCEPT !.searches[id] = x]
      /\ flight' = Served(flight, i, "ok", {s}) /\ UNCHANGED <<view, past>>
  BY DEF ServeGet, Waiting
<1>2. id \in Ids(server)
  <2>1. ReqOK(flight[i], server, view, past)
    BY InvFacts
  <2> QED
    BY <1>1, <2>1 DEF ReqOK, Sound
<1>3. /\ x \in SearchRecords(past.keys) /\ x.key = server.searches[id].key
      /\ x.completed => x.crawl # "no"
  <2> DEFINE old == server.searches[id]
  <2>1. old \in SearchRecords(past.keys)
    BY <1>2, SearchFacts
  <2>2. x = [old EXCEPT !.completed = old.crawl # "no"]
    BY DEF Checked
  <2> HIDE DEF x, old
  <2>3. x \in SearchRecords(past.keys)
    BY <2>1, <2>2 DEF SearchRecords
  <2>4. x.key = old.key /\ x.crawl = old.crawl /\ x.completed = (old.crawl # "no")
    BY <2>1, <2>2 DEF SearchRecords
  <2> QED
    BY <2>3, <2>4 DEF old
<1> HIDE DEF x
<1>4. Grown(server, server') /\ ServerOK(server', past, view.stored) /\ Ids(server') = Ids(server)
  BY <1>1, <1>2, <1>3, SearchChanged
<1>5. s \in Snapshots(server') /\ s.id = id
  BY <1>2, <1>3, <1>4 DEF Snapshots, SearchRecords
<1> HIDE DEF s
<1>6. Counts(past, past') /\ past' = past
  BY <1>1, InvFacts, PastCounts
<1>7. ASSUME NEW r, r.op = flight[i].op /\ r.arg = flight[i].arg,
             r.outcome = "ok" /\ r.data = {s}
      PROVE  Sound(r, server', past', view.stored)
  BY <1>1, <1>2, <1>4, <1>5, <1>7 DEF Sound
<1> QED
  BY <1>1, <1>4, <1>6, <1>7, ServedStep DEF Outcomes

LEMMA CrawlInv ==
  ASSUME IInv, NEW id \in Ids(server), NEW found \in BOOLEAN, Crawl(id, found)
  PROVE  IInv'
<1> DEFINE x == [server.searches[id] EXCEPT !.crawl = IF found THEN "found" ELSE "failed"]
<1>1. server' = [server EXCEPT !.searches[id] = x] /\ UNCHANGED <<view, flight, past>>
  BY DEF Crawl
<1>2. /\ x \in SearchRecords(past.keys) /\ x.key = server.searches[id].key
      /\ x.completed => x.crawl # "no"
  BY SearchFacts DEF SearchRecords
<1> HIDE DEF x
<1>3. Grown(server, server') /\ ServerOK(server', past, view.stored)
  BY <1>1, <1>2, SearchChanged
<1>4. Counts(past, past') /\ past' = past
  BY <1>1, InvFacts, PastCounts
<1>5. FlightOK(flight', server', view, past')
  BY <1>1, <1>3, <1>4, ReqLater, FlightStays
<1> QED
  BY <1>1, <1>3, <1>4, <1>5, UnseenStep

LEMMA FailInv ==
  ASSUME IInv, NEW i \in DOMAIN flight, Fail(i)
  PROVE  IInv'
<1>1. /\ flight' = Served(flight, i, "throws", {}) /\ UNCHANGED <<server, view>>
      /\ past' = [past EXCEPT !.faults = @ + 1]
  BY DEF Fail
<1>2. Counts(past, past')
  BY <1>1, InvFacts, PastCounts
<1>3. Grown(server, server') /\ ServerOK(server', past', view.stored)
  BY <1>1, <1>2, NothingGrows
<1>4. ReqOK(flight[i], server, view, past)
  BY InvFacts
<1>5. ASSUME NEW r, r.op = flight[i].op /\ r.arg = flight[i].arg,
             r.outcome = "throws" /\ r.data = {}
      PROVE  Sound(r, server', past', view.stored)
  BY <1>1, <1>2, <1>4, <1>5 DEF Sound, Counts, ReqOK
<1> QED
  BY <1>1, <1>2, <1>3, <1>5, ServedStep DEF Outcomes

LEMMA DroppedInv ==
  ASSUME IInv, NEW i \in DOMAIN flight, Dropped(i)
  PROVE  IInv'
<1>1. flight' = Handled(flight, i) /\ UNCHANGED <<server, view, past>>
  BY DEF Dropped
<1>2. Counts(past, past') /\ past' = past
  BY <1>1, InvFacts, PastCounts
<1>3. OthersOK(flight, i, server, view, past)
  BY InvFacts, OthersStay
<1> QED
  BY <1>1, <1>2, <1>3, HandledOK, NothingGrows, UnseenStep
-----------------------------------------------------------------------------
(* The handlers. *)

\* What request i is when its answer is handled.
LEMMA AnswerFacts ==
  ASSUME IInv, NEW i \in DOMAIN flight, NEW op, Answer(i, op)
  PROVE  LET r == flight[i]
             t == r.arg.tab
         IN /\ r.op = op /\ t \in Tabs /\ t # None /\ r.outcome \in {"ok", "refused", "throws"}
            /\ Sound(r, server, past, view.stored) /\ Here(r, Now(t), past)
            /\ \A u \in Tabs : Unpolled(r, Now(u))
            /\ \A j \in DOMAIN flight \ {i} : PairOK(r, flight[j]) /\ PairOK(flight[j], r)
<1>1. flight[i].op = op /\ flight[i].outcome # "none" /\ flight[i].arg.tab # None
  BY DEF Answer, Answers
<1>2. ReqOK(flight[i], server, view, past) /\ IsReq(flight[i])
  BY InvFacts
<1>3. \A j \in DOMAIN flight \ {i} : PairOK(flight[i], flight[j]) /\ PairOK(flight[j], flight[i])
  BY InvFacts DEF FlightOK, OthersOK
<1>4. flight[i].arg.tab \in Tabs /\ flight[i].outcome \in {"ok", "refused", "throws"}
  BY <1>1, <1>2 DEF IsReq, Outcomes
<1> QED
  BY <1>1, <1>2, <1>3, <1>4 DEF ReqOK, Now

\* Request i is handled in tab t, which is v afterwards.
LEMMA HandledStep ==
  ASSUME IInv, NEW i \in DOMAIN flight, NEW t \in Tabs, NEW v, view' = Becomes(t, v),
         flight' = Handled(flight, i), UNCHANGED server,
         PastStep(past, past', t), TabOK(v, t, server, past', view.stored),
         v.phase # "loading",
         \A j \in DOMAIN flight \ {i} :
           /\ Unpolled(flight[j], v)
           /\ flight[j].arg.tab = t /\ t # None => Here(flight[j], v, past')
  PROVE  IInv'
<1>1. \A j \in DOMAIN flight \ {i} : ReqOK(flight[j], server, Becomes(t, v), past')
  BY ReqStep
<1>2. OthersOK(flight, i, server, Becomes(t, v), past')
  BY <1>1, OthersStay
<1>3. FlightOK(flight', server, Becomes(t, v), past')
  BY <1>2, HandledOK
<1> QED
  BY <1>3, TabStep

\* The search of the answer is shown, and polled.
LEMMA SearchShown ==
  ASSUME IInv, NEW i \in DOMAIN flight, HandleSearch(i), flight[i].outcome = "ok"
  PROVE  IInv'
<1> DEFINE r == flight[i]
           t == r.arg.tab
           id == CHOOSE id \in r.data : TRUE
           s == [id |-> id, completed |-> FALSE, found |-> FALSE]
           a == [id |-> id, left |-> MaxPolls]
           v == [Now(t) EXCEPT !.searching = FALSE, !.current = s, !.polls = @ \cup {a}]
<1>1. Answer(i, "search")
  BY DEF HandleSearch
<1>2. /\ r.op = "search" /\ t \in Tabs /\ t # None
      /\ Sound(r, server, past, view.stored) /\ Here(r, Now(t), past)
      /\ \A u \in Tabs : Unpolled(r, Now(u))
      /\ \A j \in DOMAIN flight \ {i} : PairOK(r, flight[j]) /\ PairOK(flight[j], r)
  BY <1>1, AnswerFacts
<1>3. r.data = {id} /\ id \in Ids(server)
  <2>1. PICK x \in Ids(server) : r.data = {x}
    BY <1>2 DEF Sound
  <2>2. id \in r.data
    BY <2>1
  <2> QED
    BY <2>1, <2>2
<1>4. /\ view' = Becomes(t, v) /\ flight' = Handled(flight, i) /\ UNCHANGED server
      /\ past' = IF past.wanted[t] = None THEN [past EXCEPT !.wanted[t] = id] ELSE past
  BY DEF HandleSearch
<1> HIDE DEF id, t
<1>5. /\ PastStep(past, past', t) /\ past'.keys = past.keys
      /\ past'.overlapped = past.overlapped /\ past'.crossed = past.crossed
      /\ past.wanted[t] = None => past'.wanted[t] = id
  <2>1. PastOK(past)
    BY InvFacts
  <2>2. CASE past.wanted[t] # None
    BY <1>4, <2>1, <2>2 DEF PastStep
  <2>3. CASE past.wanted[t] = None
    <3> DEFINE wanted == [past.wanted EXCEPT ![t] = id]
    <3>1. past' = [past EXCEPT !.wanted = wanted]
      BY <1>4, <2>3
    <3>2. /\ wanted[t] = id /\ \A u \in Tabs \ {t} : wanted[u] = past.wanted[u]
          /\ wanted \in [Tabs -> {wanted[u] : u \in Tabs}]
      BY <1>2, <2>1 DEF PastOK
    <3> HIDE DEF wanted
    <3>3. /\ past'.wanted = wanted /\ past'.keys = past.keys /\ past'.crossed = past.crossed
          /\ past'.overlapped = past.overlapped /\ PastOK(past')
      BY ZenonT(60), <2>1, <3>1, <3>2 DEF PastOK
    <3> QED
      BY <3>2, <3>3 DEF PastStep
  <2> QED
    BY <2>2, <2>3
<1>6. TabOK(Now(t), t, server, past, view.stored)
  BY <1>2, InvFacts
<1>7. /\ s \in Snapshots(server) /\ s.id = id
      /\ a \in [id : Ids(server), left : 0..MaxPolls] /\ a.id = id
  BY <1>3, MaxPollsAssumption DEF Snapshots
<1> HIDE DEF s, a
<1>8. v \in TabTypes(server, past.keys)
  BY <1>6, <1>7 DEF TabOK, TabTypes
<1>9. /\ v.phase = Now(t).phase /\ v.pub = Now(t).pub /\ v.text = Now(t).text
      /\ v.current = s /\ v.polls = Now(t).polls \cup {a} /\ v.decrypts = Now(t).decrypts
  BY <1>6 DEF TabOK, TabTypes
<1>10. Now(t).phase = "ready"
  BY <1>2 DEF Here
<1> HIDE DEF v
<1>11. \A x, y \in v.polls : x.id = y.id => x = y
  <2>1. \A x \in Now(t).polls : x.id # id
    BY <1>2, <1>3, AnswerFacts DEF Unpolled
  <2> QED
    BY <1>6, <1>7, <1>9, <2>1 DEF TabOK
<1>12. ~past'.crossed[t] => Shown(v, past'.wanted[t])
  <2> SUFFICES ASSUME ~past'.crossed[t] PROVE Shown(v, past'.wanted[t])
    OBVIOUS
  <2>1. past.wanted[t] = None /\ Waits(Now(t))
    BY <1>2, <1>5 DEF Here, t
  <2> QED
    BY <1>5, <1>7, <1>9, <2>1 DEF Shown, Waits
<1>13. TabOK(v, t, server, past', view.stored)
  BY <1>5, <1>6, <1>8, <1>9, <1>10, <1>11, <1>12 DEF TabOK, OneKey
<1>14. ASSUME NEW j \in DOMAIN flight \ {i}
       PROVE  /\ Unpolled(flight[j], v)
              /\ flight[j].arg.tab = t => Here(flight[j], v, past')
  <2> DEFINE q == flight[j]
  <2>1. /\ \A u \in Tabs : Unpolled(q, Now(u))
        /\ q.arg.tab = t => Here(q, Now(t), past)
    BY <1>2, LiveFacts
  <2>2. PairOK(r, q)
    BY <1>2
  <2> HIDE DEF q
  <2>3. Unpolled(q, v)
    <3> SUFFICES ASSUME q.op = "search", q.outcome = "ok", NEW x \in v.polls
                 PROVE  x.id \notin q.data
      BY DEF Unpolled
    <3>1. r.data \cap q.data = {}
      BY <1>2, <2>2 DEF PairOK
    <3>2. CASE x \in Now(t).polls
      BY <1>2, <2>1, <3>2 DEF Unpolled
    <3>3. CASE x = a
      BY <1>3, <1>7, <3>1, <3>3
    <3> QED
      BY <1>9, <3>2, <3>3
  <2>4. ASSUME q.arg.tab = t PROVE Here(q, v, past')
    <3>1. q.op # "search"
      BY <1>2, <2>2, <2>4 DEF PairOK, t
    <3> QED
      BY <1>9, <2>1, <2>4, <3>1 DEF Here
  <2> QED
    BY <2>3, <2>4 DEF q
<1> HIDE DEF r
<1> QED
  BY <1>2, <1>4, <1>5, <1>9, <1>10, <1>13, <1>14, HandledStep

\* The user may not search: nothing is known of them, or they are sent to the paywall.
LEMMA SearchRefused ==
  ASSUME IInv, NEW i \in DOMAIN flight, HandleSearch(i), flight[i].outcome = "refused"
  PROVE  IInv'
<1> DEFINE r == flight[i]
           t == r.arg.tab
           v == [Now(t) EXCEPT !.searching = FALSE]
<1>1. Answer(i, "search")
  BY DEF HandleSearch
<1>2. /\ r.op = "search" /\ t \in Tabs /\ t # None /\ Here(r, Now(t), past)
      /\ \A j \in DOMAIN flight \ {i} : PairOK(r, flight[j]) /\ PairOK(flight[j], r)
  BY <1>1, AnswerFacts
<1>3. /\ UNCHANGED <<server, past>>
      /\ r.data = {} => view' = Becomes(t, v) /\ flight' = Handled(flight, i)
      /\ r.data # {} => /\ view' = Becomes(t, Exhausted)
                        /\ flight' = Orphaned(Handled(flight, i), t)
  BY DEF HandleSearch
<1>4. PastStep(past, past', t) /\ past' = past /\ past.keys \in Nat
  BY <1>3, InvFacts, PastCounts, CountsIsStep, StoredFacts
<1>5. CASE r.data # {}
  <2>1. TabOK(Exhausted, t, server, past', view.stored) /\ Exhausted.polls = {}
        /\ Exhausted.phase = "paywall"
    BY <1>4, BlankTabs, BlankOK
  <2>2. FlightOK(Handled(flight, i), server, view, past)
    BY InvFacts, OthersStay, HandledOK
  <2>3. FlightOK(flight', server, Becomes(t, Exhausted), past')
    BY <1>2, <1>3, <1>4, <1>5, <2>1, <2>2, OrphanedOK
  <2> QED
    BY <1>2, <1>3, <1>4, <1>5, <2>1, <2>3, TabStep
<1>6. CASE r.data = {}
  <2>1. TabOK(Now(t), t, server, past, view.stored)
    BY <1>2, InvFacts
  <2> HIDE DEF t
  <2>2. v \in TabTypes(server, past.keys)
    BY <2>1 DEF TabOK, TabTypes
  <2>3. /\ v.phase = Now(t).phase /\ v.pub = Now(t).pub /\ v.text = Now(t).text
        /\ v.current = Now(t).current /\ v.polls = Now(t).polls /\ v.decrypts = Now(t).decrypts
    BY <2>1 DEF TabOK, TabTypes
  <2> HIDE DEF v
  <2>4. TabOK(v, t, server, past', view.stored)
    BY <1>4, <2>1, <2>2, <2>3 DEF TabOK, Shown, OneKey
  <2>5. v.phase # "loading"
    BY <1>2, <2>3 DEF Here
  <2>6. ASSUME NEW j \in DOMAIN flight \ {i}
        PROVE  /\ Unpolled(flight[j], v)
               /\ flight[j].arg.tab = t => Here(flight[j], v, past')
    <3> DEFINE q == flight[j]
    <3>1. /\ \A u \in Tabs : Unpolled(q, Now(u))
          /\ q.arg.tab = t => Here(q, Now(t), past)
      BY <1>2, LiveFacts
    <3>2. PairOK(r, q)
      BY <1>2
    <3> HIDE DEF q
    <3>3. Unpolled(q, v)
      BY <1>2, <2>3, <3>1 DEF Unpolled
    <3>4. ASSUME q.arg.tab = t PROVE Here(q, v, past')
      <4>1. q.op # "search"
        BY <1>2, <3>2, <3>4 DEF PairOK, t
      <4> QED
        BY <2>3, <3>1, <3>4, <4>1 DEF Here
    <3> QED
      BY <3>3, <3>4 DEF q
  <2> HIDE DEF r
  <2> QED
    BY <1>2, <1>3, <1>4, <1>6, <2>4, <2>5, <2>6, HandledStep
<1> QED
  BY <1>5, <1>6

LEMMA HandleSearchInv ==
  ASSUME IInv, NEW i \in DOMAIN flight, HandleSearch(i)
  PROVE  IInv'
<1>1. flight[i].outcome \in {"ok", "refused", "throws"}
  BY AnswerFacts DEF HandleSearch
<1>2. CASE flight[i].outcome = "throws"
  <2>1. flight' = Handled(flight, i) /\ UNCHANGED <<server, view, past>>
    BY <1>2 DEF HandleSearch
  <2>2. Counts(past, past') /\ past' = past
    BY <2>1, InvFacts, PastCounts
  <2>3. OthersOK(flight, i, server, view, past)
    BY InvFacts, OthersStay
  <2> QED
    BY <2>1, <2>2, <2>3, HandledOK, NothingGrows, UnseenStep
<1> QED
  BY <1>1, <1>2, SearchShown, SearchRefused

LEMMA HandlePollInv ==
  ASSUME IInv, NEW i \in DOMAIN flight, HandlePoll(i)
  PROVE  IInv'
<1> DEFINE r == flight[i]
           t == r.arg.tab
           a == CHOOSE p \in Now(t).polls : p.id = r.arg.id
           s == CHOOSE s \in r.data : TRUE
           shown == [Now(t) EXCEPT !.current = s]
           ended == [shown EXCEPT !.polls = @ \ {a}]
           quit == [Now(t) EXCEPT !.polls = @ \ {a}]
           read == [ended EXCEPT !.decrypts = @ \cup {Decryption(s.id, TRUE)}]
           late == LoadHistory(ended, view.stored)
<1>1. Answer(i, "get")
  BY DEF HandlePoll
<1>2. /\ r.op = "get" /\ t \in Tabs /\ t # None
      /\ Sound(r, server, past, view.stored) /\ Here(r, Now(t), past)
      /\ \A j \in DOMAIN flight \ {i} : PairOK(r, flight[j]) /\ PairOK(flight[j], r)
  BY <1>1, AnswerFacts
<1>3. /\ r.outcome # "ok" => view' = Becomes(t, quit)
      /\ r.outcome = "ok" => view' \in {Becomes(t, shown), Becomes(t, ended), Becomes(t, read),
                                        Becomes(t, late)}
      /\ flight' = Handled(flight, i) /\ UNCHANGED <<server, past>>
  BY DEF HandlePoll
<1>4. TabOK(Now(t), t, server, past, view.stored)
  BY <1>2, InvFacts
<1>5. a \in Now(t).polls /\ a.id = r.arg.id
  BY <1>2 DEF Here
<1>6. r.outcome = "ok" => s \in Snapshots(server) /\ s.id = r.arg.id /\ s.id \in Ids(server)
  <2> SUFFICES ASSUME r.outcome = "ok"
               PROVE  s \in Snapshots(server) /\ s.id = r.arg.id /\ s.id \in Ids(server)
    OBVIOUS
  <2>1. PICK x \in Snapshots(server) : r.data = {x} /\ x.id = r.arg.id
    BY <1>2 DEF Sound
  <2>2. s = x
    BY <2>1
  <2> QED
    BY <2>1, <2>2 DEF Snapshots
<1>7. PastStep(past, past', t) /\ past' = past /\ past.keys \in Nat
  BY <1>3, InvFacts, PastCounts, CountsIsStep, StoredFacts
<1> HIDE DEF a, s, t
\* The tab v goes on with the polls that remain.
<1> DEFINE GoesOn(v) ==
             /\ v.phase = "ready" /\ v.searching = Now(t).searching
             /\ v.polls \subseteq Now(t).polls /\ Now(t).polls \subseteq v.polls \cup {a}
<1>8. ASSUME NEW v, view' = Becomes(t, v), TabOK(v, t, server, past, view.stored), GoesOn(v)
      PROVE  IInv'
  <2>1. ASSUME NEW j \in DOMAIN flight \ {i}
        PROVE  /\ Unpolled(flight[j], v)
               /\ flight[j].arg.tab = t => Here(flight[j], v, past')
    <3> DEFINE q == flight[j]
    <3>1. /\ \A u \in Tabs : Unpolled(q, Now(u))
          /\ q.arg.tab = t => Here(q, Now(t), past)
      BY <1>2, LiveFacts
    <3>2. PairOK(r, q) /\ IsReq(r) /\ IsReq(q)
      BY <1>2, InvFacts
    <3> HIDE DEF q
    <3>3. Unpolled(q, v)
      BY <1>2, <1>8, <3>1 DEF Unpolled
    <3>4. ASSUME q.arg.tab = t PROVE Here(q, v, past')
      <4>1. CASE q.op = "search"
        <5>1. past.crossed[t]
          BY <1>5, <3>1, <3>4, <4>1 DEF Here, Waits
        <5> QED
          BY <1>7, <1>8, <3>1, <3>4, <4>1, <5>1 DEF Here
      <4>2. CASE q.op = "get"
        <5>1. q.arg.id # r.arg.id
          <6>1. r.arg # q.arg /\ r.arg.tab = t
            BY <1>2, <3>2, <4>2 DEF PairOK, t
          <6>2. {r.arg, q.arg} \subseteq [tab : Tabs \cup {None}, id : Nat]
            BY <1>2, <3>2, <4>2 DEF IsReq
          <6> QED
            BY <3>4, <6>1, <6>2
        <5>2. PICK x \in Now(t).polls : x.id = q.arg.id
          BY <3>1, <3>4, <4>2 DEF Here
        <5>3. x \in v.polls
          BY <1>5, <1>8, <5>1, <5>2
        <5> QED
          BY <1>8, <4>2, <5>2, <5>3 DEF Here
      <4> QED
        BY <3>2, <4>1, <4>2 DEF IsReq
    <3> QED
      BY <3>3, <3>4 DEF q
  <2>2. v.phase # "loading"
    BY <1>8
  <2> HIDE DEF r, GoesOn
  <2> QED
    BY <1>2, <1>3, <1>7, <1>8, <2>1, <2>2, HandledStep
<1>9. Now(t).phase = "ready"
  BY <1>2 DEF Here
<1>10. GoesOn(quit) /\ TabOK(quit, t, server, past, view.stored)
  <2>1. quit \in TabTypes(server, past.keys)
    BY <1>4 DEF TabOK, TabTypes
  <2>2. /\ quit.phase = Now(t).phase /\ quit.pub = Now(t).pub /\ quit.text = Now(t).text
        /\ quit.searching = Now(t).searching /\ quit.current = Now(t).current
        /\ quit.polls = Now(t).polls \ {a} /\ quit.decrypts = Now(t).decrypts
    BY <1>4 DEF TabOK, TabTypes
  <2> HIDE DEF quit
  <2>3. \A id : Shown(Now(t), id) => Shown(quit, id)
    BY <2>2 DEF Shown
  <2> QED
    BY <1>4, <1>9, <2>1, <2>2, <2>3 DEF TabOK, OneKey
<1>11. CASE r.outcome # "ok"
  <2> HIDE DEF quit, GoesOn
  <2> QED
    BY <1>3, <1>8, <1>10, <1>11
<1>12. CASE r.outcome = "ok"
  <2>1. shown \in TabTypes(server, past.keys)
    BY <1>4, <1>6, <1>12 DEF TabOK, TabTypes
  <2>2. /\ shown.phase = Now(t).phase /\ shown.pub = Now(t).pub /\ shown.text = Now(t).text
        /\ shown.searching = Now(t).searching /\ shown.current = s
        /\ shown.polls = Now(t).polls /\ shown.decrypts = Now(t).decrypts
    BY <1>4 DEF TabOK, TabTypes
  <2> HIDE DEF shown
  <2>3. \A id : Shown(Now(t), id) => Shown(shown, id) /\ s.id = id
    BY <1>5, <1>6, <1>12, <2>2 DEF Shown
  <2>4. GoesOn(shown) /\ TabOK(shown, t, server, past, view.stored)
    BY <1>4, <1>9, <2>1, <2>2, <2>3 DEF TabOK, OneKey
  <2>5. ended \in TabTypes(server, past.keys)
    BY <2>1 DEF TabTypes
  <2>6. /\ ended.phase = Now(t).phase /\ ended.pub = Now(t).pub /\ ended.text = Now(t).text
        /\ ended.searching = Now(t).searching /\ ended.current = s
        /\ ended.polls = Now(t).polls \ {a} /\ ended.decrypts = Now(t).decrypts
    BY <2>1, <2>2 DEF TabTypes
  <2> HIDE DEF ended
  <2>7. \A id : Shown(shown, id) => Shown(ended, id)
    BY <2>2, <2>6 DEF Shown
  <2>8. GoesOn(ended) /\ TabOK(ended, t, server, past, view.stored)
    BY <1>9, <2>2, <2>4, <2>5, <2>6, <2>7 DEF TabOK, OneKey
  <2>9. late.phase = "ready" /\ GoesOn(late) /\ TabOK(late, t, server, past, view.stored)
    <3>1. TabOK(late, t, server, past, view.stored) /\ Same(late, ended)
      BY <2>8, StoredFacts, LoadHistoryOK
    <3> HIDE DEF late
    <3> QED
      BY <2>8, <3>1 DEF Same
  <2>10. GoesOn(read) /\ TabOK(read, t, server, past, view.stored)
    <3> DEFINE d == Decryption(s.id, TRUE)
    <3>1. d \in [id : Ids(server), key : 0..past.keys, polled : BOOLEAN]
          /\ d.id = s.id /\ d.key = view.stored
      BY <1>6, <1>12, StoredFacts DEF Decryption
    <3> HIDE DEF d
    <3>2. read \in TabTypes(server, past.keys)
      BY <2>5, <3>1 DEF TabTypes, d
    <3>3. /\ read.phase = ended.phase /\ read.pub = ended.pub /\ read.text = ended.text
          /\ read.searching = ended.searching /\ read.current = ended.current
          /\ read.polls = ended.polls /\ read.decrypts = ended.decrypts \cup {d}
      BY <2>5 DEF TabTypes, d
    <3> HIDE DEF read
    <3>4. \A id : Shown(Now(t), id) => Shown(read, id)
      BY <2>3, <2>7, <3>1, <3>3 DEF Shown
    <3>5. ~past.crossed[t] => Shown(read, past.wanted[t])
      BY <1>4, <3>4 DEF TabOK
    <3> QED
      BY <2>8, <3>1, <3>2, <3>3, <3>5 DEF TabOK, OneKey
  <2> HIDE DEF late, read, GoesOn
  <2> QED
    BY <1>3, <1>8, <1>12, <2>4, <2>8, <2>9, <2>10
<1> QED
  BY <1>11, <1>12
-----------------------------------------------------------------------------
(* The invariant and the theorems. *)

LEMMA InitOK ==
  ASSUME Init
  PROVE  IInv
<1>1. /\ server.searches = <<>> /\ view.stored = 0 /\ view.webCrypto \in BOOLEAN
      /\ view.tabs = [t \in Tabs |-> Closed] /\ flight = <<>>
      /\ server \in [searches : {<<>>}, subscribed : {server.subscribed}, trial : {server.trial}]
      /\ view \in [stored : {0}, webCrypto : BOOLEAN, profile : {view.profile},
                   tabs : {view.tabs}]
  BY DEF Init
<1>2. /\ past.keys = 0 /\ past.overlapped = FALSE
      /\ past.wanted = [t \in Tabs |-> None] /\ past.crossed = [t \in Tabs |-> FALSE]
      /\ past \in [steps : {past.steps}, faults : {past.faults}, keys : {0},
                   overlapped : {FALSE}, wanted : {past.wanted}, crossed : {past.crossed}]
  BY DEF Init
<1>3. past.wanted \in [Tabs -> {past.wanted[t] : t \in Tabs}] /\ past.crossed \in [Tabs -> BOOLEAN]
  BY <1>2
<1>4. PastOK(past)
  <2>1. past.keys \in Nat /\ past.overlapped \in BOOLEAN
    <3>1. past.keys \in Nat
      BY <1>2
    <3>2. past.overlapped \in BOOLEAN
      BY <1>2, Zenon
    <3> QED
      BY <3>1, <3>2
  <2>2. past \in [steps : {past.steps}, faults : {past.faults}, keys : {past.keys},
                 overlapped : {past.overlapped}, wanted : {past.wanted},
                 crossed : {past.crossed}]
    BY <1>2
  <2> QED
    BY <1>3, <2>1, <2>2 DEF PastOK
<1>5. ServerOK(server, past, view.stored)
  <2>1. server.searches \in Seq(SearchRecords(past.keys)) /\ Ids(server) = {}
    BY <1>1 DEF Ids
  <2>2. server \in [searches : {server.searches}, subscribed : {server.subscribed},
                   trial : {server.trial}]
    BY <1>1
  <2> QED
    BY <2>1, <2>2 DEF ServerOK
<1>6. Closed \in Blank(Phases, past.keys) /\ Closed.pub = 0 /\ Closed.phase = "closed"
  BY <1>2, BlankTabs
<1>7. \A t \in Tabs : TabOK(Closed, t, server, past, view.stored)
  BY <1>2, <1>6, BlankOK
<1>8. ViewOK(view, server, past)
  <2>1. \A t \in Tabs : view.tabs[t] = Closed
    BY <1>1
  <2>2. view.tabs \in [Tabs -> TabTypes(server, past.keys)]
    <3>1. \A t \in Tabs : Closed \in TabTypes(server, past.keys)
      BY <1>7 DEF TabOK
    <3> QED
      BY <1>1, <3>1
  <2>3. view \in [stored : 0..past.keys, webCrypto : BOOLEAN, profile : {view.profile},
                  tabs : [Tabs -> TabTypes(server, past.keys)]]
    BY <1>1, <1>2, <2>2
  <2>4. \A t \in Tabs : view.tabs[t].phase # "loading"
    BY <1>6, <2>1
  <2>5. \A t \in Tabs : TabOK(view.tabs[t], t, server, past, view.stored)
    BY <1>7, <2>1
  <2> QED
    BY <2>3, <2>4, <2>5 DEF ViewOK
<1>9. FlightOK(flight, server, view, past)
  <2>1. DOMAIN flight = {} /\ flight \in Seq(Range(flight))
    BY <1>1
  <2> QED
    BY <2>1 DEF FlightOK, OthersOK
<1> QED
  BY <1>4, <1>5, <1>8, <1>9 DEF IInv

LEMMA UnchangedOK ==
  ASSUME IInv, UNCHANGED vars
  PROVE  IInv'
BY DEF IInv, vars

LEMMA StepOK ==
  ASSUME IInv, [Next]_vars
  PROVE  IInv'
<1>1. CASE UNCHANGED vars
  BY <1>1, UnchangedOK
<1>2. ASSUME NEW t \in Tabs,
             \/ Open(t) \/ KeyLoaded(t) \/ KeyGenerated(t) \/ KeyFails(t)
             \/ Search(t) \/ RefreshHistory(t) \/ Close(t)
      PROVE  IInv'
  <2>1. CASE Open(t)
    BY <2>1, OpenInv
  <2>2. CASE KeyLoaded(t)
    BY <2>2, ReadyInv DEF KeyLoaded
  <2>3. CASE KeyGenerated(t)
    BY <2>3, KeyGeneratedInv
  <2>4. CASE KeyFails(t)
    BY <2>4, ReadyInv DEF KeyFails
  <2>5. CASE Search(t)
    BY <2>5, SearchInv
  <2>6. CASE RefreshHistory(t)
    BY <2>6, RefreshHistoryInv
  <2>7. CASE Close(t)
    BY <2>7, CloseInv
  <2> QED
    BY <1>2, <2>1, <2>2, <2>3, <2>4, <2>5, <2>6, <2>7
<1>3. ASSUME NEW t \in Tabs,
             \/ \E s \in Now(t).history : ViewHistory(t, s)
             \/ \E p \in Now(t).polls : Poll(t, p)
             \/ \E d \in Now(t).decrypts : Decrypted(t, d)
             \/ \E key \in Now(t).asking : HistoryLoaded(t, key) \/ HistoryFails(t, key)
      PROVE  IInv'
  BY <1>3, ViewHistoryInv, PollInv, DecryptedInv, HistoryLoadedInv, HistoryFailsInv
<1>4. ASSUME NEW i \in DOMAIN flight,
             \/ \E failed \in SUBSET {"user", "banker", "trial"} : ServeCheck(i, failed)
             \/ ServeCreate(i) \/ ServeGet(i) \/ Fail(i)
             \/ HandleSearch(i) \/ HandlePoll(i) \/ Dropped(i)
      PROVE  IInv'
  BY <1>4, ServeCheckInv, ServeCreateInv, ServeGetInv, FailInv, HandleSearchInv, HandlePollInv,
     DroppedInv
<1>5. ASSUME NEW id \in DOMAIN server.searches, NEW found \in BOOLEAN, Crawl(id, found)
      PROVE  IInv'
  BY <1>5, CrawlInv DEF Ids
<1> QED
  BY <1>1, <1>2, <1>3, <1>4, <1>5 DEF Next

\* The parts of the inductive invariant hold in every state: every search and request is of
\* a key and a search that exist, and what a tab that was not crossed shows, polls and
\* decrypts is of one search.
THEOREM InvariantOK == Spec => []IInv
<1> QED
  BY InitOK, StepOK, PTL DEF Spec

\* Keys, tabs, searches and requests keep their types; what a tab shows or polls exists.
THEOREM TypeCorrect == Spec => []TypeOK
<1>1. ASSUME IInv PROVE TypeOK
  <2>1. ASSUME NEW id \in DOMAIN server.searches
        PROVE  /\ server.searches[id].key \in 1 .. past.keys
               /\ server.searches[id].crawl \in {"no", "found", "failed"}
               /\ server.searches[id].completed => server.searches[id].crawl # "no"
    <3>1. id \in Ids(server)
      BY DEF Ids
    <3> QED
      BY <1>1, <3>1, SearchFacts DEF SearchRecords
  <2>2. ASSUME NEW t \in Tabs
        PROVE  /\ Now(t) \in TabTypes(server, past.keys)
               /\ \A p, q \in Now(t).polls : p.id = q.id => p = q
    BY <1>1, InvFacts DEF TabOK
  <2>3. ASSUME NEW i \in DOMAIN flight PROVE IsRequest(flight[i], {"search", "get"})
    <3>1. IsReq(flight[i])
      BY <1>1, InvFacts
    <3> QED
      BY <3>1 DEF IsReq, IsRequest
  <2>4. view.stored \in 0 .. past.keys
    BY <1>1, StoredFacts
  <2>5. ASSUME NEW t \in Tabs
        PROVE  /\ Now(t).phase \in {"closed", "loading", "ready", "paywall"}
               /\ Now(t).pub \in 0 .. past.keys
               /\ Now(t).current \in Snapshots(server) \cup {None}
               /\ Now(t).text \in [of : Ids(server), plain : BOOLEAN] \cup {None}
               /\ Now(t).history \subseteq Snapshots(server)
               /\ Now(t).asking \subseteq 1 .. past.keys
               /\ Now(t).polls \subseteq [id : Ids(server), left : 0 .. MaxPolls]
    BY <2>2 DEF TabTypes, Phases
  <2> QED
    BY <2>1, <2>2, <2>3, <2>4, <2>5 DEF TypeOK, Ids, Snapshots
<1> QED
  BY <1>1, InvariantOK, PTL

\* A user can read every result of their searches, in whichever tab, as long as no two tabs
\* were opened at the same time: every search was then encrypted for the pair in storage.
THEOREM Readable == Spec => []ResultsAreReadable
<1>1. ASSUME IInv PROVE ResultsAreReadable
  <2> SUFFICES ASSUME ~past.overlapped, NEW t \in Tabs
               PROVE  Now(t).text \in [of : DOMAIN server.searches, plain : {TRUE}] \cup {None}
    BY DEF ResultsAreReadable
  <2>1. TabOK(Now(t), t, server, past, view.stored)
    BY <1>1, InvFacts
  <2>2. /\ Now(t).text \in [of : Ids(server), plain : BOOLEAN] \cup {None}
        /\ Now(t).text # None => Now(t).text.plain
    BY <2>1 DEF TabOK, TabTypes, OneKey
  <2> QED
    BY <2>2 DEF Ids
<1> QED
  BY <1>1, InvariantOK, PTL

\* A tab shows the search that its user asked for last, and the text of that search, unless
\* they asked for it while the tab was still busy with an earlier one.
THEOREM ShownIsAsked == Spec => []ShowsWhatWasAsked
<1>1. ASSUME IInv PROVE ShowsWhatWasAsked
  <2> SUFFICES ASSUME NEW t \in Tabs, Now(t).current # None, ~past.crossed[t]
               PROVE  /\ Now(t).current.id = past.wanted[t]
                      /\ Now(t).text \in {None} \cup
                           {[of |-> past.wanted[t], plain |-> b] : b \in BOOLEAN}
    BY DEF ShowsWhatWasAsked, ShowsResults
  <2>1. TabOK(Now(t), t, server, past, view.stored)
    BY <1>1, InvFacts
  <2>2. /\ Now(t).text \in [of : Ids(server), plain : BOOLEAN] \cup {None}
        /\ Now(t).text # None => Now(t).text.of = past.wanted[t]
        /\ Now(t).current.id = past.wanted[t]
    BY <2>1 DEF TabOK, TabTypes, Shown
  <2>3. ASSUME Now(t).text # None
        PROVE  Now(t).text \in {[of |-> past.wanted[t], plain |-> b] : b \in BOOLEAN}
    <3>1. Now(t).text = [of |-> past.wanted[t], plain |-> Now(t).text.plain]
          /\ Now(t).text.plain \in BOOLEAN
      BY <2>2, <2>3
    <3> QED
      BY <3>1
  <2> QED
    BY <2>2, <2>3
<1> QED
  BY <1>1, InvariantOK, PTL
=============================================================================
