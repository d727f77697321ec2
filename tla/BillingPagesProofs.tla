------------------------- MODULE BillingPagesProofs -------------------------
(***************************************************************************)
(* Proofs about BillingPages for any number of steps, edits, deliveries,   *)
(* requests in flight and failures.                                        *)
(*                                                                         *)
(* The page believes the answers, which may come late and after others, so *)
(* the inductive invariant says of each request and answer on its way what *)
(* it may rely on: an answer that says "active" or "verified" comes after  *)
(* a payment that succeeded, and no two requests speak for the same        *)
(* subscription.  It also says which subscriptions may still be proved:    *)
(* none that was ever active, which is why a cancelled one cannot be.      *)
(***************************************************************************)
EXTENDS BillingPages, TLAPS, SequenceTheorems, FiniteSetTheorems, WellFoundedInduction

Kinds == Methods \cup {"nodeop_free"}

Proven == {"interac", "crypto"}

Statuses == {"active", "suspended", "cancelled"} \cup {Pending(m) : m \in Methods}

Ops == {"status", "tiers", "create", "verify", "payments", "cancel", "rows", "save", "remove"}

TiersUpTo(n) == [id : 1..n, price : Prices]

Subs == [tier : Nat, method : Kinds, status : Statuses, failed : Nat, succeeded : Nat,
         checkout : {"none", "open", "paid"}]

\* A subscription that was active once has a payment that succeeded, and if that went
\* through Stripe, its webhook was delivered.
SubOK(sub, id, delivered) ==
  /\ sub \in Subs
  /\ sub.status = "pending_payment" => sub.method \in {"stripe", "nodeop_free"}
  /\ sub.status = "suspended" => sub.failed >= MaxAttempts
  /\ sub.status = "active" => sub.succeeded > 0
  /\ sub.checkout # "none" => sub.method = "stripe"
  /\ sub.checkout # "none" /\ sub.succeeded > 0 => id \in delivered

WasActive(subs, id) == id \in DOMAIN subs /\ subs[id].succeeded > 0

Unproven(subs, id) ==
  id \in DOMAIN subs /\ subs[id].succeeded = 0 /\ subs[id].method \in Proven

SomePaid(subs) == \E id \in DOMAIN subs : subs[id].succeeded > 0

\* The subscription whose payment the page asks to prove.
Shows(v, id) == v.result # None /\ v.result.id = id

\* What the page shows of subscriptions is so, or was.
ViewOK(v, subs, n) ==
  /\ v \in [page : {v.page}, checked : BOOLEAN, nodeop : BOOLEAN, active : BOOLEAN,
            paid : BOOLEAN, tiers : SUBSET TiersUpTo(n),
            result : [id : DOMAIN subs, kind : Kinds] \cup {None},
            submitting : BOOLEAN, verifying : BOOLEAN, subs : {v.subs}, cancelling : BOOLEAN]
  /\ v.paid => SomePaid(subs)
  /\ \A s \in v.subs : s.id \in DOMAIN subs /\ (s.status = "active" => WasActive(subs, s.id))
  /\ v.result # None /\ v.result.kind \in Proven /\ ~v.verifying /\ ~v.paid =>
       Unproven(subs, v.result.id)

Tierful(r, n) ==
  /\ r.op \in {"tiers", "rows"} /\ r.outcome = "ok" => r.data \subseteq TiersUpTo(n)
  /\ r.op = "save" => r.arg.tier \in [id : 0..n, price : Prices]

Statusful(r, subs) ==
  r.op = "status" /\ r.outcome = "ok" =>
    \A s \in r.data : {s.nodeop, s.active} \subseteq BOOLEAN /\ (s.active => SomePaid(subs))

Paymentful(r, subs) ==
  /\ r.op = "payments" /\ r.outcome = "ok" =>
       \A s \in r.data : s.id \in DOMAIN subs /\ (s.status = "active" => WasActive(subs, s.id))
  /\ r.op = "cancel" => WasActive(subs, r.arg.id)

\* An answer to a live request for a subscription names one that is new.
Createful(r, subs, v) ==
  r.op = "create" =>
    /\ r.arg.live => v.submitting
    /\ r.outcome = "ok" => \A s \in r.data :
         /\ s \in [id : DOMAIN subs, kind : Kinds] /\ subs[s.id].method = s.kind
         /\ s.kind = "nodeop_free" => SomePaid(subs)
         /\ s.kind \in Methods => s.kind = r.arg.method
         /\ s.kind \in Proven /\ r.arg.live => Unproven(subs, s.id)

\* What a payment can still be verified for has not been active, and a live request is
\* about the subscription that is shown.
Verifyful(r, subs, v) ==
  r.op = "verify" =>
    /\ r.arg.id \in DOMAIN subs /\ subs[r.arg.id].method \in Proven
    /\ r.outcome = "none" => Unproven(subs, r.arg.id)
    /\ Verified(r) => SomePaid(subs)
    /\ r.arg.live => v.verifying /\ (v.paid \/ Shows(v, r.arg.id))
    /\ r.arg.live /\ r.outcome \in {"ok", "refused"} /\ ~Verified(r) => Unproven(subs, r.arg.id)
    /\ ~r.arg.live => ~Shows(v, r.arg.id)

ArgOK(r) ==
  /\ r.op \in {"status", "tiers", "payments", "rows"} => r.arg \in [live : BOOLEAN]
  /\ r.op = "create" => r.arg \in [live : BOOLEAN, tier : Nat, method : Kinds]
  /\ r.op = "verify" => r.arg \in [live : BOOLEAN, id : Nat, provider : Proven]
  /\ r.op \in {"cancel", "remove"} => r.arg \in [live : BOOLEAN, id : Nat]
  /\ r.op = "save" => r.arg \in [live : BOOLEAN, tier : [id : Nat, price : Prices]]

IsReq(r) ==
  /\ r \in [op : Ops, arg : {r.arg}, outcome : Outcomes, data : {r.data}, late : BOOLEAN]
  /\ r.arg.live \in BOOLEAN /\ ArgOK(r)

ReqOK(r, subs, v, n) ==
  IsReq(r) /\ Tierful(r, n) /\ Statusful(r, subs) /\ Paymentful(r, subs)
    /\ Createful(r, subs, v) /\ Verifyful(r, subs, v)

\* Two requests: there is one live one of a kind, no subscription is verified twice, and
\* none that has still to be shown is.
PairOK(r, q) ==
  /\ r.op = q.op /\ r.op \in {"create", "verify"} => ~(r.arg.live /\ q.arg.live)
  /\ r.op = "verify" /\ q.op = "verify" => r.arg.id # q.arg.id
  /\ r.op = "create" /\ r.arg.live /\ r.outcome = "ok" /\ q.op = "verify" =>
       \A s \in r.data : s.id # q.arg.id
  /\ r.op = "create" /\ r.arg.method \in Methods /\ q.op = "verify" =>
       ~(r.arg.live /\ q.arg.live)

\* The requests other than number i.
OthersOK(fs, i, subs, v, n) ==
  /\ fs \in Seq(Range(fs))
  /\ \A j \in DOMAIN fs \ {i} : ReqOK(fs[j], subs, v, n)
  /\ \A j, k \in DOMAIN fs \ {i} : j # k => PairOK(fs[j], fs[k])

FlightOK(fs, subs, v, n) == OthersOK(fs, 0, subs, v, n)

ServerOK(s, p) ==
  /\ s \in [tiers : SUBSET TiersUpTo(p.tiers), subs : Seq(Subs), nodeop : BOOLEAN]
  /\ \A id \in DOMAIN s.subs : SubOK(s.subs[id], id, p.delivered)
  /\ \A t, u \in s.tiers : t.id = u.id => t = u

Pasts(p) ==
  [steps : {p.steps}, edits : {p.edits}, faults : {p.faults}, tiers : Nat,
   deliveries : {p.deliveries}, delivered : {p.delivered},
   redelivered : {p.redelivered}, cancelled : {p.cancelled}]

\* A subscription that was cancelled was active, and is not, or its event came again.
PastOK(p, subs) ==
  /\ p \in Pasts(p)
  /\ \A id \in p.cancelled :
       /\ WasActive(subs, id)
       /\ subs[id].status = "active" => id \in p.redelivered

\* The inductive invariant.
IInv ==
  /\ ServerOK(server, past) /\ PastOK(past, server.subs)
  /\ view \in [user : {view.user}, rows : SUBSET TiersUpTo(past.tiers)]
  /\ ViewOK(view.user, server.subs, past.tiers)
  /\ FlightOK(flight, server.subs, view.user, past.tiers)

-----------------------------------------------------------------------------
(* Sequences of requests. *)

\* r is q, or q marked as late.
Alike(r, q) ==
  r \in [op : {q.op}, arg : {q.arg}, outcome : {q.outcome}, data : {q.data}, late : BOOLEAN]

\* What is true of a request is true of one that is only marked as late.
LEMMA AlikeOK ==
  ASSUME NEW r, NEW q, Alike(r, q), NEW subs, NEW v, NEW n
  PROVE  /\ ReqOK(q, subs, v, n) => ReqOK(r, subs, v, n)
         /\ \A x : (PairOK(q, x) <=> PairOK(r, x)) /\ (PairOK(x, q) <=> PairOK(x, r))
<1>1. ReqOK(q, subs, v, n) => ReqOK(r, subs, v, n)
  BY DEF Alike, ReqOK, IsReq, ArgOK, Tierful, Statusful, Paymentful, Createful, Verifyful, Verified
<1>2. \A x : (PairOK(q, x) <=> PairOK(r, x)) /\ (PairOK(x, q) <=> PairOK(x, r))
  BY DEF Alike, PairOK
<1> QED
  BY <1>1, <1>2

\* A sequence is one of its entries.
LEMMA OwnRange ==
  ASSUME NEW S, NEW q \in Seq(S)
  PROVE  /\ q \in Seq(Range(q)) /\ Len(q) \in Nat /\ DOMAIN q = 1..Len(q)
         /\ q = [i \in 1..Len(q) |-> q[i]]
<1>1. Len(q) \in Nat /\ DOMAIN q = 1..Len(q) /\ q = [i \in 1..Len(q) |-> q[i]]
  OBVIOUS
<1>2. \A i \in 1..Len(q) : q[i] \in Range(q)
  BY <1>1 DEF Range
<1> QED
  BY <1>1, <1>2

\* Where request k of Handled(fs, i) was.
Skip(i, k) == IF k < i THEN k ELSE k + 1

\* A request is like itself, late or not.
LEMMA MarkedLate ==
  ASSUME NEW q, IsReq(q)
  PROVE  Alike(q, q) /\ Alike([q EXCEPT !.late = TRUE], q)
  BY DEF Alike, IsReq

\* Handled(fs, i) has the requests of fs other than number i, each of them once.
LEMMA HandledEntries ==
  ASSUME NEW fs, fs \in Seq(Range(fs)), NEW i \in DOMAIN fs, \A j \in DOMAIN fs \ {i} : IsReq(fs[j])
  PROVE  /\ Handled(fs, i) \in Seq(Range(Handled(fs, i)))
         /\ \A k \in DOMAIN Handled(fs, i) :
              Skip(i, k) \in DOMAIN fs \ {i} /\ Alike(Handled(fs, i)[k], fs[Skip(i, k)])
         /\ \A j, k \in DOMAIN Handled(fs, i) : j # k => Skip(i, j) # Skip(i, k)
<1> DEFINE h == Handled(fs, i)
           m == Len(fs)
<1>1. m \in Nat /\ DOMAIN fs = 1..m /\ i \in 1..m
  BY OwnRange
<1>2. DOMAIN h = 1..(m - 1) /\ h = [k \in 1..(m - 1) |-> h[k]]
  BY DEF Handled
<1>3. \A k \in 1..(m - 1) : Skip(i, k) \in (1..m) \ {i}
  BY <1>1 DEF Skip
<1>4. \A j, k \in 1..(m - 1) : j # k => Skip(i, j) # Skip(i, k)
  BY <1>1 DEF Skip
<1>5. ASSUME NEW k \in 1..(m - 1)
      PROVE  Alike(h[k], fs[Skip(i, k)])
  <2>1. h[k] \in {fs[Skip(i, k)], [fs[Skip(i, k)] EXCEPT !.late = TRUE]}
    BY DEF Handled, Skip
  <2> QED
    BY <1>1, <1>3, <2>1, MarkedLate
<1> HIDE DEF h
<1>6. h \in Seq(Range(h))
  <2>1. \A k \in 1..(m - 1) : h[k] \in Range(h)
    BY <1>2 DEF Range
  <2>2. CASE m - 1 \in Nat
    BY <1>2, <2>1, <2>2
  <2> QED
    BY <1>1, <2>2
<1> QED
  BY <1>1, <1>2, <1>3, <1>4, <1>5, <1>6 DEF h

\* What is left when request i was handled.
LEMMA HandledOK ==
  ASSUME NEW fs, NEW i \in DOMAIN fs, NEW subs, NEW v, NEW n, OthersOK(fs, i, subs, v, n)
  PROVE  FlightOK(Handled(fs, i), subs, v, n)
<1> DEFINE h == Handled(fs, i)
<1>1. /\ fs \in Seq(Range(fs))
      /\ \A j \in DOMAIN fs \ {i} : ReqOK(fs[j], subs, v, n) /\ IsReq(fs[j])
      /\ \A j, k \in DOMAIN fs \ {i} : j # k => PairOK(fs[j], fs[k])
  BY DEF OthersOK, ReqOK
<1>2. /\ h \in Seq(Range(h))
      /\ \A k \in DOMAIN h : Skip(i, k) \in DOMAIN fs \ {i} /\ Alike(h[k], fs[Skip(i, k)])
      /\ \A j, k \in DOMAIN h : j # k => Skip(i, j) # Skip(i, k)
  BY <1>1, HandledEntries
<1> HIDE DEF h
<1>3. \A k \in DOMAIN h : ReqOK(h[k], subs, v, n)
  BY <1>1, <1>2, AlikeOK
<1>4. ASSUME NEW j \in DOMAIN h, NEW k \in DOMAIN h, j # k
      PROVE  PairOK(h[j], h[k])
  <2>1. PairOK(fs[Skip(i, j)], fs[Skip(i, k)])
    BY <1>1, <1>2, <1>4
  <2>2. PairOK(h[j], fs[Skip(i, k)])
    BY <1>2, <2>1, AlikeOK
  <2> QED
    BY <1>2, <2>2, AlikeOK
<1> QED
  BY <1>2, <1>3, <1>4 DEF FlightOK, OthersOK, h

\* One request more.
LEMMA SentOK ==
  ASSUME NEW fs, NEW r, NEW subs, NEW v, NEW n, FlightOK(fs, subs, v, n),
         ReqOK(r, subs, v, n), \A i \in DOMAIN fs : PairOK(fs[i], r) /\ PairOK(r, fs[i])
  PROVE  FlightOK(Append(fs, r), subs, v, n)
<1> DEFINE S == Range(fs) \cup {r}
           h == Append(fs, r)
           m == Len(fs)
<1>1. /\ fs \in Seq(Range(fs)) /\ m \in Nat /\ DOMAIN fs = 1..m
      /\ \A j \in 1..m : ReqOK(fs[j], subs, v, n)
      /\ \A j, k \in 1..m : j # k => PairOK(fs[j], fs[k])
  <2>1. fs \in Seq(Range(fs)) /\ m \in Nat /\ DOMAIN fs = 1..m
    BY OwnRange DEF FlightOK, OthersOK
  <2> QED
    BY <2>1 DEF FlightOK, OthersOK
<1>2. fs \in Seq(S) /\ r \in S
  BY <1>1
<1>3. /\ h \in Seq(S) /\ Len(h) = m + 1
      /\ \A j \in 1..m : h[j] = fs[j]
      /\ h[m + 1] = r
  BY <1>1, <1>2
<1> HIDE DEF S, h, m
<1>4. h \in Seq(Range(h)) /\ DOMAIN h = 1..(m + 1)
  BY <1>3, OwnRange
<1>5. \A j \in 1..(m + 1) : j \in 1..m \/ j = m + 1
  BY <1>1
<1>6. \A j \in DOMAIN h : ReqOK(h[j], subs, v, n)
  BY <1>1, <1>3, <1>4, <1>5
<1>7. \A j, k \in DOMAIN h : j # k => PairOK(h[j], h[k])
  BY <1>1, <1>3, <1>4, <1>5
<1> QED
  BY <1>4, <1>6, <1>7 DEF FlightOK, OthersOK, h

\* One request answered.
LEMMA ServedOK ==
  ASSUME NEW fs, NEW i \in DOMAIN fs, NEW outcome, NEW data, NEW subs, NEW v, NEW n,
         OthersOK(fs, i, subs, v, n), IsReq(fs[i]), NEW r, r = Served(fs, i, outcome, data)[i],
         ReqOK(r, subs, v, n),
         \A j \in DOMAIN fs \ {i} : PairOK(fs[j], r) /\ PairOK(r, fs[j])
  PROVE  FlightOK(Served(fs, i, outcome, data), subs, v, n)
<1> DEFINE h == Served(fs, i, outcome, data)
<1>1. /\ fs \in Seq(Range(fs)) /\ i # 0
      /\ \A j \in DOMAIN fs \ {i} : ReqOK(fs[j], subs, v, n)
      /\ \A j, k \in DOMAIN fs \ {i} : j # k => PairOK(fs[j], fs[k])
  BY OwnRange DEF OthersOK
<1>2. /\ DOMAIN h = DOMAIN fs /\ \A j \in DOMAIN fs \ {i} : h[j] = fs[j]
      /\ h[i] = r
  BY DEF Served
<1>3. h \in Seq(Range(fs) \cup {r})
  <2>1. Len(fs) \in Nat /\ DOMAIN fs = 1..Len(fs)
    BY <1>1, OwnRange
  <2>2. \A j \in 1..Len(fs) : h[j] \in Range(fs) \cup {r}
    BY <1>2, <2>1 DEF Range
  <2>3. h = [j \in 1..Len(fs) |-> h[j]]
    BY <2>1 DEF Served
  <2> HIDE DEF h
  <2> QED
    BY <2>1, <2>2, <2>3
<1> HIDE DEF h
<1>4. h \in Seq(Range(h))
  BY <1>3, OwnRange
<1> QED
  BY <1>1, <1>2, <1>4 DEF FlightOK, OthersOK, h

\* What a service leaves of a request, and what it adds.
LEMMA AnswerFields ==
  ASSUME NEW fs, NEW i \in DOMAIN fs, IsReq(fs[i]), NEW outcome \in Outcomes, NEW data
  PROVE  LET r == Served(fs, i, outcome, data)[i]
         IN /\ IsReq(r) /\ r.op = fs[i].op /\ r.arg = fs[i].arg
            /\ r.outcome = outcome /\ r.data = data
  BY DEF Served, IsReq, ArgOK

-----------------------------------------------------------------------------
(* What stays true of the other requests and of the page. *)

\* The subscriptions grow; of those that a payment may be proved for only `proved`
\* becomes active.
Grown(subs, more, proved) ==
  /\ DOMAIN subs \subseteq DOMAIN more
  /\ \A id \in DOMAIN subs :
       /\ more[id].method = subs[id].method
       /\ subs[id].succeeded > 0 => more[id].succeeded > 0
       /\ subs[id].succeeded = 0 /\ subs[id].method \in Proven /\ id # proved =>
            more[id].succeeded = 0

\* Request r claims of no subscription that it is `id` and was not active.
Neutral(r, id) ==
  /\ r.op = "verify" => r.arg.id # id
  /\ r.op = "create" /\ r.outcome = "ok" =>
       \A s \in r.data : s.kind \in Proven /\ r.arg.live => s.id # id

\* Facts about subscriptions that growing does not undo.
LEMMA GrownFacts ==
  ASSUME NEW subs, NEW more, NEW proved, Grown(subs, more, proved)
  PROVE  /\ SomePaid(subs) => SomePaid(more)
         /\ \A id : WasActive(subs, id) => WasActive(more, id)
         /\ \A id : Unproven(subs, id) /\ id # proved => Unproven(more, id)
  BY DEF Grown, SomePaid, WasActive, Unproven

\* A request stays right when the subscriptions and the tiers grow.
LEMMA ReqGrown ==
  ASSUME NEW r, NEW subs, NEW more, NEW proved, NEW v, NEW n \in Nat, NEW m \in Nat,
         ReqOK(r, subs, v, n), Grown(subs, more, proved), Neutral(r, proved), n <= m
  PROVE  ReqOK(r, more, v, m)
<1>1. /\ SomePaid(subs) => SomePaid(more)
      /\ \A id : WasActive(subs, id) => WasActive(more, id)
      /\ \A id : Unproven(subs, id) /\ id # proved => Unproven(more, id)
      /\ \A id \in DOMAIN subs : id \in DOMAIN more /\ more[id].method = subs[id].method
  BY GrownFacts DEF Grown
<1>2. TiersUpTo(n) \subseteq TiersUpTo(m)
      /\ [id : 0..n, price : Prices] \subseteq [id : 0..m, price : Prices]
  BY DEF TiersUpTo
<1>3. Tierful(r, n) => Tierful(r, m)
  BY <1>2 DEF Tierful
<1>4. Statusful(r, subs) => Statusful(r, more)
  BY <1>1 DEF Statusful
<1>5. Paymentful(r, subs) => Paymentful(r, more)
  BY <1>1 DEF Paymentful
<1>6. Createful(r, subs, v) => Createful(r, more, v)
  BY <1>1 DEF Createful, Neutral
<1>7. Verifyful(r, subs, v) => Verifyful(r, more, v)
  BY <1>1 DEF Verifyful, Neutral
<1> QED
  BY <1>3, <1>4, <1>5, <1>6, <1>7 DEF ReqOK

\* So does the page.
LEMMA ViewGrown ==
  ASSUME NEW v, NEW subs, NEW more, NEW proved, NEW n \in Nat, NEW m \in Nat,
         ViewOK(v, subs, n), Grown(subs, more, proved), n <= m,
         v.result # None /\ v.result.kind \in Proven /\ ~v.verifying /\ ~v.paid =>
           v.result.id # proved
  PROVE  ViewOK(v, more, m)
<1>1. /\ SomePaid(subs) => SomePaid(more)
      /\ \A id : WasActive(subs, id) => WasActive(more, id)
      /\ \A id : Unproven(subs, id) /\ id # proved => Unproven(more, id)
      /\ DOMAIN subs \subseteq DOMAIN more
  BY GrownFacts DEF Grown
<1>2. TiersUpTo(n) \subseteq TiersUpTo(m)
  BY DEF TiersUpTo
<1> QED
  BY <1>1, <1>2 DEF ViewOK

\* What requests depend on in the page.
SameView(v, w) ==
  /\ w.submitting = v.submitting /\ w.verifying = v.verifying
  /\ w.result = v.result /\ (v.paid => w.paid)

\* A request stays right when the page changes in something else.
LEMMA ReqSameView ==
  ASSUME NEW r, NEW subs, NEW v, NEW w, NEW n, ReqOK(r, subs, v, n), SameView(v, w)
  PROVE  ReqOK(r, subs, w, n)
  BY DEF ReqOK, SameView, Createful, Verifyful, Shows

\* r is q, or q without its page.
Left(r, q) ==
  /\ r.op = q.op /\ r.outcome = q.outcome /\ r.data = q.data
  /\ r.arg.live => q.arg.live
  /\ r.op \in {"create", "verify"} => ~r.arg.live
  /\ r.op = "create" => r.arg.method = q.arg.method /\ r.arg.tier = q.arg.tier
  /\ r.op \in {"verify", "cancel"} => r.arg.id = q.arg.id

\* A page that is opened again leaves only requests behind that nobody waits for.
LEMMA OrphanedOK ==
  ASSUME NEW fs, NEW subs, NEW v, NEW n, NEW page, FlightOK(fs, subs, v, n)
  PROVE  FlightOK(Orphaned(fs), subs, Fresh(page), n)
<1> DEFINE h == Orphaned(fs)
           w == Fresh(page)
           Leaving == {"tiers", "status", "payments", "create", "verify", "cancel"}
<1>1. /\ fs \in Seq(Range(fs)) /\ Len(fs) \in Nat /\ DOMAIN fs = 1..Len(fs)
      /\ \A j \in DOMAIN fs : ReqOK(fs[j], subs, v, n) /\ IsReq(fs[j])
      /\ \A j, k \in DOMAIN fs : j # k => PairOK(fs[j], fs[k])
  <2>1. fs \in Seq(Range(fs)) /\ Len(fs) \in Nat /\ DOMAIN fs = 1..Len(fs)
    BY OwnRange DEF FlightOK, OthersOK
  <2> QED
    BY <2>1 DEF FlightOK, OthersOK, ReqOK
<1>2. w.result = None
  BY DEF Fresh
<1>3. ASSUME NEW j \in DOMAIN fs
      PROVE  ReqOK(h[j], subs, w, n) /\ Left(h[j], fs[j])
  <2>1. ReqOK(fs[j], subs, v, n)
    BY <1>1
  <2>2. h[j] = IF fs[j].op \in Leaving THEN [fs[j] EXCEPT !.arg.live = FALSE] ELSE fs[j]
    BY DEF Orphaned
  <2>3. CASE fs[j].op \in Leaving
    <3>1. h[j] = [fs[j] EXCEPT !.arg.live = FALSE]
      BY <2>2, <2>3
    <3>2. /\ h[j] \in [op : {fs[j].op}, arg : {[fs[j].arg EXCEPT !.live = FALSE]},
                       outcome : {fs[j].outcome}, data : {fs[j].data}, late : BOOLEAN]
      BY <2>1, <3>1 DEF ReqOK, IsReq
    <3>3. /\ h[j].op = fs[j].op /\ h[j].outcome = fs[j].outcome /\ h[j].data = fs[j].data
          /\ h[j].arg = [fs[j].arg EXCEPT !.live = FALSE]
      BY <3>2
    <3>4. Left(h[j], fs[j]) /\ ~h[j].arg.live
      BY <2>1, <2>3, <3>3 DEF ReqOK, IsReq, ArgOK, Left
    <3>5. IsReq(h[j])
      BY <2>1, <2>3, <3>2, <3>3, <3>4 DEF ReqOK, IsReq, ArgOK
    <3> QED
      BY <1>2, <2>1, <3>3, <3>4, <3>5
      DEF ReqOK, Left, Tierful, Statusful, Paymentful, Createful, Verifyful, Verified, Shows
  <2>4. CASE fs[j].op \notin Leaving
    BY <2>1, <2>2, <2>4
    DEF ReqOK, Left, Tierful, Statusful, Paymentful, Createful, Verifyful
  <2> QED
    BY <2>3, <2>4
<1>4. \A j, k \in DOMAIN fs : j # k => PairOK(h[j], h[k])
  BY <1>1, <1>3 DEF PairOK, Left
<1>5. DOMAIN h = DOMAIN fs /\ h \in Seq(Range(h))
  <2>1. DOMAIN h = 1..Len(fs) /\ h = [j \in 1..Len(fs) |-> h[j]]
    BY <1>1 DEF Orphaned
  <2>2. \A j \in 1..Len(fs) : h[j] \in Range(h)
    BY <2>1 DEF Range
  <2> HIDE DEF h
  <2> QED
    BY <1>1, <2>1, <2>2
<1> QED
  BY <1>3, <1>4, <1>5 DEF FlightOK, OthersOK

-----------------------------------------------------------------------------
(* The invariant again after a step, from its parts. *)

\* The parts of the invariant, as the steps use them.
LEMMA InvFacts ==
  ASSUME IInv
  PROVE  /\ ServerOK(server, past) /\ PastOK(past, server.subs)
         /\ view \in [user : {Now}, rows : SUBSET TiersUpTo(past.tiers)]
         /\ ViewOK(Now, server.subs, past.tiers)
         /\ FlightOK(flight, server.subs, Now, past.tiers)
         /\ past.tiers \in Nat
         /\ server.subs \in Seq(Subs) /\ Len(server.subs) \in Nat
         /\ DOMAIN server.subs = 1..Len(server.subs)
         /\ flight \in Seq(Range(flight))
         /\ \A i \in DOMAIN flight :
              i # 0 /\ IsReq(flight[i]) /\ ReqOK(flight[i], server.subs, Now, past.tiers)
<1>1. /\ ServerOK(server, past) /\ PastOK(past, server.subs)
      /\ view \in [user : {Now}, rows : SUBSET TiersUpTo(past.tiers)]
      /\ ViewOK(Now, server.subs, past.tiers)
      /\ FlightOK(flight, server.subs, Now, past.tiers)
  BY DEF IInv, Now
<1>2. past.tiers \in Nat /\ server.subs \in Seq(Subs) /\ flight \in Seq(Range(flight))
  BY <1>1 DEF PastOK, Pasts, ServerOK, FlightOK, OthersOK
<1>3. \A i \in DOMAIN flight : i # 0
  BY <1>2, OwnRange
<1>4. \A i \in DOMAIN flight : ReqOK(flight[i], server.subs, Now, past.tiers)
  BY <1>1, <1>3 DEF FlightOK, OthersOK
<1> QED
  BY <1>1, <1>2, <1>3, <1>4, OwnRange DEF ReqOK

\* Histories that only count.
Counts(p, q) ==
  /\ q \in Pasts(q)
  /\ q.tiers = p.tiers /\ q.delivered = p.delivered /\ q.redelivered = p.redelivered
  /\ q.cancelled = p.cancelled

\* Steps that only count keep what is said of the services and the histories.
LEMMA CountedOK ==
  ASSUME NEW p, NEW q, NEW s, PastOK(p, s.subs), ServerOK(s, p), Counts(p, q)
  PROVE  PastOK(q, s.subs) /\ ServerOK(s, q) /\ q.tiers = p.tiers
<1>1. PastOK(q, s.subs)
  BY DEF PastOK, Counts
<1>2. ServerOK(s, q)
  BY DEF ServerOK, Counts
<1> QED
  BY <1>1, <1>2 DEF Counts

\* The counters of the bounds count.
LEMMA PastCounts ==
  ASSUME NEW p, p \in Pasts(p), NEW n
  PROVE  /\ Counts(p, p)
         /\ Counts(p, [p EXCEPT !.steps = @ + 1])
         /\ Counts(p, [p EXCEPT !.edits = @ + 1])
         /\ Counts(p, [p EXCEPT !.faults = @ + n])
  BY DEF Counts, Pasts

\* A step of the user, who sees w afterwards.
LEMMA UserStep ==
  ASSUME IInv, NEW w, User(w), ViewOK(w, server.subs, past.tiers),
         FlightOK(flight', server.subs, w, past.tiers),
         UNCHANGED server, Counts(past, past')
  PROVE  IInv'
<1>1. /\ ServerOK(server, past') /\ PastOK(past', server.subs) /\ past'.tiers = past.tiers
  BY InvFacts, CountedOK
<1>2. view' \in [user : {w}, rows : SUBSET TiersUpTo(past.tiers)]
  BY InvFacts DEF User
<1> QED
  BY <1>1, <1>2 DEF IInv

\* A step that leaves the user's page and the services alone.
LEMMA FlightStep ==
  ASSUME IInv, FlightOK(flight', server.subs, Now, past.tiers),
         UNCHANGED <<server, view>>, Counts(past, past')
  PROVE  IInv'
<1>1. /\ ServerOK(server, past') /\ PastOK(past', server.subs) /\ past'.tiers = past.tiers
  BY InvFacts, CountedOK
<1> QED
  BY <1>1, InvFacts DEF IInv, Now

\* Requests that are not for a subscription pair with every other.
LEMMA PlainPair ==
  ASSUME NEW r, NEW q, r.op \notin {"create", "verify"}
  PROVE  PairOK(r, q) /\ PairOK(q, r)
  BY DEF PairOK

\* One request more that is not for a subscription.
LEMMA SentPlain ==
  ASSUME NEW fs, NEW op, op \in Ops \ {"create", "verify"}, NEW arg,
         NEW subs, NEW v, NEW n, FlightOK(fs, subs, v, n),
         arg.live \in BOOLEAN, ArgOK(Request(op, arg)),
         op = "save" => arg.tier \in [id : 0..n, price : Prices],
         op = "cancel" => WasActive(subs, arg.id)
  PROVE  FlightOK(Append(fs, Request(op, arg)), subs, v, n)
<1> DEFINE r == Request(op, arg)
<1>1. /\ r.op = op /\ r.arg = arg /\ r.outcome = "none" /\ IsReq(r)
  BY DEF Request, IsReq, Outcomes
<1> HIDE DEF r
<1>2. ReqOK(r, subs, v, n)
  BY <1>1 DEF ReqOK, Tierful, Statusful, Paymentful, Createful, Verifyful
<1>3. \A i \in DOMAIN fs : PairOK(fs[i], r) /\ PairOK(r, fs[i])
  BY <1>1, PlainPair
<1> QED
  BY <1>2, <1>3, SentOK DEF r

\* One load more.
LEMMA SentLoad ==
  ASSUME NEW fs, NEW op \in {"tiers", "status", "payments", "rows"},
         NEW subs, NEW v, NEW n, FlightOK(fs, subs, v, n)
  PROVE  FlightOK(Append(fs, Request(op, [live |-> TRUE])), subs, v, n)
<1>1. ArgOK(Request(op, [live |-> TRUE]))
  BY DEF ArgOK, Request
<1> QED
  BY <1>1, SentPlain DEF Ops

\* A fresh page promises nothing.
LEMMA FreshOK ==
  ASSUME NEW page, NEW subs, NEW n
  PROVE  ViewOK(Fresh(page), subs, n) /\ Fresh(page).result = None
  BY DEF ViewOK, Fresh

LEMMA StepOpenManagement ==
  ASSUME IInv, OpenManagement
  PROVE  IInv'
<1> DEFINE w == Fresh("manage")
<1>1. FlightOK(Orphaned(flight), server.subs, w, past.tiers)
  BY InvFacts, OrphanedOK
<1>2. FlightOK(flight', server.subs, w, past.tiers)
  BY <1>1, SentLoad DEF OpenManagement
<1>3. Counts(past, past')
  BY InvFacts, PastCounts DEF PastOK, OpenManagement, Counted
<1> QED
  BY <1>2, <1>3, FreshOK, UserStep DEF OpenManagement

LEMMA StepOpenOnboarding ==
  ASSUME IInv, OpenOnboarding
  PROVE  IInv'
<1> DEFINE w == Fresh("subscribe")
           fs == Orphaned(flight)
           a == Request("status", [live |-> TRUE])
           b == Request("tiers", [live |-> TRUE])
<1>1. FlightOK(fs, server.subs, w, past.tiers)
  BY InvFacts, OrphanedOK
<1>2. FlightOK(Append(Append(fs, a), b), server.subs, w, past.tiers)
  BY <1>1, SentLoad
<1>3. flight' = Append(Append(fs, a), b)
  <2>1. fs \in Seq(Range(fs))
    BY <1>1 DEF FlightOK, OthersOK
  <2>2. flight' = fs \o <<a, b>>
    BY DEF OpenOnboarding
  <2> HIDE DEF fs, a, b
  <2>3. fs \in Seq(Range(fs) \cup {a, b})
    BY <2>1
  <2> QED
    BY <2>2, <2>3
<1>4. Counts(past, past')
  BY InvFacts, PastCounts DEF PastOK, OpenOnboarding, Counted
<1> QED
  BY <1>2, <1>3, <1>4, FreshOK, UserStep DEF OpenOnboarding

\* handleConfirm and the banner of node operators.
LEMMA SentCreate ==
  ASSUME IInv, ~Now.submitting, NEW tier \in Nat, NEW method \in Kinds,
         method \in Methods => Now.result = None /\ ~Now.paid,
         User([Now EXCEPT !.submitting = TRUE]), UNCHANGED server, Counts(past, past'),
         Send("create", [live |-> TRUE, tier |-> tier, method |-> method])
  PROVE  IInv'
<1> DEFINE w == [Now EXCEPT !.submitting = TRUE]
           r == Request("create", [live |-> TRUE, tier |-> tier, method |-> method])
           subs == server.subs
           n == past.tiers
<1>1. /\ ViewOK(Now, subs, n) /\ FlightOK(flight, subs, Now, n)
      /\ \A i \in DOMAIN flight : i # 0 /\ ReqOK(flight[i], subs, Now, n)
  BY InvFacts
<1>2. ViewOK(w, subs, n)
  BY <1>1 DEF ViewOK
<1>3. /\ w.submitting /\ w.verifying = Now.verifying /\ w.result = Now.result
      /\ w.paid = Now.paid
  BY <1>1 DEF ViewOK
<1>4. /\ r.op = "create" /\ r.outcome = "none" /\ r.arg.live /\ r.arg.method = method
      /\ IsReq(r)
  BY DEF Request, IsReq, ArgOK, Ops, Outcomes
<1> HIDE DEF w, r
<1>5. \A i \in DOMAIN flight : ReqOK(flight[i], subs, w, n)
  BY <1>1, <1>3 DEF ReqOK, Createful, Verifyful, Shows
<1>6. FlightOK(flight, subs, w, n)
  BY <1>1, <1>5 DEF FlightOK, OthersOK
<1>7. ReqOK(r, subs, w, n)
  BY <1>3, <1>4 DEF ReqOK, Tierful, Statusful, Paymentful, Createful, Verifyful
<1>8. \A i \in DOMAIN flight : PairOK(flight[i], r) /\ PairOK(r, flight[i])
  <2> SUFFICES ASSUME NEW i \in DOMAIN flight
               PROVE  PairOK(flight[i], r) /\ PairOK(r, flight[i])
    OBVIOUS
  <2>1. flight[i].op = "create" => ~flight[i].arg.live
    BY <1>1 DEF ReqOK, Createful
  <2>2. flight[i].op = "verify" /\ method \in Methods => ~flight[i].arg.live
    BY <1>1 DEF ReqOK, Verifyful, Shows
  <2> QED
    BY <1>4, <2>1, <2>2 DEF PairOK
<1>9. FlightOK(flight', subs, w, n)
  BY <1>6, <1>7, <1>8, SentOK DEF Send, r
<1> QED
  BY <1>2, <1>9, UserStep DEF w

LEMMA StepConfirm ==
  ASSUME IInv, NEW tier \in Now.tiers, NEW method \in Methods, Confirm(tier, method)
  PROVE  IInv'
<1>1. tier.id \in Nat
  BY InvFacts DEF ViewOK, TiersUpTo
<1>2. Counts(past, past')
  BY InvFacts, PastCounts DEF PastOK, Confirm, Counted
<1> QED
  BY <1>1, <1>2, SentCreate DEF Confirm, ShowsSummary, ShowsSteps, Kinds

LEMMA StepNodeopSubscribe ==
  ASSUME IInv, NodeopSubscribe
  PROVE  IInv'
<1>1. PICK tier \in Now.tiers :
        Send("create", [live |-> TRUE, tier |-> tier.id, method |-> "nodeop_free"])
  BY DEF NodeopSubscribe
<1>2. tier.id \in Nat
  BY InvFacts DEF ViewOK, TiersUpTo
<1>3. Counts(past, past')
  BY InvFacts, PastCounts DEF PastOK, NodeopSubscribe, Counted
<1>4. "nodeop_free" \in Kinds /\ "nodeop_free" \notin Methods
  BY DEF Kinds, Methods
<1>5. ~Now.submitting /\ User([Now EXCEPT !.submitting = TRUE]) /\ UNCHANGED server
  BY DEF NodeopSubscribe, OffersNodeop
<1> HIDE DEF Send
<1> QED
  BY <1>1, <1>2, <1>3, <1>4, <1>5, SentCreate

LEMMA StepVerifying ==
  ASSUME IInv, NEW method \in Proven, Verifying(method)
  PROVE  IInv'
<1> DEFINE w == [Now EXCEPT !.verifying = TRUE]
           id == Now.result.id
           r == Request("verify", [live |-> TRUE, id |-> id, provider |-> method])
           subs == server.subs
           n == past.tiers
<1>1. /\ ViewOK(Now, subs, n) /\ FlightOK(flight, subs, Now, n)
      /\ \A i \in DOMAIN flight : i # 0 /\ ReqOK(flight[i], subs, Now, n)
  BY InvFacts
<1>2. /\ Now.result \in [id : Nat, kind : {method}] /\ ~Now.submitting /\ ~Now.verifying
      /\ ~Now.paid
  BY DEF Verifying, AsksForProof, ShowsSteps
<1>3. Now.result # None /\ Now.result.kind = method
  BY <1>2, NoneAssumption DEF Proven, Methods
<1>4. Unproven(subs, id) /\ id \in Nat
  BY <1>1, <1>2, <1>3 DEF ViewOK
<1>5. ViewOK(w, subs, n)
  BY <1>1 DEF ViewOK
<1>6. /\ w.submitting = Now.submitting /\ w.verifying /\ w.result = Now.result
      /\ w.paid = Now.paid
  BY <1>1 DEF ViewOK
<1>7. /\ r.op = "verify" /\ r.outcome = "none" /\ r.arg.live /\ r.arg.id = id
      /\ IsReq(r)
  BY <1>4 DEF Request, IsReq, ArgOK, Ops, Outcomes
<1> HIDE DEF w, r
<1>8. \A i \in DOMAIN flight : ReqOK(flight[i], subs, w, n)
  BY <1>1, <1>6 DEF ReqOK, Createful, Verifyful, Shows
<1>9. FlightOK(flight, subs, w, n)
  BY <1>1, <1>8 DEF FlightOK, OthersOK
<1>10. ReqOK(r, subs, w, n)
  BY <1>3, <1>4, <1>6, <1>7
  DEF ReqOK, Tierful, Statusful, Paymentful, Createful, Verifyful, Unproven, Verified, Shows
<1>11. \A i \in DOMAIN flight : PairOK(flight[i], r) /\ PairOK(r, flight[i])
  <2> SUFFICES ASSUME NEW i \in DOMAIN flight
               PROVE  PairOK(flight[i], r) /\ PairOK(r, flight[i])
    OBVIOUS
  <2>1. flight[i].op = "create" => ~flight[i].arg.live
    BY <1>1, <1>2 DEF ReqOK, Createful
  <2>2. flight[i].op = "verify" => ~flight[i].arg.live /\ flight[i].arg.id # id
    BY <1>1, <1>2, <1>3 DEF ReqOK, Verifyful, Shows, IsReq
  <2> QED
    BY <1>7, <2>1, <2>2 DEF PairOK
<1>12. FlightOK(flight', subs, w, n)
  BY <1>9, <1>10, <1>11, SentOK DEF Send, Verifying, r
<1>13. Counts(past, past')
  BY InvFacts, PastCounts DEF PastOK, Verifying, Counted
<1> QED
  BY <1>5, <1>12, <1>13, UserStep DEF Verifying, w

\* The largest of some subscriptions is one of them.
LEMMA MaxOfIds ==
  ASSUME NEW n \in Nat, NEW S, S \subseteq 1..n, S # {}
  PROVE  Max(S) \in S
<1> DEFINE Gaps == {n - x : x \in S}
           R == {ss \in Nat \X Nat : ss[1] < ss[2]}
<1>1. Gaps \subseteq Nat /\ Gaps # {}
  <2>1. Gaps \subseteq Nat
    OBVIOUS
  <2>2. PICK x : x \in S
    OBVIOUS
  <2>3. n - x \in Gaps
    BY <2>2
  <2> QED
    BY <2>1, <2>3
<1>2. IsWellFoundedOn(R, Nat)
  BY NatLessThanWellFounded DEF OpToRel
<1>3. \A x, y \in Nat : x < y => <<x, y>> \in R
  OBVIOUS
<1> HIDE DEF R, Gaps
<1>4. PICK a \in Gaps : \A b \in Gaps : <<b, a>> \notin R
  BY <1>1, <1>2, WFMin
<1>5. \A b \in Gaps : a <= b
  <2> TAKE b \in Gaps
  <2>1. a \in Nat /\ b \in Nat
    BY <1>1
  <2>2. ~(b < a)
    BY <1>3, <1>4, <2>1, Zenon
  <2> QED
    BY <2>1, <2>2
<1>6. PICK x \in S : a = n - x
  BY DEF Gaps
<1>7. \A y \in S : n - y \in Gaps
  BY DEF Gaps
<1>8. \A y \in S : n - x <= n - y
  BY <1>5, <1>6, <1>7
<1>9. x \in Nat /\ \A y \in S : y \in Nat
  OBVIOUS
<1>10. \A y \in S : x >= y
  BY <1>8, <1>9
<1> QED
  BY <1>10 DEF Max

LEMMA StepCancel ==
  ASSUME IInv, Cancel
  PROVE  IInv'
<1> DEFINE w == [Now EXCEPT !.cancelling = TRUE]
           id == ActiveSub(Now.subs)
           subs == server.subs
           n == past.tiers
<1>1. /\ ViewOK(Now, subs, n) /\ FlightOK(flight, subs, Now, n)
      /\ \A i \in DOMAIN flight : i # 0 /\ ReqOK(flight[i], subs, Now, n)
      /\ Len(subs) \in Nat /\ DOMAIN subs = 1..Len(subs)
  BY InvFacts
<1>2. id \in Nat /\ WasActive(subs, id)
  <2> DEFINE active == {s.id : s \in {x \in Now.subs : x.status = "active"}}
  <2>1. active # {} /\ id = Max(active)
    BY DEF Cancel, ActiveSub
  <2>2. \A x \in active : x \in DOMAIN subs /\ WasActive(subs, x)
    BY <1>1 DEF ViewOK
  <2> HIDE DEF active, id
  <2>3. Max(active) \in active
    BY <1>1, <2>1, <2>2, MaxOfIds
  <2> QED
    BY <1>1, <2>1, <2>2, <2>3
<1>3. ViewOK(w, subs, n)
  BY <1>1 DEF ViewOK
<1>4. SameView(Now, w)
  BY <1>1 DEF SameView, ViewOK
<1> HIDE DEF w, id
<1>5. FlightOK(flight, subs, w, n)
  BY <1>1, <1>4, ReqSameView DEF FlightOK, OthersOK
<1>6. FlightOK(flight', subs, w, n)
  <2> DEFINE arg == [live |-> TRUE, id |-> id]
  <2>1. arg.live \in BOOLEAN /\ arg.id = id /\ ArgOK(Request("cancel", arg))
    BY <1>2 DEF ArgOK, Request
  <2>2. flight' = Append(flight, Request("cancel", arg))
    BY DEF Cancel, Send, id
  <2> HIDE DEF arg
  <2> QED
    BY <1>2, <1>5, <2>1, <2>2, SentPlain DEF Ops
<1>7. Counts(past, past')
  BY InvFacts, PastCounts DEF PastOK, Cancel, Counted
<1> QED
  BY <1>3, <1>6, <1>7, UserStep DEF Cancel, w

LEMMA StepSaveTier ==
  ASSUME IInv, NEW tier \in view.rows \cup {NewTier}, NEW price \in Prices,
         SaveTier(tier, price)
  PROVE  IInv'
<1> DEFINE arg == [live |-> TRUE, tier |-> [tier EXCEPT !.price = price]]
<1>1. tier \in [id : 0..past.tiers, price : Prices]
  BY InvFacts DEF NewTier, TiersUpTo, Prices
<1>2. /\ arg.live \in BOOLEAN /\ arg.tier \in [id : 0..past.tiers, price : Prices]
      /\ ArgOK(Request("save", arg))
  <2>1. [tier EXCEPT !.price = price] \in [id : 0..past.tiers, price : Prices]
    BY <1>1
  <2>2. [tier EXCEPT !.price = price] \in [id : Nat, price : Prices]
    BY <2>1
  <2> QED
    BY <2>1, <2>2 DEF ArgOK, Request
<1>3. flight' = Append(flight, Request("save", arg))
  BY DEF SaveTier, Send
<1> HIDE DEF arg
<1>4. FlightOK(flight', server.subs, Now, past.tiers)
  BY <1>2, <1>3, InvFacts, SentPlain DEF Ops
<1>5. Counts(past, past')
  BY InvFacts, PastCounts DEF PastOK, SaveTier, Edited
<1> QED
  BY <1>4, <1>5, FlightStep DEF SaveTier

LEMMA StepDeleteTier ==
  ASSUME IInv, NEW tier \in view.rows, DeleteTier(tier)
  PROVE  IInv'
<1> DEFINE arg == [live |-> TRUE, id |-> tier.id]
<1>1. tier.id \in Nat
  BY InvFacts DEF TiersUpTo
<1>2. arg.live \in BOOLEAN /\ ArgOK(Request("remove", arg))
  BY <1>1 DEF ArgOK, Request
<1>3. flight' = Append(flight, Request("remove", arg))
  BY DEF DeleteTier, Send
<1> HIDE DEF arg
<1>4. FlightOK(flight', server.subs, Now, past.tiers)
  BY <1>2, <1>3, InvFacts, SentPlain DEF Ops
<1>5. Counts(past, past')
  BY InvFacts, PastCounts DEF PastOK, DeleteTier, Edited
<1> QED
  BY <1>4, <1>5, FlightStep DEF DeleteTier

-----------------------------------------------------------------------------
(* The banker and Stripe. *)

\* Requests that are all right are so without number i.
LEMMA FlightOthers ==
  ASSUME NEW fs, NEW i, NEW subs, NEW v, NEW n, FlightOK(fs, subs, v, n), 0 \notin DOMAIN fs
  PROVE  OthersOK(fs, i, subs, v, n)
  BY DEF FlightOK, OthersOK

\* An answer that changes nothing.
LEMMA AnswerStep ==
  ASSUME IInv, NEW i \in DOMAIN flight, NEW outcome \in Outcomes, NEW data,
         flight' = Served(flight, i, outcome, data),
         UNCHANGED <<server, view>>, Counts(past, past'),
         \A r : /\ IsReq(r) /\ r.op = flight[i].op /\ r.arg = flight[i].arg
                /\ r.outcome = outcome /\ r.data = data
                => ReqOK(r, server.subs, Now, past.tiers),
         flight[i].op # "create" \/ outcome # "ok"
  PROVE  IInv'
<1> DEFINE r == Served(flight, i, outcome, data)[i]
           subs == server.subs
           n == past.tiers
<1>1. /\ FlightOK(flight, subs, Now, n) /\ i # 0 /\ IsReq(flight[i]) /\ 0 \notin DOMAIN flight
  BY InvFacts
<1>2. /\ IsReq(r) /\ r.op = flight[i].op /\ r.arg = flight[i].arg
      /\ r.outcome = outcome /\ r.data = data
  BY <1>1, AnswerFields
<1> HIDE DEF r
<1>3. ReqOK(r, subs, Now, n)
  BY <1>2
<1>4. \A j \in DOMAIN flight \ {i} : PairOK(flight[j], flight[i]) /\ PairOK(flight[i], flight[j])
  BY <1>1 DEF FlightOK, OthersOK
<1>5. \A j \in DOMAIN flight \ {i} : PairOK(flight[j], r) /\ PairOK(r, flight[j])
  BY <1>2, <1>4 DEF PairOK
<1>6. FlightOK(flight', subs, Now, n)
  BY <1>1, <1>3, <1>5, FlightOthers, ServedOK DEF r
<1> QED
  BY <1>6, FlightStep

\* A step that counts nothing.
LEMMA NoCount ==
  ASSUME IInv
  PROVE  Counts(past, past)
  BY InvFacts, PastCounts DEF PastOK

LEMMA StepFail ==
  ASSUME IInv, NEW i \in DOMAIN flight, Fail(i)
  PROVE  IInv'
<1>1. ReqOK(flight[i], server.subs, Now, past.tiers)
  BY InvFacts
<1>2. Counts(past, past')
  BY InvFacts, PastCounts DEF PastOK, Fail
<1>3. \A r : /\ IsReq(r) /\ r.op = flight[i].op /\ r.arg = flight[i].arg
             /\ r.outcome = "throws" /\ r.data = {}
             => ReqOK(r, server.subs, Now, past.tiers)
  BY <1>1
  DEF ReqOK, Tierful, Statusful, Paymentful, Createful, Verifyful, Verified
<1> QED
  BY <1>2, <1>3, AnswerStep DEF Fail, Outcomes

LEMMA StepServeTiers ==
  ASSUME IInv, NEW i \in DOMAIN flight, ServeTiers(i)
  PROVE  IInv'
<1>1. flight[i].op \in {"tiers", "rows"}
  BY DEF ServeTiers, Waiting
<1>2. server.tiers \subseteq TiersUpTo(past.tiers)
  BY InvFacts DEF ServerOK
<1>3. \A r : /\ IsReq(r) /\ r.op = flight[i].op /\ r.arg = flight[i].arg
             /\ r.outcome = "ok" /\ r.data = server.tiers
             => ReqOK(r, server.subs, Now, past.tiers)
  BY <1>1, <1>2
  DEF ReqOK, Tierful, Statusful, Paymentful, Createful, Verifyful, Verified
<1> QED
  BY <1>1, <1>3, NoCount, AnswerStep DEF ServeTiers, Outcomes

LEMMA StepServeStatus ==
  ASSUME IInv, NEW i \in DOMAIN flight, ServeStatus(i)
  PROVE  IInv'
<1> DEFINE active == \E id \in DOMAIN server.subs : server.subs[id].status = "active"
           data == {[nodeop |-> server.nodeop, active |-> active]}
<1>1. flight[i].op = "status"
  BY DEF ServeStatus, Waiting
<1>2. server.nodeop \in BOOLEAN /\ \A id \in DOMAIN server.subs :
        server.subs[id].status = "active" => server.subs[id].succeeded > 0
  BY InvFacts DEF ServerOK, SubOK
<1>3. active => SomePaid(server.subs)
  BY <1>2 DEF SomePaid
<1>4. active \in BOOLEAN
  OBVIOUS
<1> HIDE DEF active
<1>5. \A s \in data : {s.nodeop, s.active} \subseteq BOOLEAN /\ (s.active => SomePaid(server.subs))
  BY <1>2, <1>3, <1>4
<1>6. flight' = Served(flight, i, "ok", data)
  BY DEF ServeStatus, active
<1> HIDE DEF data
<1>7. \A r : /\ IsReq(r) /\ r.op = flight[i].op /\ r.arg = flight[i].arg
             /\ r.outcome = "ok" /\ r.data = data
             => ReqOK(r, server.subs, Now, past.tiers)
  BY <1>1, <1>5
  DEF ReqOK, Tierful, Statusful, Paymentful, Createful, Verifyful, Verified
<1> QED
  BY <1>1, <1>6, <1>7, NoCount, AnswerStep DEF ServeStatus, Outcomes

LEMMA StepServePayments ==
  ASSUME IInv, NEW i \in DOMAIN flight, ServePayments(i)
  PROVE  IInv'
<1> DEFINE data == {[id |-> id, status |-> server.subs[id].status] : id \in DOMAIN server.subs}
<1>1. flight[i].op = "payments"
  BY DEF ServePayments, Waiting
<1>2. \A id \in DOMAIN server.subs :
        server.subs[id].status = "active" => WasActive(server.subs, id)
  BY InvFacts DEF ServerOK, SubOK, WasActive
<1>3. \A s \in data : /\ s.id \in DOMAIN server.subs
                      /\ s.status = "active" => WasActive(server.subs, s.id)
  BY <1>2
<1>4. flight' = Served(flight, i, "ok", data)
  BY DEF ServePayments
<1> HIDE DEF data
<1>5. \A r : /\ IsReq(r) /\ r.op = flight[i].op /\ r.arg = flight[i].arg
             /\ r.outcome = "ok" /\ r.data = data
             => ReqOK(r, server.subs, Now, past.tiers)
  BY <1>1, <1>3
  DEF ReqOK, Tierful, Statusful, Paymentful, Createful, Verifyful, Verified
<1> QED
  BY <1>1, <1>4, <1>5, NoCount, AnswerStep DEF ServePayments, Outcomes

\* A step of the services, which answer request i or none.
LEMMA ServiceStep ==
  ASSUME IInv, UNCHANGED view,
         ServerOK(server', past'), PastOK(past', server'.subs), past.tiers <= past'.tiers,
         past'.tiers \in Nat,
         NEW proved, Grown(server.subs, server'.subs, proved),
         Now.result # None /\ Now.result.kind \in Proven /\ ~Now.verifying /\ ~Now.paid =>
           Now.result.id # proved,
         FlightOK(flight', server'.subs, Now, past'.tiers)
  PROVE  IInv'
<1>1. ViewOK(Now, server'.subs, past'.tiers)
  BY InvFacts, ViewGrown
<1>2. view' \in [user : {Now}, rows : SUBSET TiersUpTo(past'.tiers)]
  BY InvFacts DEF TiersUpTo
<1> QED
  BY <1>1, <1>2 DEF IInv, Now

\* The requests when the subscriptions grew, those of them but one that is answered.
LEMMA OthersGrown ==
  ASSUME IInv, NEW i, NEW more, NEW proved, Grown(server.subs, more, proved),
         NEW m \in Nat, past.tiers <= m,
         \A j \in DOMAIN flight \ {i} : Neutral(flight[j], proved)
  PROVE  OthersOK(flight, i, more, Now, m)
<1>1. /\ flight \in Seq(Range(flight)) /\ past.tiers \in Nat
      /\ \A j \in DOMAIN flight : ReqOK(flight[j], server.subs, Now, past.tiers)
      /\ \A j, k \in DOMAIN flight : j # k => PairOK(flight[j], flight[k])
  BY InvFacts DEF FlightOK, OthersOK
<1>2. \A j \in DOMAIN flight \ {i} : ReqOK(flight[j], more, Now, m)
  BY <1>1, ReqGrown
<1> QED
  BY <1>1, <1>2 DEF OthersOK

\* No subscription is number 0.
LEMMA NobodyProved ==
  ASSUME IInv
  PROVE  /\ \A i \in DOMAIN flight : Neutral(flight[i], 0)
         /\ Now.result # None => Now.result.id # 0
<1>1. /\ 0 \notin DOMAIN server.subs
      /\ \A i \in DOMAIN flight : ReqOK(flight[i], server.subs, Now, past.tiers)
      /\ ViewOK(Now, server.subs, past.tiers)
  BY InvFacts
<1>2. \A i \in DOMAIN flight : Neutral(flight[i], 0)
  BY <1>1 DEF ReqOK, Createful, Verifyful, Neutral
<1>3. Now.result # None => Now.result.id # 0
  BY <1>1 DEF ViewOK
<1> QED
  BY <1>2, <1>3

\* Subscriptions that keep their methods and payments have grown.
LEMMA SameGrown ==
  ASSUME NEW subs, NEW more, DOMAIN more = DOMAIN subs,
         \A id \in DOMAIN subs : more[id].method = subs[id].method
                                 /\ more[id].succeeded = subs[id].succeeded
  PROVE  Grown(subs, more, 0)
  BY DEF Grown

\* The answer to a change of the tiers.
LEMMA TierAnswered ==
  ASSUME IInv, NEW i \in DOMAIN flight, flight[i].op \in {"save", "remove"},
         NEW m \in Nat, past.tiers <= m
  PROVE  FlightOK(Served(flight, i, "ok", {}), server.subs, Now, m)
<1> DEFINE r == Served(flight, i, "ok", {})[i]
           subs == server.subs
<1>1. /\ i # 0 /\ IsReq(flight[i]) /\ 0 \notin DOMAIN flight
      /\ past.tiers \in Nat /\ ReqOK(flight[i], subs, Now, past.tiers)
  BY InvFacts
<1>2. /\ IsReq(r) /\ r.op = flight[i].op /\ r.arg = flight[i].arg
      /\ r.outcome = "ok" /\ r.data = {}
  BY <1>1, AnswerFields DEF Outcomes
<1> HIDE DEF r
<1>3. Grown(subs, subs, 0)
  BY SameGrown
<1>4. OthersOK(flight, i, subs, Now, m)
  BY <1>3, OthersGrown, NobodyProved
<1>5. Tierful(r, m)
  <2>1. [id : 0..past.tiers, price : Prices] \subseteq [id : 0..m, price : Prices]
    BY <1>1
  <2> QED
    BY <1>1, <1>2, <2>1 DEF ReqOK, Tierful
<1>6. ReqOK(r, subs, Now, m)
  BY <1>2, <1>5 DEF ReqOK, Statusful, Paymentful, Createful, Verifyful
<1>7. \A j \in DOMAIN flight \ {i} : PairOK(flight[j], r) /\ PairOK(r, flight[j])
  BY <1>2, PlainPair
<1> QED
  BY <1>1, <1>4, <1>6, <1>7, ServedOK DEF r

LEMMA StepServeSaveTier ==
  ASSUME IInv, NEW i \in DOMAIN flight, ServeSaveTier(i)
  PROVE  IInv'
<1> DEFINE tier == flight[i].arg.tier
           id == IF tier.id = 0 THEN past.tiers + 1 ELSE tier.id
           m == past'.tiers
<1>1. flight[i].op = "save" /\ flight' = Served(flight, i, "ok", {}) /\ UNCHANGED view
  BY DEF ServeSaveTier, Waiting
<1>2. /\ tier \in [id : 0..past.tiers, price : Prices] /\ past.tiers \in Nat
      /\ PastOK(past, server.subs) /\ ServerOK(server, past)
  BY <1>1, InvFacts DEF ReqOK, Tierful
<1>3. /\ past' = [past EXCEPT !.tiers = IF tier.id = 0 THEN id ELSE @]
      /\ server' = [server EXCEPT !.tiers = (@ \ Tier(id)) \cup {[tier EXCEPT !.id = id]}]
  BY DEF ServeSaveTier
<1>4. /\ past' \in Pasts(past') /\ past'.delivered = past.delivered
      /\ past'.redelivered = past.redelivered /\ past'.cancelled = past.cancelled
      /\ m = IF tier.id = 0 THEN past.tiers + 1 ELSE past.tiers
  BY <1>2, <1>3 DEF PastOK, Pasts
<1>5. m \in Nat /\ past.tiers <= m /\ id \in 1..m
  BY <1>2, <1>4
<1>6. [tier EXCEPT !.id = id] \in TiersUpTo(m) /\ [tier EXCEPT !.id = id].id = id
  BY <1>2, <1>5 DEF TiersUpTo
<1>7. TiersUpTo(past.tiers) \subseteq TiersUpTo(m)
  BY <1>2, <1>5 DEF TiersUpTo
<1> HIDE DEF tier, id, m
<1>8. /\ server' \in [tiers : SUBSET TiersUpTo(m), subs : {server.subs}, nodeop : BOOLEAN]
      /\ server'.tiers = (server.tiers \ Tier(id)) \cup {[tier EXCEPT !.id = id]}
  BY <1>2, <1>3, <1>6, <1>7 DEF ServerOK
<1>9. ServerOK(server', past')
  <2>1. \A t \in server.tiers \ Tier(id) : t.id # id
    BY DEF Tier
  <2>2. \A t, u \in server'.tiers : t.id = u.id => t = u
    BY <1>2, <1>6, <1>8, <2>1 DEF ServerOK
  <2>3. server' \in [tiers : SUBSET TiersUpTo(m), subs : Seq(Subs), nodeop : BOOLEAN]
    BY <1>2, <1>8 DEF ServerOK
  <2> QED
    BY <1>2, <1>4, <1>8, <2>2, <2>3 DEF ServerOK, m
<1>10. PastOK(past', server'.subs)
  BY <1>2, <1>4, <1>8 DEF PastOK
<1>11. Grown(server.subs, server'.subs, 0)
  BY <1>8, SameGrown
<1>12. FlightOK(flight', server'.subs, Now, m)
  BY <1>1, <1>5, <1>8, TierAnswered
<1> QED
  BY <1>1, <1>5, <1>9, <1>10, <1>11, <1>12, NobodyProved, ServiceStep DEF m

LEMMA StepServeDeleteTier ==
  ASSUME IInv, NEW i \in DOMAIN flight, ServeDeleteTier(i)
  PROVE  IInv'
<1>1. /\ flight[i].op = "remove" /\ flight' = Served(flight, i, "ok", {})
      /\ UNCHANGED <<view, past>>
      /\ server' = [server EXCEPT !.tiers = @ \ Tier(flight[i].arg.id)]
  BY DEF ServeDeleteTier, Waiting
<1>2. past.tiers \in Nat /\ PastOK(past, server.subs) /\ ServerOK(server, past)
  BY InvFacts
<1>3. /\ server' \in [tiers : SUBSET TiersUpTo(past.tiers), subs : {server.subs}, nodeop : BOOLEAN]
      /\ server'.tiers \subseteq server.tiers
  BY <1>1, <1>2 DEF ServerOK
<1>4. ServerOK(server', past')
  BY <1>1, <1>2, <1>3 DEF ServerOK
<1>5. PastOK(past', server'.subs)
  BY <1>1, <1>2, <1>3 DEF PastOK
<1>6. Grown(server.subs, server'.subs, 0)
  BY <1>3, SameGrown
<1>7. FlightOK(flight', server'.subs, Now, past'.tiers)
  BY <1>1, <1>2, <1>3, TierAnswered
<1> QED
  BY <1>1, <1>2, <1>4, <1>5, <1>6, <1>7, NobodyProved, ServiceStep

\* What the banker makes of a request for a subscription.
LEMMA CreatedOK ==
  ASSUME NEW nodeop \in BOOLEAN, NEW tier \in Nat, NEW method \in Kinds, NEW stripe \in BOOLEAN,
         NEW id, NEW delivered, NEW sub, sub = Created(nodeop, tier, method, stripe)
  PROVE  /\ SubOK(sub, id, delivered)
         /\ nodeop => sub.method = "nodeop_free" /\ sub.succeeded = 1
         /\ ~nodeop => sub.method = method /\ sub.succeeded = 0
<1>1. CASE nodeop
  <2>1. sub = Sub(tier, "nodeop_free", "active", "none")
    BY <1>1 DEF Created
  <2>2. "active" \in Statuses /\ "nodeop_free" \in Kinds
    BY DEF Statuses, Kinds
  <2>3. /\ sub \in Subs /\ sub.method = "nodeop_free" /\ sub.succeeded = 1
        /\ sub.status = "active" /\ sub.checkout = "none"
    BY <2>1, <2>2 DEF Sub, Subs
  <2>4. SubOK(sub, id, delivered)
    BY <2>3 DEF SubOK
  <2> QED
    BY <1>1, <2>3, <2>4, Zenon
<1>2. CASE ~nodeop /\ method = "stripe" /\ stripe
  <2>1. sub = Sub(tier, "stripe", "pending_payment", "open")
    BY <1>2 DEF Created
  <2>2. "pending_payment" \in Statuses /\ "stripe" \in Kinds
    BY DEF Statuses, Pending, Methods, Kinds
  <2>3. /\ sub \in Subs /\ sub.method = "stripe" /\ sub.succeeded = 0
        /\ sub.status = "pending_payment"
    BY <2>1, <2>2 DEF Sub, Subs
  <2>4. SubOK(sub, id, delivered)
    BY <2>3 DEF SubOK
  <2> QED
    BY <1>2, <2>3, <2>4, Zenon
<1>3. CASE ~nodeop /\ ~(method = "stripe" /\ stripe)
  <2>1. sub = Sub(tier, method, Pending(method), "none")
    BY <1>3 DEF Created
  <2>2. /\ Pending(method) \in {"pending_interac", "pending_crypto", "pending_payment"}
        /\ Pending(method) = "pending_payment" => method \in {"stripe", "nodeop_free"}
    BY DEF Pending, Kinds, Methods
  <2>3. {"pending_interac", "pending_crypto", "pending_payment"} \subseteq Statuses
    BY DEF Statuses, Pending, Methods
  <2> QED
    BY <1>3, <2>1, <2>2, <2>3 DEF Sub, SubOK, Subs
<1> QED
  BY <1>1, <1>2, <1>3

\* One subscription more.
LEMMA AppendedSub ==
  ASSUME NEW subs \in Seq(Subs), NEW sub \in Subs
  PROVE  LET more == Append(subs, sub)
             id == Len(subs) + 1
         IN /\ more \in Seq(Subs) /\ DOMAIN more = 1..id /\ DOMAIN subs = 1..Len(subs)
            /\ Len(subs) \in Nat /\ more[id] = sub
            /\ \A k \in DOMAIN subs : k \in DOMAIN more /\ more[k] = subs[k]
            /\ Grown(subs, more, 0)
<1> DEFINE more == Append(subs, sub)
           id == Len(subs) + 1
<1>1. /\ more \in Seq(Subs) /\ Len(more) = id /\ Len(subs) \in Nat /\ more[id] = sub
      /\ \A k \in 1..Len(subs) : more[k] = subs[k]
  OBVIOUS
<1> HIDE DEF more
<1>2. DOMAIN more = 1..id /\ DOMAIN subs = 1..Len(subs)
  BY <1>1
<1>3. \A k \in DOMAIN subs : k \in DOMAIN more /\ more[k] = subs[k]
  BY <1>1, <1>2
<1>4. Grown(subs, more, 0)
  BY <1>3 DEF Grown
<1> QED
  BY <1>1, <1>2, <1>3, <1>4 DEF more

LEMMA StepServeCreate ==
  ASSUME IInv, NEW i \in DOMAIN flight, NEW failed \in SUBSET {"node-check", "stripe"},
         ServeCreate(i, failed)
  PROVE  IInv'
<1> DEFINE arg == flight[i].arg
           nodeop == server.nodeop /\ "node-check" \notin failed
           stripe == "stripe" \notin failed
           sub == Created(nodeop, arg.tier, arg.method, stripe)
           answered == sub.checkout = "open" \/ sub.method \in {"nodeop_free", "interac", "crypto"}
           id == Len(server.subs) + 1
           Ok == answered /\ (sub.method = "nodeop_free" => nodeop)
           data == {[id |-> id, kind |-> sub.method]}
           subs == server.subs
           more == Append(subs, sub)
           n == past.tiers
<1>1. flight[i].op = "create" /\ flight[i].outcome = "none" /\ UNCHANGED view
  BY DEF ServeCreate, Waiting
<1>2. /\ ReqOK(flight[i], subs, Now, n) /\ IsReq(flight[i]) /\ i # 0 /\ n \in Nat
      /\ ServerOK(server, past) /\ PastOK(past, subs) /\ subs \in Seq(Subs)
      /\ 0 \notin DOMAIN flight /\ FlightOK(flight, subs, Now, n)
  BY InvFacts
<1>3. Counts(past, past')
  BY <1>2, PastCounts DEF PastOK, ServeCreate
<1>4. CASE Tier(arg.tier) = {}
  <2>1. flight' = Served(flight, i, "refused", {}) /\ UNCHANGED server
    BY <1>4 DEF ServeCreate
  <2>2. \A r : /\ IsReq(r) /\ r.op = flight[i].op /\ r.arg = flight[i].arg
               /\ r.outcome = "refused" /\ r.data = {}
               => ReqOK(r, server.subs, Now, past.tiers)
    BY <1>1, <1>2
    DEF ReqOK, Tierful, Statusful, Paymentful, Createful, Verifyful
  <2> QED
    BY <1>1, <1>3, <2>1, <2>2, AnswerStep DEF Outcomes
<1>5. CASE Tier(arg.tier) # {}
  <2>1. /\ server' = [server EXCEPT !.subs = Append(@, sub)]
        /\ flight' = IF Ok THEN Served(flight, i, "ok", data)
                     ELSE Served(flight, i, "refused", {})
    BY <1>5 DEF ServeCreate
  <2>2. /\ SubOK(sub, id, past.delivered) /\ sub \in Subs
        /\ nodeop => sub.method = "nodeop_free" /\ sub.succeeded = 1
        /\ ~nodeop => sub.method = arg.method /\ sub.succeeded = 0
    <3>1. nodeop \in BOOLEAN /\ stripe \in BOOLEAN
      OBVIOUS
    <3>2. arg.tier \in Nat /\ arg.method \in Kinds
      BY <1>1, <1>2 DEF IsReq, ArgOK
    <3> HIDE DEF arg, nodeop, stripe, sub, id
    <3>3. sub = Created(nodeop, arg.tier, arg.method, stripe)
      BY DEF sub
    <3>4. /\ SubOK(sub, id, past.delivered)
          /\ nodeop => sub.method = "nodeop_free" /\ sub.succeeded = 1
          /\ ~nodeop => sub.method = arg.method /\ sub.succeeded = 0
      BY <3>1, <3>2, <3>3, CreatedOK
    <3>5. sub \in Subs
      BY <3>4 DEF SubOK
    <3> QED
      BY <3>4, <3>5, Zenon
  <2> HIDE DEF nodeop, sub, arg, stripe
  <2>3. /\ more \in Seq(Subs) /\ DOMAIN more = 1..id /\ DOMAIN subs = 1..Len(subs)
        /\ Len(subs) \in Nat /\ more[id] = sub
        /\ \A k \in DOMAIN subs : k \in DOMAIN more /\ more[k] = subs[k]
        /\ Grown(subs, more, 0)
    BY <1>2, <2>2, AppendedSub
  <2>4. server' \in [tiers : {server.tiers}, subs : {more}, nodeop : BOOLEAN]
    BY <1>2, <2>1 DEF ServerOK
  <2> HIDE DEF more, id
  <2>5. \A k \in DOMAIN more : k \in DOMAIN subs \/ k = id
    BY <2>3 DEF id
  <2>6. id \notin DOMAIN subs /\ id \in DOMAIN more /\ id \in Nat
    BY <2>3 DEF id
  <2>7. PastOK(past, more)
    BY <1>2, <2>3 DEF PastOK, WasActive
  <2>8. ServerOK(server', past)
    <3>1. \A k \in DOMAIN more : SubOK(more[k], k, past.delivered)
      BY <1>2, <2>2, <2>3, <2>5 DEF ServerOK
    <3> QED
      BY <1>2, <2>3, <2>4, <3>1 DEF ServerOK
  <2>9. /\ ServerOK(server', past') /\ PastOK(past', server'.subs) /\ past'.tiers = n
        /\ server'.subs = more
    BY <1>3, <2>4, <2>7, <2>8, CountedOK
  <2>10. OthersOK(flight, i, more, Now, n)
    BY <1>2, <2>3, NobodyProved, OthersGrown
  <2>11. /\ flight[i].arg.live => Now.submitting
         /\ \A j \in DOMAIN flight \ {i} :
              /\ PairOK(flight[j], flight[i]) /\ PairOK(flight[i], flight[j])
              /\ flight[j].op = "verify" => flight[j].arg.id # id
    <3>1. \A j \in DOMAIN flight : ReqOK(flight[j], subs, Now, n)
      BY InvFacts
    <3> QED
      BY <1>1, <1>2, <2>6, <3>1 DEF FlightOK, OthersOK, ReqOK, Verifyful, Createful
  <2>12. ASSUME NEW outcome \in {"ok", "refused"}, NEW d,
                outcome = "ok" => Ok /\ d = data,
                flight' = Served(flight, i, outcome, d)
         PROVE  FlightOK(flight', more, Now, n)
    <3> DEFINE r == Served(flight, i, outcome, d)[i]
    <3>1. /\ IsReq(r) /\ r.op = flight[i].op /\ r.arg = flight[i].arg
          /\ r.outcome = outcome /\ r.data = d
      BY <1>2, AnswerFields DEF Outcomes
    <3> HIDE DEF r
    <3>2. Ok /\ sub.method \in Methods => ~nodeop
      BY <2>2 DEF Methods
    <3>3. Createful(r, more, Now)
      <4>1. r.outcome = "ok" => \A s \in r.data : s = [id |-> id, kind |-> sub.method]
        BY <2>12, <3>1
      <4>2. sub.method \in Kinds
        BY <2>2 DEF Subs
      <4>3. Ok /\ sub.method = "nodeop_free" => SomePaid(more)
        BY <2>2, <2>3, <2>6 DEF SomePaid
      <4>4. sub.method \in Methods => sub.method = r.arg.method /\ sub.succeeded = 0
        BY <2>2, <3>1 DEF Methods, arg
      <4>5. sub.method \in Proven => Unproven(more, id)
        BY <2>3, <2>6, <4>4 DEF Unproven, Proven, Methods
      <4>6. r.arg.live => Now.submitting
        BY <2>11, <3>1
      <4>7. r.outcome = "ok" => Ok
        BY <2>12, <3>1
      <4>8. ASSUME r.outcome = "ok", NEW s \in r.data
            PROVE  /\ s \in [id : DOMAIN more, kind : Kinds] /\ more[s.id].method = s.kind
                   /\ s.kind = "nodeop_free" => SomePaid(more)
                   /\ s.kind \in Methods => s.kind = r.arg.method
                   /\ s.kind \in Proven /\ r.arg.live => Unproven(more, s.id)
        <5>1. s = [id |-> id, kind |-> sub.method] /\ s.id = id /\ s.kind = sub.method
          BY <4>1, <4>8
        <5> QED
          BY <2>3, <2>6, <4>2, <4>3, <4>4, <4>5, <4>7, <4>8, <5>1
      <4> QED
        BY <4>6, <4>8 DEF Createful
    <3>4. ReqOK(r, more, Now, n)
      BY <1>1, <3>1, <3>3 DEF ReqOK, Tierful, Statusful, Paymentful, Verifyful
    <3>5. \A j \in DOMAIN flight \ {i} : PairOK(flight[j], r) /\ PairOK(r, flight[j])
      BY <1>1, <2>11, <2>12, <3>1 DEF PairOK
    <3> QED
      BY <1>2, <2>10, <2>12, <3>4, <3>5, ServedOK DEF r
  <2>13. FlightOK(flight', more, Now, n)
    <3>1. CASE Ok
      BY <2>1, <2>12, <3>1
    <3>2. CASE ~Ok
      BY <2>1, <2>12, <3>2
    <3> QED
      BY <3>1, <3>2
  <2> QED
    BY <1>1, <1>2, <2>3, <2>9, <2>13, NobodyProved, ServiceStep
<1> QED
  BY <1>4, <1>5

\* One subscription changes.
LEMMA ChangedSub ==
  ASSUME NEW s, NEW p, NEW q, ServerOK(s, p), q.tiers = p.tiers,
         \A id : id \in p.delivered => id \in q.delivered,
         NEW id \in DOMAIN s.subs, NEW x, SubOK(x, id, q.delivered),
         x.method = s.subs[id].method, x.succeeded >= s.subs[id].succeeded
  PROVE  LET t == [s EXCEPT !.subs[id] = x]
         IN /\ ServerOK(t, q) /\ DOMAIN t.subs = DOMAIN s.subs /\ t.subs[id] = x
            /\ \A k \in DOMAIN s.subs \ {id} : t.subs[k] = s.subs[k]
            /\ Grown(s.subs, t.subs, id)
            /\ x.succeeded = s.subs[id].succeeded \/ x.method \notin Proven =>
                 Grown(s.subs, t.subs, 0)
<1> DEFINE t == [s EXCEPT !.subs[id] = x]
           subs == s.subs
           more == [subs EXCEPT ![id] = x]
<1>1. /\ s \in [tiers : SUBSET TiersUpTo(p.tiers), subs : Seq(Subs), nodeop : BOOLEAN]
      /\ \A k \in DOMAIN subs : SubOK(subs[k], k, p.delivered)
      /\ \A u, w \in s.tiers : u.id = w.id => u = w
  BY DEF ServerOK
<1>2. t = [s EXCEPT !.subs = more]
  BY <1>1
<1>3. x \in Subs /\ \A k \in DOMAIN subs : subs[k] \in Subs
  BY <1>1 DEF SubOK
<1>4. more \in Seq(Subs)
  BY <1>1, <1>3
<1>5. /\ DOMAIN more = DOMAIN subs /\ more[id] = x
      /\ \A k \in DOMAIN subs \ {id} : more[k] = subs[k]
  OBVIOUS
<1> HIDE DEF more, t
<1>6. /\ t \in [tiers : {s.tiers}, subs : {more}, nodeop : BOOLEAN]
  BY <1>1, <1>2
<1>7. \A k \in DOMAIN more : SubOK(more[k], k, q.delivered)
  BY <1>1, <1>5 DEF SubOK
<1>8. ServerOK(t, q)
  BY <1>1, <1>4, <1>6, <1>7 DEF ServerOK
<1>9. x.succeeded \in Nat /\ \A k \in DOMAIN subs : subs[k].succeeded \in Nat
  BY <1>3 DEF Subs
<1>10. Grown(subs, more, id)
  BY <1>5, <1>9 DEF Grown
<1>11. x.succeeded = subs[id].succeeded \/ x.method \notin Proven => Grown(subs, more, 0)
  BY <1>5, <1>9 DEF Grown
<1> QED
  BY <1>5, <1>6, <1>8, <1>10, <1>11 DEF t

\* handle_payment_success keeps a subscription in order.
LEMMA SucceededOK ==
  ASSUME NEW sub, NEW id, NEW delivered, SubOK(sub, id, delivered), NEW more,
         \A k : k \in delivered => k \in more, sub.checkout # "none" => id \in more
  PROVE  LET x == Succeeded(sub)
         IN /\ SubOK(x, id, more) /\ x.method = sub.method /\ x.succeeded >= sub.succeeded
            /\ Tier(sub.tier) = {} => x = sub
            /\ Tier(sub.tier) # {} => x.succeeded > 0
<1>1. sub \in Subs /\ sub.succeeded \in Nat /\ SubOK(sub, id, more)
  BY DEF SubOK, Subs
<1>2. CASE Tier(sub.tier) = {}
  BY <1>1, <1>2 DEF Succeeded
<1>3. CASE Tier(sub.tier) # {}
  <2> DEFINE m == sub.succeeded + 1
             x == [sub EXCEPT !.status = "active", !.failed = 0, !.succeeded = m]
  <2>1. "active" \in Statuses /\ m \in Nat
    BY <1>1 DEF Statuses
  <2>2. Succeeded(sub) = x
    BY <1>3 DEF Succeeded
  <2> HIDE DEF m
  <2>3. /\ x \in Subs /\ x.status = "active" /\ x.succeeded = m
        /\ x.method = sub.method /\ x.checkout = sub.checkout
    BY <1>1, <2>1 DEF Subs
  <2> HIDE DEF x
  <2>4. SubOK(x, id, more)
    BY <1>1, <2>3 DEF SubOK, m
  <2>5. x.succeeded >= sub.succeeded /\ x.succeeded > 0
    BY <1>1, <2>3 DEF m
  <2> QED
    BY <1>3, <2>2, <2>3, <2>4, <2>5
<1> QED
  BY <1>2, <1>3

\* handle_payment_failure does, too.
LEMMA AttemptedOK ==
  ASSUME NEW sub, NEW id, NEW delivered, SubOK(sub, id, delivered)
  PROVE  LET x == Attempted(sub)
         IN /\ SubOK(x, id, delivered) /\ x.method = sub.method
            /\ x.succeeded = sub.succeeded /\ x.succeeded >= sub.succeeded
<1> DEFINE x == Attempted(sub)
<1>1. sub \in Subs /\ sub.succeeded \in Nat /\ sub.failed \in Nat
  BY DEF SubOK, Subs
<1>2. "suspended" \in Statuses
  BY DEF Statuses
<1> DEFINE m == sub.failed + 1
           status == IF m >= MaxAttempts THEN "suspended" ELSE sub.status
<1>3. m \in Nat /\ status \in Statuses
  BY <1>1, <1>2 DEF Subs
<1>4. x = [sub EXCEPT !.failed = m, !.status = status]
  BY DEF Attempted
<1> HIDE DEF x, m, status
<1>5. /\ x \in Subs /\ x.method = sub.method /\ x.succeeded = sub.succeeded
      /\ x.checkout = sub.checkout /\ x.failed = m /\ x.status = status
  BY <1>1, <1>3, <1>4 DEF Subs
<1>6. SubOK(x, id, delivered)
  BY <1>1, <1>5 DEF SubOK, MaxAttempts, m, status
<1> QED
  BY <1>1, <1>5, <1>6 DEF x

LEMMA StepServeVerify ==
  ASSUME IInv, NEW i \in DOMAIN flight, NEW verified \in BOOLEAN, ServeVerify(i, verified)
  PROVE  IInv'
<1> DEFINE id == flight[i].arg.id
           subs == server.subs
           sub == subs[id]
           x == IF verified THEN Succeeded(sub) ELSE Attempted(sub)
           more == server'.subs
           n == past.tiers
<1>1. /\ flight[i].op = "verify" /\ flight[i].outcome = "none" /\ UNCHANGED <<view, past>>
      /\ server' = [server EXCEPT !.subs[id] = x]
  BY DEF ServeVerify, Waiting
<1>2. /\ ReqOK(flight[i], subs, Now, n) /\ IsReq(flight[i]) /\ i # 0 /\ n \in Nat
      /\ ServerOK(server, past) /\ PastOK(past, subs) /\ 0 \notin DOMAIN flight
      /\ FlightOK(flight, subs, Now, n)
  BY InvFacts
<1>3. id \in DOMAIN subs /\ Unproven(subs, id) /\ SubOK(sub, id, past.delivered)
  BY <1>1, <1>2 DEF ReqOK, Verifyful, ServerOK
<1>4. /\ SubOK(x, id, past.delivered) /\ x.method = sub.method
      /\ x.succeeded >= sub.succeeded
      /\ ~verified \/ Tier(sub.tier) = {} => x.succeeded = sub.succeeded
      /\ verified /\ Tier(sub.tier) # {} => x.succeeded > 0
  <2>1. CASE verified
    <3>1. sub.checkout # "none" => id \in past.delivered
      BY <1>3 DEF SubOK, Unproven, Proven
    <3>2. SubOK(sub, id, past.delivered) /\ sub.succeeded \in Nat
      BY <1>3 DEF SubOK, Subs
    <3> HIDE DEF sub, id
    <3> QED
      BY <2>1, <3>1, <3>2, SucceededOK
  <2>2. CASE ~verified
    <3> HIDE DEF sub, id
    <3> QED
      BY <1>3, <2>2, AttemptedOK
  <2> QED
    BY <2>1, <2>2
<1> HIDE DEF x
<1>5. /\ ServerOK(server', past') /\ DOMAIN more = DOMAIN subs /\ more[id] = x
      /\ \A k \in DOMAIN subs \ {id} : more[k] = subs[k]
      /\ Grown(subs, more, id)
  <2>1. \A k : k \in past.delivered => k \in past.delivered
    OBVIOUS
  <2>2. LET t == [server EXCEPT !.subs[id] = x]
        IN /\ ServerOK(t, past) /\ DOMAIN t.subs = DOMAIN subs /\ t.subs[id] = x
           /\ \A k \in DOMAIN subs \ {id} : t.subs[k] = subs[k]
           /\ Grown(subs, t.subs, id)
    <3> HIDE DEF id
    <3> QED
      BY <1>2, <1>3, <1>4, <2>1, ChangedSub
  <2>3. past' = past
    BY <1>1
  <2> QED
    BY <1>1, <2>2, <2>3
<1>6. PastOK(past', more)
  <2>1. \A k \in past.cancelled : k \in DOMAIN subs /\ k # id
    BY <1>2, <1>3 DEF PastOK, WasActive, Unproven
  <2>2. past' = past
    BY <1>1
  <2> HIDE DEF more, id, subs
  <2> QED
    BY <1>2, <1>5, <2>1, <2>2 DEF PastOK, WasActive
<1>7. /\ \A j \in DOMAIN flight \ {i} : PairOK(flight[j], flight[i]) /\ PairOK(flight[i], flight[j])
      /\ \A j \in DOMAIN flight \ {i} : Neutral(flight[j], id)
  <2>1. \A j \in DOMAIN flight \ {i} : PairOK(flight[j], flight[i]) /\ PairOK(flight[i], flight[j])
    BY <1>2 DEF FlightOK, OthersOK
  <2> QED
    BY <1>1, <2>1 DEF PairOK, Neutral
<1>8. Now.result # None /\ ~Now.verifying /\ ~Now.paid => Now.result.id # id
  BY <1>1, <1>2 DEF ReqOK, Verifyful, Shows, IsReq
<1>9. OthersOK(flight, i, more, Now, n)
  BY <1>2, <1>5, <1>7, OthersGrown
<1>10. ASSUME NEW outcome \in {"ok", "refused"}, NEW data,
              flight' = Served(flight, i, outcome, data),
              (outcome = "ok" /\ data = {"verified"}) => x.succeeded > 0,
              ~(outcome = "ok" /\ data = {"verified"}) => x.succeeded = sub.succeeded
       PROVE  FlightOK(flight', more, Now, n)
  <2> DEFINE r == Served(flight, i, outcome, data)[i]
  <2>1. /\ IsReq(r) /\ r.op = flight[i].op /\ r.arg = flight[i].arg
        /\ r.outcome = outcome /\ r.data = data
    BY <1>2, AnswerFields DEF Outcomes
  <2> HIDE DEF r
  <2>2. Verified(r) <=> outcome = "ok" /\ data = {"verified"}
    BY <2>1 DEF Verified
  <2>3. Verified(r) => SomePaid(more)
    BY <1>3, <1>5, <1>10, <2>2 DEF SomePaid
  <2>4. ~Verified(r) => Unproven(more, id)
    BY <1>3, <1>4, <1>5, <1>10, <2>2 DEF Unproven
  <2>5. more[id].method \in Proven
    BY <1>3, <1>4, <1>5 DEF Unproven
  <2>6. Verifyful(r, more, Now)
    BY <1>1, <1>2, <1>3, <1>5, <1>10, <2>1, <2>3, <2>4, <2>5 DEF ReqOK, Verifyful
  <2>7. ReqOK(r, more, Now, n)
    BY <1>1, <2>1, <2>6 DEF ReqOK, Tierful, Statusful, Paymentful, Createful
  <2>8. \A j \in DOMAIN flight \ {i} : PairOK(flight[j], r) /\ PairOK(r, flight[j])
    BY <1>1, <1>7, <2>1 DEF PairOK
  <2> QED
    BY <1>2, <1>9, <1>10, <2>7, <2>8, ServedOK DEF r
<1>11. FlightOK(flight', more, Now, n)
  <2>1. CASE ~verified
    <3>1. flight' = Served(flight, i, "ok", {"failed"})
      BY <2>1 DEF ServeVerify
    <3>2. {"failed"} # {"verified"}
      OBVIOUS
    <3> QED
      BY <1>4, <1>10, <2>1, <3>1, <3>2
  <2>2. CASE verified /\ Tier(sub.tier) = {}
    <3>1. flight' = Served(flight, i, "refused", {})
      BY <2>2 DEF ServeVerify
    <3> QED
      BY <1>4, <1>10, <2>2, <3>1
  <2>3. CASE verified /\ Tier(sub.tier) # {}
    <3>1. flight' = Served(flight, i, "ok", {"verified"})
      BY <2>3 DEF ServeVerify
    <3> QED
      BY <1>4, <1>10, <2>3, <3>1
  <2> QED
    BY <2>1, <2>2, <2>3
<1> QED
  BY <1>1, <1>2, <1>5, <1>6, <1>8, <1>11, ServiceStep

LEMMA StepServeCancel ==
  ASSUME IInv, NEW i \in DOMAIN flight, ServeCancel(i)
  PROVE  IInv'
<1> DEFINE id == flight[i].arg.id
           subs == server.subs
           x == [subs[id] EXCEPT !.status = "cancelled"]
           more == server'.subs
           n == past.tiers
           r == Served(flight, i, "ok", {})[i]
<1>1. /\ flight[i].op = "cancel" /\ flight' = Served(flight, i, "ok", {}) /\ UNCHANGED view
      /\ past' = [past EXCEPT !.cancelled = @ \cup {id}]
      /\ server' = [server EXCEPT !.subs[id].status = "cancelled"]
  BY DEF ServeCancel, Cancelled, Waiting
<1>2. /\ ReqOK(flight[i], subs, Now, n) /\ IsReq(flight[i]) /\ i # 0 /\ n \in Nat
      /\ ServerOK(server, past) /\ PastOK(past, subs) /\ 0 \notin DOMAIN flight
  BY InvFacts
<1>3. WasActive(subs, id) /\ id \in DOMAIN subs /\ SubOK(subs[id], id, past.delivered)
  BY <1>1, <1>2 DEF ReqOK, Paymentful, ServerOK, WasActive
<1>4. /\ SubOK(x, id, past.delivered) /\ x.method = subs[id].method
      /\ x.succeeded = subs[id].succeeded /\ x.succeeded >= subs[id].succeeded
      /\ x.status = "cancelled"
  <2>1. subs[id] \in Subs /\ "cancelled" \in Statuses
    BY <1>3 DEF SubOK, Statuses
  <2>2. /\ x \in Subs /\ x.method = subs[id].method /\ x.succeeded = subs[id].succeeded
        /\ x.checkout = subs[id].checkout /\ x.status = "cancelled"
    BY <2>1 DEF Subs
  <2> HIDE DEF x
  <2>3. SubOK(x, id, past.delivered)
    BY <1>3, <2>2 DEF SubOK
  <2>4. x.succeeded >= subs[id].succeeded
    BY <2>2 DEF Subs
  <2> QED
    BY <2>2, <2>3, <2>4
<1>5. server' = [server EXCEPT !.subs[id] = x]
  BY <1>1
<1>6. /\ past' \in Pasts(past') /\ past'.tiers = n /\ past'.delivered = past.delivered
      /\ past'.redelivered = past.redelivered /\ past'.cancelled = past.cancelled \cup {id}
  BY <1>1, <1>2 DEF PastOK, Pasts
<1> HIDE DEF x
<1>7. /\ ServerOK(server', past') /\ DOMAIN more = DOMAIN subs /\ more[id] = x
      /\ \A k \in DOMAIN subs \ {id} : more[k] = subs[k]
      /\ Grown(subs, more, 0)
  BY <1>2, <1>3, <1>4, <1>5, <1>6, ChangedSub
<1> HIDE DEF more, id, subs, r
<1>8. WasActive(more, id) /\ \A k : WasActive(subs, k) => WasActive(more, k)
  BY <1>3, <1>7, GrownFacts
<1>9. PastOK(past', more)
  BY <1>2, <1>4, <1>6, <1>7, <1>8 DEF PastOK, WasActive
<1>10. /\ IsReq(r) /\ r.op = "cancel" /\ r.arg.id = id
  BY <1>1, <1>2, AnswerFields DEF Outcomes, r, id
<1>11. ReqOK(r, more, Now, n)
  BY <1>8, <1>10 DEF ReqOK, Tierful, Statusful, Paymentful, Createful, Verifyful
<1>12. OthersOK(flight, i, more, Now, n)
  BY <1>2, <1>7, NobodyProved, OthersGrown DEF subs
<1>13. \A j \in DOMAIN flight \ {i} : PairOK(flight[j], r) /\ PairOK(r, flight[j])
  BY <1>10, PlainPair
<1>14. FlightOK(flight', more, Now, n)
  BY <1>1, <1>2, <1>11, <1>12, <1>13, ServedOK DEF r
<1> QED
  BY <1>1, <1>2, <1>6, <1>7, <1>9, <1>14, NobodyProved, ServiceStep DEF more, subs

\* Stripe's steps, which leave the requests alone.
LEMMA StripeStep ==
  ASSUME IInv, UNCHANGED <<view, flight>>, NEW id \in DOMAIN server.subs, NEW x,
         server' = [server EXCEPT !.subs[id] = x], x.method \notin Proven,
         x.method = server.subs[id].method, x.succeeded >= server.subs[id].succeeded,
         SubOK(x, id, past'.delivered), past'.tiers = past.tiers,
         past.delivered \subseteq past'.delivered, PastOK(past', server'.subs)
  PROVE  IInv'
<1>1. ServerOK(server', past') /\ Grown(server.subs, server'.subs, 0)
  BY InvFacts, ChangedSub
<1>2. OthersOK(flight, 0, server'.subs, Now, past'.tiers)
  BY <1>1, InvFacts, NobodyProved, OthersGrown
<1>3. FlightOK(flight', server'.subs, Now, past'.tiers) /\ UNCHANGED view
  BY <1>2 DEF FlightOK
<1>4. past.tiers <= past'.tiers /\ past'.tiers \in Nat
  BY InvFacts
<1> QED
  BY <1>1, <1>3, <1>4, NobodyProved, ServiceStep

LEMMA StepPays ==
  ASSUME IInv, NEW id \in DOMAIN server.subs, Pays(id)
  PROVE  IInv'
<1> DEFINE subs == server.subs
           x == [subs[id] EXCEPT !.checkout = "paid"]
<1>1. /\ UNCHANGED <<view, flight, past>> /\ subs[id].checkout = "open"
      /\ server' = [server EXCEPT !.subs[id].checkout = "paid"]
  BY DEF Pays
<1>2. /\ SubOK(subs[id], id, past.delivered) /\ PastOK(past, subs) /\ ServerOK(server, past)
  BY InvFacts DEF ServerOK
<1>3. server' = [server EXCEPT !.subs[id] = x]
  BY <1>1
<1>4. /\ x \in Subs /\ x.method = subs[id].method /\ x.succeeded = subs[id].succeeded
      /\ x.checkout = "paid" /\ x.status = subs[id].status /\ x.failed = subs[id].failed
  BY <1>2 DEF SubOK, Subs
<1> HIDE DEF x
<1>5. SubOK(x, id, past.delivered) /\ x.method \notin Proven
  BY <1>1, <1>2, <1>4 DEF SubOK, Proven
<1>6. x.succeeded >= subs[id].succeeded
  BY <1>4 DEF Subs
<1>7. PastOK(past', server'.subs)
  <2>1. server'.subs = [subs EXCEPT ![id] = x]
    BY <1>2, <1>3 DEF ServerOK
  <2>2. past' = past
    BY <1>1
  <2> QED
    BY <1>2, <1>4, <2>1, <2>2 DEF PastOK, WasActive
<1> QED
  BY <1>1, <1>3, <1>4, <1>5, <1>6, <1>7, StripeStep

LEMMA StepWebhook ==
  ASSUME IInv, NEW id \in DOMAIN server.subs, Webhook(id)
  PROVE  IInv'
<1> DEFINE subs == server.subs
           x == Succeeded(subs[id])
<1>1. /\ UNCHANGED <<view, flight>> /\ subs[id].checkout = "paid"
      /\ server' = [server EXCEPT !.subs[id] = x]
      /\ past' = [past EXCEPT !.deliveries = @ + 1, !.delivered = @ \cup {id},
                              !.redelivered = IF id \in past.delivered THEN @ \cup {id} ELSE @]
  BY DEF Webhook
<1>2. /\ SubOK(subs[id], id, past.delivered) /\ PastOK(past, subs) /\ ServerOK(server, past)
  BY InvFacts DEF ServerOK
<1>3. /\ past' \in Pasts(past') /\ past'.tiers = past.tiers
      /\ past'.delivered = past.delivered \cup {id} /\ past'.cancelled = past.cancelled
      /\ past'.redelivered = IF id \in past.delivered THEN past.redelivered \cup {id}
                             ELSE past.redelivered
  BY <1>1, <1>2 DEF PastOK, Pasts
<1>4. /\ SubOK(x, id, past'.delivered) /\ x.method = subs[id].method
      /\ x.succeeded >= subs[id].succeeded
  BY <1>2, <1>3, SucceededOK
<1> HIDE DEF x
<1>5. x.method \notin Proven
  BY <1>1, <1>2, <1>4 DEF SubOK, Proven
<1>6. PastOK(past', server'.subs)
  <2> DEFINE more == server'.subs
  <2>1. more = [subs EXCEPT ![id] = x]
    BY <1>1, <1>2 DEF ServerOK
  <2>2. subs[id].succeeded \in Nat /\ x.succeeded \in Nat
    BY <1>2, <1>4 DEF SubOK, Subs
  <2> HIDE DEF more
  <2>3. ASSUME NEW k \in past.cancelled
        PROVE  WasActive(more, k) /\ (more[k].status = "active" => k \in past'.redelivered)
    <3>1. WasActive(subs, k) /\ (subs[k].status = "active" => k \in past.redelivered)
      BY <1>2 DEF PastOK
    <3>2. CASE k = id
      <4>1. id \in past.delivered
        BY <1>1, <1>2, <3>1, <3>2 DEF SubOK, WasActive
      <4> QED
        BY <1>3, <1>4, <2>1, <2>2, <3>1, <3>2, <4>1 DEF WasActive
    <3>3. CASE k # id
      BY <1>3, <2>1, <3>1, <3>3 DEF WasActive
    <3> QED
      BY <3>2, <3>3
  <2> QED
    BY <1>3, <2>3 DEF PastOK, more
<1> QED
  BY <1>1, <1>3, <1>4, <1>5, <1>6, StripeStep

-----------------------------------------------------------------------------
(* The handlers of the answers. *)

\* A handler after which the page shows w.
LEMMA HandlerStep ==
  ASSUME IInv, NEW i \in DOMAIN flight, NEW w, Then(i, w), ViewOK(w, server.subs, past.tiers),
         \A j \in DOMAIN flight \ {i} : ReqOK(flight[j], server.subs, w, past.tiers)
  PROVE  IInv'
<1>1. OthersOK(flight, i, server.subs, w, past.tiers)
  BY InvFacts DEF FlightOK, OthersOK
<1>2. FlightOK(flight', server.subs, w, past.tiers)
  BY <1>1, HandledOK DEF Then
<1> QED
  BY <1>2, NoCount, UserStep DEF Then

\* A handler that leaves the create and verify forms as they are.
LEMMA PlainHandler ==
  ASSUME IInv, NEW i \in DOMAIN flight, NEW w, Then(i, w), ViewOK(w, server.subs, past.tiers),
         SameView(Now, w)
  PROVE  IInv'
  BY InvFacts, ReqSameView, HandlerStep

\* A handler that changes nothing on the page.
LEMMA SameHandler ==
  ASSUME IInv, NEW i \in DOMAIN flight, Then(i, Now)
  PROVE  IInv'
  BY InvFacts, PlainHandler DEF SameView

\* An answer and the other requests, of which none is for the same.
LEMMA AnswerFacts ==
  ASSUME IInv, NEW i \in DOMAIN flight
  PROVE  /\ ReqOK(flight[i], server.subs, Now, past.tiers) /\ IsReq(flight[i])
         /\ ViewOK(Now, server.subs, past.tiers)
         /\ \A j \in DOMAIN flight \ {i} :
              /\ ReqOK(flight[j], server.subs, Now, past.tiers)
              /\ PairOK(flight[i], flight[j])
  BY InvFacts DEF FlightOK, OthersOK

LEMMA StepHandleStatus ==
  ASSUME IInv, NEW i \in DOMAIN flight, HandleStatus(i)
  PROVE  IInv'
<1>1. flight[i].op = "status"
  BY DEF HandleStatus, Answer, Answers
<1>2. ReqOK(flight[i], server.subs, Now, past.tiers) /\ ViewOK(Now, server.subs, past.tiers)
  BY AnswerFacts
<1>3. CASE flight[i].outcome = "ok"
  <2>1. PICK s \in flight[i].data :
          Then(i, [Now EXCEPT !.checked = TRUE, !.nodeop = s.nodeop, !.active = s.active,
                              !.paid = @ \/ s.active])
    BY <1>3 DEF HandleStatus
  <2> DEFINE paid == Now.paid \/ s.active
             w == [Now EXCEPT !.checked = TRUE, !.nodeop = s.nodeop, !.active = s.active,
                              !.paid = paid]
  <2>2. {s.nodeop, s.active} \subseteq BOOLEAN /\ (s.active => SomePaid(server.subs))
    BY <1>1, <1>2, <1>3 DEF ReqOK, Statusful
  <2>3. Then(i, w)
    BY <2>1
  <2>4. paid \in BOOLEAN /\ (Now.paid => paid)
    OBVIOUS
  <2>5. paid => SomePaid(server.subs)
    BY <1>2, <2>2 DEF ViewOK
  <2> HIDE DEF paid
  <2>6. ViewOK(w, server.subs, past.tiers) /\ SameView(Now, w)
    BY <1>2, <2>2, <2>4, <2>5 DEF ViewOK, SameView
  <2> QED
    BY <2>3, <2>6, PlainHandler
<1>4. CASE flight[i].outcome # "ok"
  <2> DEFINE w == [Now EXCEPT !.checked = TRUE]
  <2>1. Then(i, w)
    BY <1>4 DEF HandleStatus
  <2>2. ViewOK(w, server.subs, past.tiers) /\ SameView(Now, w)
    BY <1>2 DEF ViewOK, SameView
  <2> QED
    BY <2>1, <2>2, PlainHandler
<1> QED
  BY <1>3, <1>4

LEMMA StepHandleTiers ==
  ASSUME IInv, NEW i \in DOMAIN flight, HandleTiers(i)
  PROVE  IInv'
<1>1. flight[i].op = "tiers"
  BY DEF HandleTiers, Answer, Answers
<1>2. ReqOK(flight[i], server.subs, Now, past.tiers) /\ ViewOK(Now, server.subs, past.tiers)
  BY AnswerFacts
<1>3. CASE flight[i].outcome = "ok"
  <2> DEFINE w == [Now EXCEPT !.tiers = flight[i].data]
  <2>1. Then(i, w)
    BY <1>3 DEF HandleTiers
  <2>2. flight[i].data \subseteq TiersUpTo(past.tiers)
    BY <1>1, <1>2, <1>3 DEF ReqOK, Tierful
  <2>3. ViewOK(w, server.subs, past.tiers) /\ SameView(Now, w)
    BY <1>2, <2>2 DEF ViewOK, SameView
  <2> QED
    BY <2>1, <2>3, PlainHandler
<1>4. CASE flight[i].outcome # "ok"
  BY <1>4, SameHandler DEF HandleTiers
<1> QED
  BY <1>3, <1>4

LEMMA StepHandlePayments ==
  ASSUME IInv, NEW i \in DOMAIN flight, HandlePayments(i)
  PROVE  IInv'
<1>1. flight[i].op = "payments"
  BY DEF HandlePayments, Answer, Answers
<1>2. ReqOK(flight[i], server.subs, Now, past.tiers) /\ ViewOK(Now, server.subs, past.tiers)
  BY AnswerFacts
<1>3. CASE flight[i].outcome = "ok"
  <2> DEFINE w == [Now EXCEPT !.subs = flight[i].data]
  <2>1. Then(i, w)
    BY <1>3 DEF HandlePayments
  <2>2. \A s \in flight[i].data :
          /\ s.id \in DOMAIN server.subs
          /\ s.status = "active" => WasActive(server.subs, s.id)
    BY <1>1, <1>2, <1>3 DEF ReqOK, Paymentful
  <2>3. ViewOK(w, server.subs, past.tiers) /\ SameView(Now, w)
    BY <1>2, <2>2 DEF ViewOK, SameView
  <2> QED
    BY <2>1, <2>3, PlainHandler
<1>4. CASE flight[i].outcome # "ok"
  BY <1>4, SameHandler DEF HandlePayments
<1> QED
  BY <1>3, <1>4

\* While an answer to a live request is handled there is no other live one of its kind.
LEMMA StepHandleCreate ==
  ASSUME IInv, NEW i \in DOMAIN flight, HandleCreate(i)
  PROVE  IInv'
<1> DEFINE subs == server.subs
           n == past.tiers
<1>1. flight[i].op = "create" /\ flight[i].arg.live
  BY DEF HandleCreate, Answer, Answers
<1>2. /\ ReqOK(flight[i], subs, Now, n) /\ ViewOK(Now, subs, n)
      /\ \A j \in DOMAIN flight \ {i} :
           ReqOK(flight[j], subs, Now, n) /\ PairOK(flight[i], flight[j])
  BY AnswerFacts
<1>3. \A j \in DOMAIN flight \ {i} : flight[j].op = "create" => ~flight[j].arg.live
  BY <1>1, <1>2 DEF PairOK
<1>4. CASE flight[i].outcome = "ok"
  <2>1. PICK r \in flight[i].data :
          IF r.kind = "stripe" THEN Then(i, Fresh("closed"))
          ELSE Then(i, [Now EXCEPT !.submitting = FALSE, !.result = r,
                                   !.paid = @ \/ r.kind = "nodeop_free"])
    BY <1>4 DEF HandleCreate
  <2>2. /\ r \in [id : DOMAIN subs, kind : Kinds]
        /\ r.kind = "nodeop_free" => SomePaid(subs)
        /\ r.kind \in Methods => r.kind = flight[i].arg.method
        /\ r.kind \in Proven => Unproven(subs, r.id)
    BY <1>1, <1>2, <1>4 DEF ReqOK, Createful
  <2>3. \A j \in DOMAIN flight \ {i} : flight[j].op = "verify" =>
          /\ r.id # flight[j].arg.id
          /\ r.kind \in Methods => ~flight[j].arg.live
    BY <1>1, <1>2, <1>4, <2>2 DEF PairOK
  <2>4. CASE r.kind = "stripe"
    <3> DEFINE w == Fresh("closed")
    <3>1. ViewOK(w, subs, n) /\ w.result = None
      BY FreshOK
    <3>2. r.kind \in Methods
      BY <2>4 DEF Methods
    <3> HIDE DEF w
    <3>3. \A j \in DOMAIN flight \ {i} : ReqOK(flight[j], subs, w, n)
      BY <1>2, <1>3, <2>3, <3>1, <3>2 DEF ReqOK, Createful, Verifyful, Shows
    <3> QED
      BY <2>1, <2>4, <3>1, <3>3, HandlerStep DEF w
  <2>5. CASE r.kind # "stripe"
    <3> DEFINE paid == Now.paid \/ r.kind = "nodeop_free"
               w == [Now EXCEPT !.submitting = FALSE, !.result = r, !.paid = paid]
    <3>1. Then(i, w)
      BY <2>1, <2>5
    <3>2. /\ paid \in BOOLEAN /\ (Now.paid => paid) /\ (paid => SomePaid(subs))
          /\ r.kind \in Methods \/ paid
      BY <1>2, <2>2 DEF ViewOK, Kinds
    <3> HIDE DEF paid
    <3>3. /\ w.result = r /\ ~w.submitting /\ w.verifying = Now.verifying /\ w.paid = paid
          /\ ViewOK(w, subs, n)
      BY <1>2, <2>2, <3>2 DEF ViewOK
    <3> HIDE DEF w
    <3>4. ASSUME NEW j \in DOMAIN flight \ {i}
          PROVE  ReqOK(flight[j], subs, w, n)
      <4>1. ReqOK(flight[j], subs, Now, n)
        BY <1>2
      <4>2. Createful(flight[j], subs, w)
        BY <1>3, <4>1 DEF ReqOK, Createful
      <4>3. Verifyful(flight[j], subs, w)
        BY <2>3, <3>2, <3>3, <4>1 DEF ReqOK, Verifyful, Shows
      <4> QED
        BY <4>1, <4>2, <4>3 DEF ReqOK
    <3> QED
      BY <3>1, <3>3, <3>4, HandlerStep
  <2> QED
    BY <2>4, <2>5
<1>5. CASE flight[i].outcome = "refused"
  <2> DEFINE w == [Now EXCEPT !.submitting = FALSE]
  <2>1. Then(i, w)
    BY <1>5 DEF HandleCreate
  <2>2. /\ w.result = Now.result /\ w.verifying = Now.verifying /\ w.paid = Now.paid
        /\ ViewOK(w, subs, n)
    BY <1>2 DEF ViewOK
  <2> HIDE DEF w
  <2>3. \A j \in DOMAIN flight \ {i} : ReqOK(flight[j], subs, w, n)
    BY <1>2, <1>3, <2>2 DEF ReqOK, Createful, Verifyful, Shows
  <2> QED
    BY <2>1, <2>2, <2>3, HandlerStep
<1>6. CASE flight[i].outcome \notin {"ok", "refused"}
  BY <1>6, SameHandler DEF HandleCreate
<1> QED
  BY <1>4, <1>5, <1>6

LEMMA StepHandleVerify ==
  ASSUME IInv, NEW i \in DOMAIN flight, HandleVerify(i)
  PROVE  IInv'
<1> DEFINE subs == server.subs
           n == past.tiers
<1>1. flight[i].op = "verify" /\ flight[i].arg.live /\ flight[i].outcome # "none"
  BY DEF HandleVerify, Answer, Answers
<1>2. /\ ReqOK(flight[i], subs, Now, n) /\ IsReq(flight[i]) /\ ViewOK(Now, subs, n)
      /\ \A j \in DOMAIN flight \ {i} :
           ReqOK(flight[j], subs, Now, n) /\ PairOK(flight[i], flight[j])
  BY AnswerFacts
<1>3. \A j \in DOMAIN flight \ {i} : flight[j].op = "verify" => ~flight[j].arg.live
  BY <1>1, <1>2 DEF PairOK
<1>4. CASE flight[i].outcome = "throws"
  BY <1>4, SameHandler DEF HandleVerify
<1>5. CASE flight[i].outcome # "throws"
  <2> DEFINE verified == Verified(flight[i])
             paid == Now.paid \/ verified
             w == [Now EXCEPT !.verifying = FALSE, !.paid = paid]
  <2>1. Then(i, w)
    BY <1>5 DEF HandleVerify
  <2>2. flight[i].outcome \in {"ok", "refused"}
    BY <1>1, <1>2, <1>5 DEF IsReq, Outcomes
  <2>3. /\ verified => SomePaid(subs)
        /\ Now.paid \/ Shows(Now, flight[i].arg.id)
        /\ ~verified => Unproven(subs, flight[i].arg.id)
    BY <1>1, <1>2, <2>2 DEF ReqOK, Verifyful
  <2>4. /\ paid \in BOOLEAN /\ (Now.paid => paid) /\ (paid => SomePaid(subs))
        /\ ~paid => ~verified /\ ~Now.paid
    BY <1>2, <2>3 DEF ViewOK, Verified
  <2>5. ~paid => Now.result.id = flight[i].arg.id /\ Unproven(subs, flight[i].arg.id)
    BY <2>3, <2>4 DEF Shows
  <2> HIDE DEF paid, verified
  <2>6. /\ w.result = Now.result /\ w.submitting = Now.submitting /\ w.paid = paid
        /\ ViewOK(w, subs, n)
    BY <1>2, <2>4, <2>5 DEF ViewOK
  <2> HIDE DEF w
  <2>7. \A j \in DOMAIN flight \ {i} : ReqOK(flight[j], subs, w, n)
    BY <1>2, <1>3, <2>6 DEF ReqOK, Createful, Verifyful, Shows
  <2> QED
    BY <2>1, <2>6, <2>7, HandlerStep
<1> QED
  BY <1>4, <1>5

LEMMA StepHandleCancel ==
  ASSUME IInv, NEW i \in DOMAIN flight, HandleCancel(i)
  PROVE  IInv'
<1> DEFINE subs == server.subs
           n == past.tiers
           w(c) == [Now EXCEPT !.cancelling = c]
<1>1. ViewOK(Now, subs, n) /\ OthersOK(flight, i, subs, Now, n)
  BY InvFacts DEF FlightOK, OthersOK
<1>2. \A c \in BOOLEAN : ViewOK(w(c), subs, n) /\ SameView(Now, w(c))
  BY <1>1 DEF ViewOK, SameView
<1>3. CASE flight[i].outcome = "ok"
  <2>1. /\ User(w(FALSE)) /\ UNCHANGED <<server, past>>
        /\ flight' = Append(Handled(flight, i), Request("payments", [live |-> TRUE]))
    BY <1>3 DEF HandleCancel
  <2> HIDE DEF w
  <2>2. OthersOK(flight, i, subs, w(FALSE), n)
    BY <1>1, <1>2, ReqSameView DEF OthersOK
  <2>3. FlightOK(flight', subs, w(FALSE), n)
    BY <2>1, <2>2, HandledOK, SentLoad
  <2> QED
    BY <1>2, <2>1, <2>3, NoCount, UserStep
<1>4. CASE flight[i].outcome # "ok"
  <2> DEFINE c == flight[i].outcome = "throws"
  <2>1. Then(i, w(c))
    BY <1>4 DEF HandleCancel
  <2>2. c \in BOOLEAN
    OBVIOUS
  <2> HIDE DEF w, c
  <2> QED
    BY <1>2, <2>1, <2>2, PlainHandler
<1> QED
  BY <1>3, <1>4

\* The requests after one was handled without a word to the user.
LEMMA QuietlyHandled ==
  ASSUME IInv, NEW i \in DOMAIN flight
  PROVE  FlightOK(Handled(flight, i), server.subs, Now, past.tiers)
<1>1. OthersOK(flight, i, server.subs, Now, past.tiers)
  BY InvFacts DEF FlightOK, OthersOK
<1> QED
  BY <1>1, HandledOK

LEMMA StepHandleRows ==
  ASSUME IInv, NEW i \in DOMAIN flight, HandleRows(i)
  PROVE  IInv'
<1>1. /\ flight[i].op = "rows" /\ UNCHANGED <<server, past>>
      /\ flight' = Handled(flight, i)
      /\ view' = IF flight[i].outcome = "ok" THEN [view EXCEPT !.rows = flight[i].data] ELSE view
  BY DEF HandleRows, Answer, Answers
<1>2. /\ view \in [user : {Now}, rows : SUBSET TiersUpTo(past.tiers)]
      /\ ReqOK(flight[i], server.subs, Now, past.tiers)
      /\ ViewOK(Now, server.subs, past.tiers)
      /\ ServerOK(server, past) /\ PastOK(past, server.subs)
  BY InvFacts
<1>3. flight[i].outcome = "ok" => flight[i].data \subseteq TiersUpTo(past.tiers)
  BY <1>1, <1>2 DEF ReqOK, Tierful
<1>4. view' \in [user : {Now}, rows : SUBSET TiersUpTo(past.tiers)]
  BY <1>1, <1>2, <1>3
<1>5. FlightOK(flight', server.subs, Now, past.tiers)
  BY <1>1, QuietlyHandled
<1> QED
  BY <1>1, <1>2, <1>4, <1>5 DEF IInv

LEMMA StepHandleTier ==
  ASSUME IInv, NEW i \in DOMAIN flight, HandleTier(i)
  PROVE  IInv'
<1>1. /\ flight' \in {Handled(flight, i), Append(Handled(flight, i), Rows)}
      /\ UNCHANGED <<server, view, past>>
  BY DEF HandleTier
<1>2. FlightOK(flight', server.subs, Now, past.tiers)
  BY <1>1, QuietlyHandled, SentLoad DEF Rows
<1> QED
  BY <1>1, <1>2, NoCount, FlightStep

LEMMA StepDropped ==
  ASSUME IInv, NEW i \in DOMAIN flight, Dropped(i)
  PROVE  IInv'
<1>1. flight' = Handled(flight, i) /\ UNCHANGED <<server, view, past>>
  BY DEF Dropped
<1> QED
  BY <1>1, QuietlyHandled, NoCount, FlightStep

-----------------------------------------------------------------------------
(* The invariant. *)

\* The invariant holds at first.
LEMMA InitOK == Init => IInv
<1> SUFFICES ASSUME Init PROVE IInv
  OBVIOUS
<1> DEFINE tier == [id |-> 1, price |-> 1]
<1>1. /\ server \in [tiers : {{tier}}, subs : {<<>>}, nodeop : BOOLEAN]
      /\ view = [user |-> Fresh("closed"), rows |-> {}] /\ flight = <<Rows>>
      /\ past = [steps |-> 0, edits |-> 0, faults |-> 0, tiers |-> 1, deliveries |-> 0,
                 delivered |-> {}, redelivered |-> {}, cancelled |-> {}]
  BY DEF Init
<1>2. past.tiers = 1 /\ past.cancelled = {} /\ past.delivered = {} /\ past \in Pasts(past)
  BY <1>1 DEF Pasts
<1>3. server.tiers = {tier} /\ server.subs = <<>> /\ server.nodeop \in BOOLEAN
  BY <1>1
<1>4. <<>> \in Seq(Subs) /\ DOMAIN <<>> = {}
  OBVIOUS
<1>5. tier \in TiersUpTo(1)
  BY DEF TiersUpTo, Prices
<1>6. ServerOK(server, past)
  <2>1. server \in [tiers : SUBSET TiersUpTo(1), subs : Seq(Subs), nodeop : BOOLEAN]
    BY <1>1, <1>4, <1>5
  <2> QED
    BY <1>2, <1>3, <1>4, <2>1 DEF ServerOK
<1>7. PastOK(past, server.subs)
  BY <1>2 DEF PastOK
<1>8. view \in [user : {view.user}, rows : SUBSET TiersUpTo(past.tiers)]
      /\ view.user = Fresh("closed")
  BY <1>1
<1>9. ViewOK(view.user, server.subs, past.tiers)
  BY <1>8, FreshOK
<1>10. FlightOK(flight, server.subs, view.user, past.tiers)
  <2> DEFINE fs == <<>>
  <2>1. fs \in Seq(Range(fs)) /\ DOMAIN fs = {}
    OBVIOUS
  <2>2. FlightOK(fs, server.subs, view.user, past.tiers)
    BY <2>1 DEF FlightOK, OthersOK
  <2>3. FlightOK(Append(fs, Rows), server.subs, view.user, past.tiers)
    BY <2>2, SentLoad DEF Rows
  <2>4. Append(fs, Rows) = <<Rows>>
    OBVIOUS
  <2> QED
    BY <1>1, <2>3, <2>4
<1> QED
  BY <1>6, <1>7, <1>8, <1>9, <1>10 DEF IInv

\* Every step keeps it.
LEMMA StepOK ==
  ASSUME IInv, [Next]_vars
  PROVE  IInv'
<1>1. CASE UNCHANGED vars
  BY <1>1, InvFacts DEF vars, IInv, Now
<1>2. CASE OpenOnboarding \/ NodeopSubscribe \/ VerifyCrypto \/ VerifyInterac
           \/ OpenManagement \/ Cancel
  BY <1>2, StepOpenOnboarding, StepNodeopSubscribe, StepVerifying, StepOpenManagement, StepCancel
  DEF VerifyCrypto, VerifyInterac, Proven
<1>3. CASE \E tier \in Now.tiers, method \in Methods : Confirm(tier, method)
  BY <1>3, StepConfirm
<1>4. CASE \E tier \in view.rows \cup {NewTier}, price \in Prices : SaveTier(tier, price)
  BY <1>4, StepSaveTier
<1>5. CASE \E tier \in view.rows : DeleteTier(tier)
  BY <1>5, StepDeleteTier
<1>6. CASE \E id \in DOMAIN server.subs : Pays(id) \/ Webhook(id)
  BY <1>6, StepPays, StepWebhook
<1>7. ASSUME NEW i \in DOMAIN flight,
             \/ ServeTiers(i) \/ ServeStatus(i) \/ ServePayments(i)
             \/ ServeSaveTier(i) \/ ServeDeleteTier(i) \/ ServeCancel(i) \/ Fail(i)
             \/ \E failed \in SUBSET {"node-check", "stripe"} : ServeCreate(i, failed)
             \/ \E verified \in BOOLEAN : ServeVerify(i, verified)
      PROVE  IInv'
  BY <1>7, StepServeTiers, StepServeStatus, StepServePayments, StepServeSaveTier,
     StepServeDeleteTier, StepServeCancel, StepFail, StepServeCreate, StepServeVerify
<1>8. ASSUME NEW i \in DOMAIN flight,
             \/ HandleStatus(i) \/ HandleTiers(i) \/ HandleCreate(i) \/ HandleVerify(i)
             \/ HandlePayments(i) \/ HandleCancel(i) \/ HandleRows(i) \/ HandleTier(i)
             \/ Dropped(i)
      PROVE  IInv'
  BY <1>8, StepHandleStatus, StepHandleTiers, StepHandleCreate, StepHandleVerify,
     StepHandlePayments, StepHandleCancel, StepHandleRows, StepHandleTier, StepDropped
<1> QED
  BY <1>1, <1>2, <1>3, <1>4, <1>5, <1>6, <1>7, <1>8 DEF Next

\* The inductive invariant, in every state of every behaviour.
THEOREM InvariantOK == Spec => []IInv
<1>1. Init => IInv
  BY InitOK
<1>2. IInv /\ [Next]_vars => IInv'
  BY StepOK
<1> QED
  BY <1>1, <1>2, PTL DEF Spec

\* The invariant has the types in it.
LEMMA InvType ==
  ASSUME IInv
  PROVE  TypeOK
<1> DEFINE Ids == DOMAIN server.subs
           Tiers == [id : 1 .. past.tiers, price : Prices]
<1>1. /\ ServerOK(server, past) /\ ViewOK(Now, server.subs, past.tiers)
      /\ view \in [user : {Now}, rows : SUBSET TiersUpTo(past.tiers)]
      /\ \A i \in DOMAIN flight : IsReq(flight[i])
  BY InvFacts
<1>2. server.tiers \subseteq Tiers /\ \A t, u \in server.tiers : t.id = u.id => t = u
  BY <1>1 DEF ServerOK, TiersUpTo
<1>3. ASSUME NEW id \in Ids
      PROVE  /\ server.subs[id].status \in {"active", "suspended", "cancelled"}
                                             \cup {Pending(m) : m \in Methods}
             /\ server.subs[id].status = "pending_payment" =>
                  server.subs[id].method \in {"stripe", "nodeop_free"}
             /\ server.subs[id].status = "suspended" => server.subs[id].failed >= MaxAttempts
  <2>1. SubOK(server.subs[id], id, past.delivered)
    BY <1>1 DEF ServerOK
  <2>2. server.subs[id].status \in Statuses
    BY <2>1 DEF SubOK, Subs
  <2> QED
    BY <2>1, <2>2 DEF SubOK, Statuses
<1>4. /\ Now.tiers \subseteq Tiers
      /\ Now.result \in [id : Ids, kind : Methods \cup {"nodeop_free"}] \cup {None}
      /\ {s.id : s \in Now.subs} \subseteq Ids
  BY <1>1 DEF ViewOK, Kinds, TiersUpTo
<1>5. view.rows \subseteq Tiers
  BY <1>1 DEF TiersUpTo
<1>6. \A i \in DOMAIN flight :
        IsRequest(flight[i], {"status", "tiers", "create", "verify", "payments", "cancel",
                              "rows", "save", "remove"})
  BY <1>1 DEF IsReq, IsRequest, Ops
<1> QED
  BY <1>2, <1>3, <1>4, <1>5, <1>6 DEF TypeOK

\* The types, and that a subscription waiting for its payment waits for the one its user
\* chose, whatever the bounds are.
THEOREM TypeCorrect == Spec => []TypeOK
  BY InvariantOK, InvType, PTL

\* "You're all set!" is only ever said to a user with a subscription that was paid for, or a
\* free one: the answers of the status, of the node operator's subscription and of the proof
\* of payment are the only ones that say so, and each was given after a payment succeeded.
THEOREM PaidIsPaid == Spec => []PaidMeansPaid
<1>1. IInv => PaidMeansPaid
  BY InvFacts DEF ViewOK, SomePaid, PaidMeansPaid
<1> QED
  BY <1>1, InvariantOK, PTL

\* What a user cancelled is active again only after Stripe delivered the event of its payment
\* once more: nothing else that the pages, the banker or Stripe do brings it back.
THEOREM CancelledStaysCancelled == Spec => []CancelledStays
<1>1. IInv => CancelledStays
  BY InvFacts DEF PastOK, CancelledStays
<1> QED
  BY <1>1, InvariantOK, PTL
=============================================================================
