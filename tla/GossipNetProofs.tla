-------------------------- MODULE GossipNetProofs --------------------------
(***************************************************************************)
(* Proofs about GossipNet for any nodes, transactions and bounds.  What a  *)
(* node keeps is described as a relation of values, so that the lemmas say *)
(* what one handler does to one node; the steps of the network put them    *)
(* together.                                                               *)
(***************************************************************************)
EXTENDS GossipNet, TLAPS, SequenceTheorems

-----------------------------------------------------------------------------
(* Sequences: an entry more, the first one gone, and prefixes. *)

\* An entry more.
LEMMA AppendEntry ==
  ASSUME NEW S, NEW q \in Seq(S), NEW e \in S
  PROVE  /\ Append(q, e) \in Seq(S)
         /\ Append(q, e) # <<>>
         /\ Range(Append(q, e)) = Range(q) \cup {e}
         /\ IsInjective(q) /\ e \notin Range(q) => IsInjective(Append(q, e))
<1> DEFINE r == Append(q, e)
<1>1. /\ r \in Seq(S) /\ Len(r) = Len(q) + 1 /\ Len(q) \in Nat
      /\ \A i \in 1..Len(q) : r[i] = q[i]
      /\ r[Len(q) + 1] = e
      /\ DOMAIN r = 1..(Len(q) + 1) /\ DOMAIN q = 1..Len(q)
  OBVIOUS
<1> HIDE DEF r
<1>2. Range(r) = Range(q) \cup {e}
  BY <1>1 DEF Range
<1>3. ASSUME IsInjective(q), e \notin Range(q)
      PROVE  IsInjective(r)
  BY <1>1, <1>3 DEF Range, IsInjective
<1> QED
  BY <1>1, <1>2, <1>3 DEF r

\* The first entry gone.
LEMMA TailEntries ==
  ASSUME NEW S, NEW q \in Seq(S), q # <<>>
  PROVE  /\ Head(q) \in S
         /\ Tail(q) \in Seq(S)
         /\ Range(q) = Range(Tail(q)) \cup {Head(q)}
         /\ IsInjective(q) => IsInjective(Tail(q)) /\ Head(q) \notin Range(Tail(q))
<1> DEFINE r == Tail(q)
           n == Len(q)
<1>1. /\ r \in Seq(S) /\ n \in Nat /\ n >= 1 /\ Len(r) = n - 1
      /\ \A i \in 1..(n - 1) : r[i] = q[i + 1]
      /\ Head(q) = q[1] /\ q[1] \in S
      /\ DOMAIN r = 1..(n - 1) /\ DOMAIN q = 1..n
  OBVIOUS
<1> HIDE DEF r, n
<1>2. Range(q) = Range(r) \cup {Head(q)}
  <2>1. \A i \in 1..n : i = 1 \/ (i - 1 \in 1..(n - 1) /\ (i - 1) + 1 = i)
    BY <1>1
  <2>2. 1 \in 1..n /\ \A i \in 1..(n - 1) : i + 1 \in 1..n
    BY <1>1
  <2>3. \A i \in 1..n : q[i] = Head(q) \/ q[i] = r[i - 1]
    BY <1>1, <2>1
  <2>4. Range(q) = {q[i] : i \in 1..n} /\ Range(r) = {r[i] : i \in 1..(n - 1)}
    BY <1>1 DEF Range
  <2>5. \A e \in Range(q) : e \in Range(r) \/ e = Head(q)
    BY <2>1, <2>3, <2>4
  <2>6. \A e : e \in Range(r) \/ e = Head(q) => e \in Range(q)
    BY <1>1, <2>2, <2>4
  <2> QED
    BY <2>5, <2>6
<1>3. ASSUME IsInjective(q)
      PROVE  IsInjective(r) /\ Head(q) \notin Range(r)
  <2>1. 1 \in 1..n /\ \A i \in 1..(n - 1) : i + 1 \in 1..n /\ i + 1 # 1
    BY <1>1
  <2>2. \A i, j \in 1..n : q[i] = q[j] => i = j
    BY <1>1, <1>3 DEF IsInjective
  <2>3. \A i, j \in 1..(n - 1) : r[i] = r[j] => i = j
    BY <1>1, <2>1, <2>2
  <2>4. \A i \in 1..(n - 1) : r[i] # Head(q)
    BY <1>1, <2>1, <2>2
  <2> QED
    BY <1>1, <2>3, <2>4 DEF Range, IsInjective
<1> QED
  BY <1>1, <1>2, <1>3 DEF r

\* The empty sequence has no entries.
LEMMA NoEntries == Range(<<>>) = {} /\ IsInjective(<<>>)
  BY DEF Range, IsInjective

\* A prefix, entry by entry.
LEMMA PrefixEntries ==
  ASSUME NEW S, NEW s \in Seq(S), NEW t \in Seq(S)
  PROVE  IsPrefix(s, t) <=> Len(s) <= Len(t) /\ \A i \in 1..Len(s) : s[i] = t[i]
<1>1. Len(s) \in Nat /\ Len(t) \in Nat /\ DOMAIN s = 1..Len(s) /\ DOMAIN t = 1..Len(t)
  OBVIOUS
<1>2. ASSUME Len(s) <= Len(t)
      PROVE  SubSeq(s, 1, Len(s)) = SubSeq(t, 1, Len(s))
             <=> \A i \in 1..Len(s) : s[i] = t[i]
  <2>1. /\ SubSeq(s, 1, Len(s)) = [i \in 1..Len(s) |-> s[i]]
        /\ SubSeq(t, 1, Len(s)) = [i \in 1..Len(s) |-> t[i]]
    BY <1>1, <1>2
  <2> QED
    BY <2>1
<1> QED
  BY <1>2 DEF IsPrefix

LEMMA PrefixIsReflexive ==
  ASSUME NEW S, NEW s \in Seq(S)
  PROVE  IsPrefix(s, s)
  BY PrefixEntries

\* A prefix stays one when the longer sequence grows.
LEMMA PrefixGrows ==
  ASSUME NEW S, NEW s \in Seq(S), NEW t \in Seq(S), NEW e \in S, IsPrefix(s, t)
  PROVE  IsPrefix(s, Append(t, e))
<1> DEFINE r == Append(t, e)
<1>1. /\ r \in Seq(S) /\ Len(r) = Len(t) + 1 /\ Len(t) \in Nat /\ Len(s) \in Nat
      /\ \A i \in 1..Len(t) : r[i] = t[i]
  OBVIOUS
<1> HIDE DEF r
<1>2. Len(s) <= Len(t) /\ \A i \in 1..Len(s) : s[i] = t[i]
  BY PrefixEntries
<1>3. Len(s) <= Len(r) /\ \A i \in 1..Len(s) : s[i] = r[i]
  BY <1>1, <1>2
<1> QED
  BY <1>1, <1>3, PrefixEntries DEF r

-----------------------------------------------------------------------------
(* The rules, for a chain without configured validators. *)

\* The lemmas of AppChainProofs about the rules are about no chain in particular: this is an
\* instance of them for a chain without configured validators that is as at first.
R == INSTANCE AppChainProofs WITH
  KeepBlocks <- {1}, MaxCommits <- 0, MaxEvents <- 0, MaxImport <- 0, MaxRestarts <- 0,
  validators <- {}, chain <- Fresh({}), disk <- Fresh({}), importing <- 0, batch <- FALSE,
  restarts <- 0, pruned <- FALSE, barred <- {}

LEMMA RulesAgree ==
  /\ Txs \subseteq R!TxRecords
  /\ ChainStates = R!ChainStates
  /\ \A c : Tip(c) = R!Tip(c) /\ (AuthoritySound(c) <=> R!AuthoritySound(c))
  /\ \A c : LinkedChain(c) <=> R!LinkedChain(c)
  /\ \A c, tx : Outcome(c, tx) = R!Outcome(c, tx)
  /\ \A c, tx, code : Effect(c, tx, code) = R!Effect(c, tx, code)
<1>1. Txs \subseteq R!TxRecords
  BY ServerTxsAssumption DEF TxRecords, R!TxRecords, TxTypes, R!TxTypes
<1>2. ChainStates = R!ChainStates
  BY DEF ChainStates, R!ChainStates, Levels, R!Levels
<1>3. \A c : Tip(c) = R!Tip(c)
  BY DEF Tip, R!Tip, GENESIS, R!GENESIS
<1>4. \A tx : MayAuthenticate(tx) <=> R!MayAuthenticate(tx)
  BY DEF MayAuthenticate, R!MayAuthenticate
<1>5. \A c : AuthoritySound(c) <=> R!AuthoritySound(c)
  BY <1>3, <1>4 DEF AuthoritySound, R!AuthoritySound, Introduced, R!Introduced
<1>6. \A c : LinkedChain(c) <=> R!LinkedChain(c)
  BY DEF LinkedChain, R!LinkedChain, GENESIS, R!GENESIS, Sha256, R!Sha256, Last, R!Last
<1>7. \A c, tx : Outcome(c, tx) = R!Outcome(c, tx)
  BY <1>4 DEF Outcome, R!Outcome, Whitelisted, R!Whitelisted, BinaryApproved, R!BinaryApproved
<1>8. \A c, tx, code : Effect(c, tx, code) = R!Effect(c, tx, code)
  <2>1. \A c, tx : AppendBlock(c, tx) = R!AppendBlock(c, tx)
    BY <1>3 DEF AppendBlock, R!AppendBlock, Sha256, R!Sha256
  <2>2. \A c, tx, code : /\ AuthAfter(c, tx, code) = R!AuthAfter(c, tx, code)
                         /\ RootsAfter(c, tx, code) = R!RootsAfter(c, tx, code)
    BY DEF AuthAfter, R!AuthAfter, RootsAfter, R!RootsAfter, Excluding, R!Excluding
  <2> QED
    BY <2>1, <2>2, Zenon DEF Effect, R!Effect, Committing, R!Committing
<1> QED
  BY <1>1, <1>2, <1>3, <1>5, <1>6, <1>7, <1>8

LEMMA TipIsHistory ==
  ASSUME NEW c \in ChainStates
  PROVE  Tip(c) \in Seq(Txs)
  BY RulesAgree, R!TipType

\* A transaction that is admitted leaves a sound chain that extends the old one.
LEMMA EffectOK ==
  ASSUME NEW c \in ChainStates, NEW tx \in Txs, NEW code, AuthoritySound(c),
         code \in Committing => R!Admits(c, tx, code)
  PROVE  /\ Effect(c, tx, code) \in ChainStates
         /\ AuthoritySound(Effect(c, tx, code))
         /\ Tip(Effect(c, tx, code)) = Tip(c) \/ Tip(Effect(c, tx, code)) = Append(Tip(c), tx)
<1>1. /\ c \in R!ChainStates /\ R!AuthoritySound(c) /\ Txs \subseteq R!TxRecords
      /\ code \in R!Committing => R!Admits(c, tx, code)
  BY RulesAgree DEF Committing, R!Committing
<1>2. R!AuthoritySound(R!Effect(c, tx, code))
  BY <1>1, R!CommitSound
<1>3. /\ R!Effect(c, tx, code) \in R!ChainStates
      /\ \/ R!Tip(R!Effect(c, tx, code)) = R!Tip(c)
         \/ R!Tip(R!Effect(c, tx, code)) = Append(R!Tip(c), tx)
  BY <1>1, R!EffectType
<1> QED
  BY <1>2, <1>3, RulesAgree

-----------------------------------------------------------------------------
(* One chain and its file. *)

\* Chain c with file d.
ChainOK(c, d) ==
  /\ c \in ChainStates /\ d \in ChainStates
  /\ AuthoritySound(c) /\ AuthoritySound(d)
  /\ IsPrefix(Tip(d), Tip(c))

\* submit, in batch mode (the file stays) or not.
LEMMA SubmitOK ==
  ASSUME NEW c, NEW d, ChainOK(c, d), NEW tx \in Txs
  PROVE  LET after == Effect(c, tx, Outcome(c, tx))
         IN ChainOK(after, d) /\ ChainOK(after, after)
<1> DEFINE code == Outcome(c, tx)
           after == Effect(c, tx, code)
<1>1. code \in Committing => R!Admits(c, tx, code)
  <2> SUFFICES ASSUME code \in Committing PROVE R!Admits(c, tx, code)
    OBVIOUS
  <2>1. R!Outcome(c, tx) \in R!Committing
    BY RulesAgree DEF Committing, R!Committing
  <2> QED
    BY <2>1, RulesAgree, R!CommitsAreAdmissible DEF R!Admits
<1>2. /\ after \in ChainStates /\ AuthoritySound(after)
      /\ Tip(after) = Tip(c) \/ Tip(after) = Append(Tip(c), tx)
  BY <1>1, EffectOK DEF ChainOK
<1>3. Tip(after) \in Seq(Txs) /\ Tip(c) \in Seq(Txs) /\ Tip(d) \in Seq(Txs)
  BY <1>2, TipIsHistory DEF ChainOK
<1> HIDE DEF after
<1>4. IsPrefix(Tip(d), Tip(after))
  BY <1>2, <1>3, PrefixGrows DEF ChainOK
<1>5. IsPrefix(Tip(after), Tip(after))
  BY <1>3, PrefixIsReflexive
<1> QED
  BY <1>2, <1>4, <1>5 DEF ChainOK, after

\* A node boots from its file, with its own NODE_AUTH when it is not authorised yet.
LEMMA BootOK ==
  ASSUME NEW c, NEW d, ChainOK(c, d), NEW tx \in Txs, tx.type = "NODE_AUTH"
  PROVE  LET after == Effect(d, tx, "node_authenticated")
         IN ChainOK(after, after) /\ ChainOK(d, d)
<1> DEFINE after == Effect(d, tx, "node_authenticated")
<1>1. R!Admits(d, tx, "node_authenticated")
  BY DEF R!Admits, R!MayAuthenticate
<1>2. after \in ChainStates /\ AuthoritySound(after)
  BY <1>1, EffectOK DEF ChainOK
<1>3. Tip(after) \in Seq(Txs) /\ Tip(d) \in Seq(Txs)
  BY <1>2, TipIsHistory DEF ChainOK
<1> HIDE DEF after
<1>4. IsPrefix(Tip(after), Tip(after)) /\ IsPrefix(Tip(d), Tip(d))
  BY <1>3, PrefixIsReflexive
<1> QED
  BY <1>2, <1>4 DEF ChainOK, after

-----------------------------------------------------------------------------
(* One row of a peer store, with the failures counted beside it. *)

\* Row row of node n, and the failures in a row of each peer.
RowOK(n, row, fails) ==
  /\ DOMAIN row \subseteq Nodes \ {n}
  /\ fails \in [Nodes -> 0..MaxFailedPings]
  /\ \A p \in DOMAIN row : row[p] \in 0..(MaxFailedPings - 1) /\ row[p] <= fails[p]

\* The store never counts more failures than there were in a row, so it drops a peer
\* only when there were enough.
LEMMA NotedRow ==
  ASSUME NEW n \in Nodes, NEW row, NEW fails, RowOK(n, row, fails),
         NEW p \in Nodes, NEW ok \in BOOLEAN, NEW after,
         after = [fails EXCEPT ![p] = IF ok THEN 0 ELSE IF @ < MaxFailedPings THEN @ + 1 ELSE @]
  PROVE  /\ RowOK(n, PeersAfter(row, p, ok), after)
         /\ \A q \in DOMAIN row \ DOMAIN PeersAfter(row, p, ok) : after[q] >= MaxFailedPings
<1> DEFINE M == MaxFailedPings
           new == PeersAfter(row, p, ok)
<1>1. M \in Nat /\ M >= 1
  BY BoundsAssumption
<1>2. /\ fails \in [Nodes -> 0..M] /\ DOMAIN row \subseteq Nodes \ {n}
      /\ \A q \in DOMAIN row : row[q] \in 0..(M - 1) /\ row[q] <= fails[q]
  BY DEF RowOK
<1>3. /\ after \in [Nodes -> 0..M]
      /\ after[p] = IF ok THEN 0 ELSE IF fails[p] < M THEN fails[p] + 1 ELSE fails[p]
      /\ \A q \in Nodes : q # p => after[q] = fails[q]
  BY <1>1, <1>2
<1>4. CASE p \notin DOMAIN row
  <2>1. new = row
    BY <1>4 DEF PeersAfter
  <2> QED
    BY <1>2, <1>3, <1>4, <2>1 DEF RowOK
<1>5. CASE p \in DOMAIN row /\ ok
  <2>1. /\ DOMAIN new = DOMAIN row /\ new[p] = 0
        /\ \A q \in DOMAIN row : q # p => new[q] = row[q]
    BY <1>5 DEF PeersAfter
  <2> HIDE DEF new
  <2>2. \A q \in DOMAIN new : new[q] \in 0..(M - 1) /\ new[q] <= after[q]
    BY <1>1, <1>2, <1>3, <1>5, <2>1
  <2> QED
    BY <1>2, <1>3, <2>1, <2>2 DEF RowOK, new
<1>6. CASE p \in DOMAIN row /\ ~ok /\ row[p] + 1 >= M
  <2>1. /\ DOMAIN new = DOMAIN row \ {p}
        /\ \A q \in DOMAIN new : new[q] = row[q]
    BY <1>6 DEF PeersAfter
  <2> HIDE DEF new
  <2>2. \A q \in DOMAIN new : new[q] \in 0..(M - 1) /\ new[q] <= after[q]
    BY <1>2, <1>3, <2>1
  <2>3. after[p] >= M
    BY <1>1, <1>2, <1>3, <1>6
  <2> QED
    BY <1>2, <1>3, <2>1, <2>2, <2>3 DEF RowOK, new
<1>7. CASE p \in DOMAIN row /\ ~ok /\ ~(row[p] + 1 >= M)
  <2>1. /\ DOMAIN new = DOMAIN row /\ new[p] = row[p] + 1
        /\ \A q \in DOMAIN row : q # p => new[q] = row[q]
    BY <1>7 DEF PeersAfter
  <2> HIDE DEF new
  <2>2. \A q \in DOMAIN new : new[q] \in 0..(M - 1) /\ new[q] <= after[q]
    BY <1>1, <1>2, <1>3, <1>7, <2>1
  <2> QED
    BY <1>2, <1>3, <2>1, <2>2 DEF RowOK, new
<1> QED
  BY <1>4, <1>5, <1>6, <1>7

-----------------------------------------------------------------------------
(* One node's queue: a transaction is on its way once and for all.          *)

Stages == {"down", "syncing", "importing", "flush", "send", "ping"}

\* Transaction tx was not sent to any peer since the node booted.
Untold(told, tx) == \A p \in Nodes : told[p][tx] = 0

\* A node in stage st with queue q, seen set s, batch b, targets t and blocks inc to
\* replay, that told its peers about transactions as told counts: what is queued or
\* was never seen is untold, and so is the batch, but for its head at the peers that
\* were reached.
QueueOK(st, q, s, b, t, inc, told) ==
  /\ st \in Stages
  /\ q \in Seq(Txs) /\ b \in Seq(Txs) /\ inc \in Seq(Txs)
  /\ s \subseteq Txs /\ t \subseteq Nodes
  /\ told \in [Nodes -> [Txs -> Nat]]
  /\ Range(q) \cup Range(b) \subseteq s
  /\ IsInjective(q) /\ IsInjective(b) /\ Range(q) \cap Range(b) = {}
  /\ st = "send" <=> b # <<>>
  /\ st = "importing" <=> inc # <<>>
  /\ \A tx \in Txs : (tx \notin s \/ tx \in Range(q)) => Untold(told, tx)
  /\ \A tx \in Range(b) : tx # Head(b) => Untold(told, tx)
  /\ b # <<>> => \A p \in t : told[p][Head(b)] = 0
  /\ \A p \in Nodes : \A tx \in Txs : told[p][tx] <= 1

\* gossip(tx).
LEMMA GossipOK ==
  ASSUME NEW st, NEW q, NEW s, NEW b, NEW t, NEW inc, NEW told,
         QueueOK(st, q, s, b, t, inc, told), NEW tx \in Txs
  PROVE  QueueOK(st, IF tx \in s THEN q ELSE Append(q, tx), s \cup {tx}, b, t, inc, told)
<1>1. CASE tx \in s
  <2>1. s \cup {tx} = s
    BY <1>1
  <2> QED
    BY <1>1, <2>1
<1>2. CASE tx \notin s
  <2> DEFINE r == Append(q, tx)
  <2>1. /\ r \in Seq(Txs) /\ Range(r) = Range(q) \cup {tx}
        /\ IsInjective(r)
    BY <1>2, AppendEntry DEF QueueOK
  <2> HIDE DEF r
  <2>2. QueueOK(st, r, s \cup {tx}, b, t, inc, told)
    BY <1>2, <2>1 DEF QueueOK
  <2> QED
    BY <1>2, <2>2 DEF r
<1> QED
  BY <1>1, <1>2

\* The loop takes the queue txs, or what is left of its batch, for the peers known.
LEMMA BatchOK ==
  ASSUME NEW q \in Seq(Txs), NEW s \in SUBSET Txs, NEW txs \in Seq(Txs),
         NEW known \in SUBSET Nodes, NEW told \in [Nodes -> [Txs -> Nat]],
         IsInjective(q), Range(q) \subseteq s,
         IsInjective(txs), Range(txs) \subseteq s,
         Range(q) \cap Range(txs) = {},
         \A tx \in Txs : (tx \notin s \/ tx \in Range(q)) => Untold(told, tx),
         \A tx \in Range(txs) : Untold(told, tx),
         \A p \in Nodes : \A tx \in Txs : told[p][tx] <= 1
  PROVE  QueueOK(IF known = {} THEN "flush" ELSE IF txs = <<>> THEN "ping" ELSE "send",
                 q, s, IF known = {} THEN <<>> ELSE txs, known, <<>>, told)
<1> DEFINE b2 == IF known = {} THEN <<>> ELSE txs
           st2 == IF known = {} THEN "flush" ELSE IF txs = <<>> THEN "ping" ELSE "send"
<1>1. /\ b2 \in Seq(Txs) /\ IsInjective(b2) /\ Range(b2) \subseteq Range(txs)
      /\ b2 # <<>> => b2 = txs /\ Head(b2) \in Range(txs)
  <2>1. txs # <<>> => Head(txs) \in Range(txs)
    BY TailEntries
  <2> QED
    BY <2>1, NoEntries
<1>2. st2 \in Stages /\ (st2 = "send" <=> b2 # <<>>) /\ st2 # "importing"
  BY DEF Stages
<1> HIDE DEF b2, st2
<1>3. /\ \A tx \in Range(b2) : Untold(told, tx)
      /\ b2 # <<>> => \A p \in known : told[p][Head(b2)] = 0
  BY <1>1 DEF Untold
<1>4. QueueOK(st2, q, s, b2, known, <<>>, told)
  BY <1>1, <1>2, <1>3 DEF QueueOK
<1> QED
  BY <1>4 DEF b2, st2

\* The send of the batch's head to p is over.
LEMMA AdvanceOK ==
  ASSUME NEW st, NEW q, NEW s, NEW b, NEW t, NEW inc, NEW told,
         QueueOK(st, q, s, b, t, inc, told), st = "send", NEW p \in t,
         NEW known \in SUBSET Nodes,
         NEW now, now = [told EXCEPT ![p][Head(b)] = @ + 1]
  PROVE  /\ QueueOK(IF known = {} THEN "flush" ELSE IF Tail(b) = <<>> THEN "ping" ELSE "send",
                    q, s, IF known = {} THEN <<>> ELSE Tail(b), known, inc, now)
         /\ QueueOK(st, q, s, b, t \ {p}, inc, now)
<1> DEFINE h == Head(b)
           r == Tail(b)
<1>1. /\ h \in Txs /\ r \in Seq(Txs) /\ Range(b) = Range(r) \cup {h} /\ b # <<>>
      /\ IsInjective(r) /\ h \notin Range(r)
  BY TailEntries DEF QueueOK
<1> HIDE DEF h, r
<1>2. /\ told \in [Nodes -> [Txs -> Nat]] /\ p \in Nodes /\ told[p][h] = 0
      /\ \A m \in Nodes : \A tx \in Txs : told[m][tx] <= 1
      /\ h \in s /\ h \notin Range(q)
  BY <1>1 DEF QueueOK, h
<1>3. now = [told EXCEPT ![p][h] = @ + 1]
  BY DEF h
<1>4. /\ now \in [Nodes -> [Txs -> Nat]]
      /\ now[p][h] = 1
      /\ \A m \in Nodes : \A tx \in Txs : (m # p \/ tx # h) => now[m][tx] = told[m][tx]
  <2>1. told[p] \in [Txs -> Nat]
    BY <1>2
  <2>2. /\ DOMAIN now = Nodes /\ now[p] \in [Txs -> Nat] /\ now[p][h] = 1
        /\ \A tx \in Txs : tx # h => now[p][tx] = told[p][tx]
    BY <1>1, <1>2, <1>3, <2>1
  <2>3. \A m \in Nodes : m # p => now[m] = told[m]
    BY <1>2, <1>3
  <2>4. now \in [Nodes -> [Txs -> Nat]]
    <3>1. \A m \in Nodes : now[m] \in [Txs -> Nat]
      BY <1>2, <2>2, <2>3
    <3> QED
      BY <1>2, <1>3, <2>2, <3>1
  <2> QED
    BY <2>2, <2>3, <2>4
<1>5. \A m \in Nodes : \A tx \in Txs : now[m][tx] <= 1
  BY <1>2, <1>4
<1>6. \A tx \in Txs : tx # h /\ Untold(told, tx) => Untold(now, tx)
  BY <1>4 DEF Untold
<1>7. /\ \A tx \in Txs : (tx \notin s \/ tx \in Range(q)) => Untold(now, tx)
      /\ \A tx \in Range(r) : tx \in Txs /\ Untold(now, tx)
  <2>1. \A tx \in Txs : (tx \notin s \/ tx \in Range(q)) => Untold(told, tx) /\ tx # h
    BY <1>2 DEF QueueOK
  <2>2. \A tx \in Range(r) : tx \in Txs /\ Untold(told, tx) /\ tx # h
    BY <1>1 DEF QueueOK, h
  <2> QED
    BY <1>6, <2>1, <2>2
<1>8. QueueOK(st, q, s, b, t \ {p}, inc, now)
  <2>1. \A m \in t \ {p} : now[m][Head(b)] = 0
    BY <1>1, <1>4 DEF QueueOK, h
  <2>2. \A tx \in Range(b) : tx # Head(b) => Untold(now, tx)
    BY <1>1, <1>7 DEF h
  <2> QED
    BY <1>4, <1>5, <1>7, <2>1, <2>2 DEF QueueOK
<1>9. QueueOK(IF known = {} THEN "flush" ELSE IF r = <<>> THEN "ping" ELSE "send",
              q, s, IF known = {} THEN <<>> ELSE r, known, inc, now)
  <2>1. /\ q \in Seq(Txs) /\ IsInjective(q) /\ Range(q) \subseteq s
        /\ Range(r) \subseteq s /\ Range(q) \cap Range(r) = {}
    BY <1>1 DEF QueueOK
  <2>2. /\ st \in {"flush", "send"} /\ known \in SUBSET Nodes
        /\ now \in [Nodes -> [Txs -> Nat]]
        /\ \A tx \in Range(r) : Untold(now, tx)
        /\ r \in Seq(Txs) /\ IsInjective(r)
        /\ s \in SUBSET Txs /\ inc = <<>>
    BY <1>1, <1>4, <1>7 DEF QueueOK
  <2> QED
    BY <1>5, <1>7, <2>1, <2>2, BatchOK
<1> QED
  BY <1>8, <1>9 DEF r

\* A node that sends nothing moves to another stage, or loads blocks to replay.
LEMMA MoveOK ==
  ASSUME NEW st, NEW q, NEW s, NEW b, NEW t, NEW inc, NEW told,
         QueueOK(st, q, s, b, t, inc, told), st # "send",
         NEW st2 \in Stages, st2 # "send",
         NEW t2 \in SUBSET Nodes, NEW inc2 \in Seq(Txs), st2 = "importing" <=> inc2 # <<>>
  PROVE  QueueOK(st2, q, s, b, t2, inc2, told)
  BY DEF QueueOK

\* What a process starts with, and loses when it dies.
LEMMA EmptyOK == QueueOK("down", <<>>, {}, <<>>, {}, <<>>, NothingSent)
  BY NoEntries DEF QueueOK, Stages, Untold, NothingSent

-----------------------------------------------------------------------------
(* The inductive invariant: chains, peer stores and queues of all nodes.    *)

ChainsOK ==
  /\ chain \in [Nodes -> ChainStates] /\ disk \in [Nodes -> ChainStates]
  /\ \A n \in Nodes : ChainOK(chain[n], disk[n])

RowsOK ==
  /\ DOMAIN peers = Nodes /\ DOMAIN missed = Nodes
  /\ \A n \in Nodes : RowOK(n, peers[n], missed[n])

QueuesOK ==
  /\ stage \in [Nodes -> Stages]
  /\ DOMAIN queue = Nodes /\ DOMAIN seen = Nodes /\ DOMAIN batch = Nodes
  /\ DOMAIN targets = Nodes /\ DOMAIN incoming = Nodes /\ DOMAIN sent = Nodes
  /\ \A n \in Nodes :
       QueueOK(stage[n], queue[n], seen[n], batch[n], targets[n], incoming[n], sent[n])

Requests == [from : Nodes, to : Nodes, tx : Txs]

IInv == ChainsOK /\ RowsOK /\ QueuesOK /\ transit \subseteq Requests

\* The transactions that a step handles are transactions.
LEMMA HandledTypes ==
  ASSUME IInv
  PROVE  /\ \A n \in Nodes : stage[n] = "send" => Head(batch[n]) \in Txs
         /\ \A n \in Nodes : stage[n] = "importing" =>
              Head(incoming[n]) \in Txs /\ Tail(incoming[n]) \in Seq(Txs)
         /\ \A request \in transit : request.to \in Nodes /\ request.tx \in Txs
<1>1. \A n \in Nodes : /\ batch[n] \in Seq(Txs) /\ incoming[n] \in Seq(Txs)
                       /\ stage[n] = "send" <=> batch[n] # <<>>
                       /\ stage[n] = "importing" <=> incoming[n] # <<>>
  BY DEF IInv, QueuesOK, QueueOK
<1> QED
  BY <1>1, TailEntries DEF IInv, Requests

\* submit at one node.
LEMMA SubmitKeepsChains ==
  ASSUME ChainsOK, NEW n \in Nodes, NEW tx \in Txs, SubmitTo(n, tx)
  PROVE  ChainsOK'
<1> DEFINE code == Outcome(chain[n], tx)
           after == Effect(chain[n], tx, code)
<1>1. /\ chain' = [chain EXCEPT ![n] = after]
      /\ disk' = [disk EXCEPT ![n] = IF Saving(code) THEN after ELSE @]
  BY DEF SubmitTo
<1>2. ChainOK(after, disk[n]) /\ ChainOK(after, after)
  BY SubmitOK DEF ChainsOK
<1> HIDE DEF after, code
<1>3. after \in ChainStates
  BY <1>2 DEF ChainOK
<1>4. /\ chain' \in [Nodes -> ChainStates] /\ disk' \in [Nodes -> ChainStates]
      /\ \A m \in Nodes : m # n => chain'[m] = chain[m] /\ disk'[m] = disk[m]
      /\ chain'[n] = after /\ (disk'[n] = after \/ disk'[n] = disk[n])
  BY <1>1, <1>3 DEF ChainsOK
<1>5. \A m \in Nodes : ChainOK(chain'[m], disk'[m])
  BY <1>2, <1>4 DEF ChainsOK
<1> QED
  BY <1>4, <1>5 DEF ChainsOK, ChainOK, AuthoritySound, Tip, GENESIS, ChainStates

\* ... and the gossip of what it committed.
LEMMA HandleKeepsQueues ==
  ASSUME QueuesOK, NEW n \in Nodes, NEW tx \in Txs,
         Gossip(n, tx) \/ UNCHANGED <<queue, seen>>
  PROVE  /\ DOMAIN queue' = Nodes /\ DOMAIN seen' = Nodes
         /\ \A m \in Nodes :
              QueueOK(stage[m], queue'[m], seen'[m], batch[m], targets[m], incoming[m], sent[m])
<1>1. CASE UNCHANGED <<queue, seen>>
  BY <1>1 DEF QueuesOK
<1>2. CASE Gossip(n, tx)
  <2>1. /\ DOMAIN queue' = Nodes /\ DOMAIN seen' = Nodes
        /\ queue'[n] = IF tx \in seen[n] THEN queue[n] ELSE Append(queue[n], tx)
        /\ seen'[n] = seen[n] \cup {tx}
        /\ \A m \in Nodes : m # n => queue'[m] = queue[m] /\ seen'[m] = seen[m]
    BY <1>2 DEF Gossip, Known, QueuesOK
  <2>2. QueueOK(stage[n], queue[n], seen[n], batch[n], targets[n], incoming[n], sent[n])
    BY DEF QueuesOK
  <2>3. QueueOK(stage[n], IF tx \in seen[n] THEN queue[n] ELSE Append(queue[n], tx),
                seen[n] \cup {tx}, batch[n], targets[n], incoming[n], sent[n])
    BY <2>2, GossipOK
  <2> QED
    BY <2>1, <2>3 DEF QueuesOK
<1> QED
  BY <1>1, <1>2

\* What a step of the peer stores may do.
RowsStep ==
  /\ RowsOK'
  /\ \A n \in Nodes : \A p \in DOMAIN peers[n] \ DOMAIN peers'[n] : missed'[n][p] >= MaxFailedPings

LEMMA NotedStep ==
  ASSUME RowsOK, NEW n \in Nodes, NEW p \in Nodes, NEW ok \in BOOLEAN, Noted(n, p, ok)
  PROVE  RowsStep
<1> DEFINE after == [missed[n] EXCEPT ![p] =
                       IF ok THEN 0 ELSE IF @ < MaxFailedPings THEN @ + 1 ELSE @]
<1>1. RowOK(n, peers[n], missed[n])
  BY DEF RowsOK
<1>2. /\ RowOK(n, PeersAfter(peers[n], p, ok), after)
      /\ \A q \in DOMAIN peers[n] \ DOMAIN PeersAfter(peers[n], p, ok) : after[q] >= MaxFailedPings
  BY <1>1, NotedRow
<1>3. /\ DOMAIN peers' = Nodes /\ DOMAIN missed' = Nodes
      /\ peers'[n] = PeersAfter(peers[n], p, ok) /\ missed'[n] = after
      /\ \A m \in Nodes : m # n => peers'[m] = peers[m] /\ missed'[m] = missed[m]
  BY DEF Noted, RowsOK
<1> HIDE DEF after
<1>4. \A m \in Nodes : RowOK(m, peers'[m], missed'[m])
  BY <1>2, <1>3 DEF RowsOK
<1>5. \A m \in Nodes : \A q \in DOMAIN peers[m] \ DOMAIN peers'[m] : missed'[m][q] >= MaxFailedPings
  BY <1>2, <1>3
<1> QED
  BY <1>3, <1>4, <1>5 DEF RowsStep, RowsOK, RowOK

-----------------------------------------------------------------------------
(* Each part of the invariant, action by action. *)

LEMMA StepChains == IInv /\ [Next]_vars => ChainsOK'
<1> SUFFICES ASSUME IInv, [Next]_vars PROVE ChainsOK'
  OBVIOUS
<1>1. ChainsOK
  BY DEF IInv
<1>2. ASSUME UNCHANGED <<chain, disk>> PROVE ChainsOK'
  <2>1. /\ chain' \in [Nodes -> ChainStates] /\ disk' \in [Nodes -> ChainStates]
        /\ \A n \in Nodes : ChainOK(chain'[n], disk'[n])
    BY <1>1, <1>2 DEF ChainsOK
  <2> QED
    BY <2>1 DEF ChainsOK
\* Memory and file of one node are replaced by a chain that is fine.
<1>3. ASSUME NEW n \in Nodes, NEW c, NEW d, ChainOK(c, d),
             chain' = [chain EXCEPT ![n] = c], disk' = [disk EXCEPT ![n] = d] \/ (disk' = disk /\ d = disk[n])
      PROVE  ChainsOK'
  <2>1. /\ chain' \in [Nodes -> ChainStates] /\ disk' \in [Nodes -> ChainStates]
        /\ chain'[n] = c /\ disk'[n] = d
        /\ \A m \in Nodes : m # n => chain'[m] = chain[m] /\ disk'[m] = disk[m]
    BY <1>1, <1>3 DEF ChainsOK, ChainOK
  <2>2. \A m \in Nodes : ChainOK(chain'[m], disk'[m])
    BY <1>1, <1>3, <2>1 DEF ChainsOK
  <2> QED
    BY <2>1, <2>2 DEF ChainsOK
<1>4. ASSUME NEW n \in Nodes, Boot(n) PROVE ChainsOK'
  <2> DEFINE booted == Effect(disk[n], BootTx[n], "node_authenticated")
  <2>1. ChainOK(booted, booted) /\ ChainOK(disk[n], disk[n])
    BY <1>1, BootOK, BootAssumption DEF ChainsOK
  <2>2. PICK c : /\ c = disk[n] \/ c = booted
                 /\ chain' = [chain EXCEPT ![n] = c] /\ disk' = [disk EXCEPT ![n] = c]
    BY <1>4 DEF Boot
  <2> HIDE DEF booted
  <2> QED
    BY <1>3, <2>1, <2>2
<1>5. ASSUME NEW n \in Nodes, ImportNext(n) PROVE ChainsOK'
  <2> DEFINE tx == Head(incoming[n])
             after == Effect(chain[n], tx, Outcome(chain[n], tx))
  <2>1. tx \in Txs
    BY <1>5, HandledTypes DEF ImportNext
  <2>2. ChainOK(after, disk[n])
    BY <1>1, <2>1, SubmitOK DEF ChainsOK
  <2>3. chain' = [chain EXCEPT ![n] = after] /\ disk' = disk
    BY <1>5 DEF ImportNext
  <2> HIDE DEF after
  <2> QED
    BY <1>3, <2>2, <2>3
<1>6. ASSUME NEW n \in Nodes, Crash(n) PROVE ChainsOK'
  <2>1. ChainOK(disk[n], disk[n])
    BY <1>1, BootOK, BootAssumption DEF ChainsOK
  <2> QED
    BY <1>3, <1>6, <2>1 DEF Crash
<1>7. ASSUME NEW n \in Nodes, NEW tx \in Txs, Crawl(n, tx) \/ Post(n, tx) PROVE ChainsOK'
  BY <1>1, <1>7, SubmitKeepsChains DEF Crawl, Post, Handle
<1>8. ASSUME NEW request \in transit, HandleLate(request) PROVE ChainsOK'
  BY <1>1, <1>8, HandledTypes, SubmitKeepsChains DEF HandleLate, Handle
<1>9. ASSUME NEW n \in Nodes, NEW p \in Nodes, SendAnswered(n, p) PROVE ChainsOK'
  BY <1>1, <1>9, HandledTypes, SubmitKeepsChains DEF SendAnswered, Handle
<1>10. ASSUME NEW n \in Nodes, NEW p \in Nodes,
              \/ SendTimesOut(n, p) \/ SendRefused(n, p)
              \/ PingAnswered(n, p) \/ PingTimesOut(n, p) \/ PingRefused(n, p)
       PROVE  ChainsOK'
  BY <1>2, <1>10 DEF SendTimesOut, SendRefused, PingAnswered, PingTimesOut, PingRefused, Pinged
<1>11. ASSUME NEW n \in Nodes, Worker(n) PROVE ChainsOK'
  BY <1>2, <1>9, <1>10, <1>11 DEF Worker, FlushQueue
<1>12. ASSUME NEW n \in Nodes,
              SyncFromSeed(n) \/ SyncFails(n) \/ \E p \in Nodes : AddPeer(n, p)
       PROVE  ChainsOK'
  BY <1>2, <1>12 DEF SyncFromSeed, SyncFails, AddPeer
<1>13. CASE UNCHANGED vars
  BY <1>2, <1>13 DEF vars, netvars
<1> QED
  BY <1>4, <1>5, <1>6, <1>7, <1>8, <1>11, <1>12, <1>13 DEF Next

LEMMA StepRows == IInv /\ [Next]_vars => RowsStep
<1> SUFFICES ASSUME IInv, [Next]_vars PROVE RowsStep
  OBVIOUS
<1>1. RowsOK
  BY DEF IInv
<1>2. ASSUME UNCHANGED <<peers, missed>> PROVE RowsStep
  BY <1>1, <1>2 DEF RowsStep, RowsOK, RowOK
<1>3. ASSUME NEW n \in Nodes, NEW p \in Nodes, AddPeer(n, p) PROVE RowsStep
  <2>1. /\ DOMAIN peers' = Nodes /\ DOMAIN missed' = Nodes
        /\ p # n /\ p \notin DOMAIN peers[n]
        /\ peers'[n] = [q \in DOMAIN peers[n] \cup {p} |-> IF q = p THEN 0 ELSE peers[n][q]]
        /\ missed'[n] = [missed[n] EXCEPT ![p] = 0]
        /\ \A m \in Nodes : m # n => peers'[m] = peers[m] /\ missed'[m] = missed[m]
    BY <1>1, <1>3 DEF AddPeer, RowsOK
  <2>2. MaxFailedPings \in Nat /\ MaxFailedPings >= 1
    BY BoundsAssumption
  <2>3. RowOK(n, peers[n], missed[n])
    BY <1>1 DEF RowsOK
  <2>4. RowOK(n, peers'[n], missed'[n])
    BY <2>1, <2>2, <2>3 DEF RowOK
  <2>5. \A m \in Nodes : RowOK(m, peers'[m], missed'[m])
    BY <1>1, <2>1, <2>4 DEF RowsOK
  <2>6. \A m \in Nodes : DOMAIN peers[m] \subseteq DOMAIN peers'[m]
    BY <2>1
  <2> QED
    BY <2>1, <2>5, <2>6 DEF RowsStep, RowsOK, RowOK
<1>4. ASSUME NEW n \in Nodes, NEW p \in Nodes,
             \/ SendAnswered(n, p) \/ SendTimesOut(n, p) \/ SendRefused(n, p)
             \/ PingAnswered(n, p) \/ PingTimesOut(n, p) \/ PingRefused(n, p)
      PROVE  RowsStep
  <2>1. \E ok \in BOOLEAN : Noted(n, p, ok)
    BY <1>4 DEF SendAnswered, SendTimesOut, SendRefused, PingAnswered, PingTimesOut,
                PingRefused, Pinged
  <2> QED
    BY <1>1, <2>1, NotedStep
<1>5. ASSUME NEW n \in Nodes, Worker(n) PROVE RowsStep
  BY <1>2, <1>4, <1>5 DEF Worker, FlushQueue
<1>6. ASSUME NEW n \in Nodes, \/ Boot(n) \/ SyncFromSeed(n) \/ SyncFails(n) \/ ImportNext(n)
                              \/ Crash(n)
      PROVE  RowsStep
  BY <1>2, <1>6 DEF Boot, SyncFromSeed, SyncFails, ImportNext, Crash
<1>7. ASSUME NEW n \in Nodes, NEW tx \in Txs, Crawl(n, tx) \/ Post(n, tx) PROVE RowsStep
  BY <1>2, <1>7 DEF Crawl, Post
<1>8. ASSUME NEW request \in transit, HandleLate(request) PROVE RowsStep
  BY <1>2, <1>8 DEF HandleLate
<1>9. CASE UNCHANGED vars
  BY <1>2, <1>9 DEF vars, netvars
<1> QED
  BY <1>3, <1>5, <1>6, <1>7, <1>8, <1>9 DEF Next

\* The queues after a step, node by node.
LEMMA NodeByNode ==
  ASSUME stage' \in [Nodes -> Stages],
         DOMAIN queue' = Nodes, DOMAIN seen' = Nodes, DOMAIN batch' = Nodes,
         DOMAIN targets' = Nodes, DOMAIN incoming' = Nodes, DOMAIN sent' = Nodes,
         \A m \in Nodes :
           QueueOK(stage'[m], queue'[m], seen'[m], batch'[m], targets'[m], incoming'[m], sent'[m])
  PROVE  QueuesOK'
  BY DEF QueuesOK, QueueOK, Untold, Stages

\* A step that moves node n's worker or boot thread on without sending anything.
LEMMA MoveKeepsQueues ==
  ASSUME QueuesOK, NEW n \in Nodes, stage[n] # "send",
         NEW st \in Stages, st # "send", NEW t \in SUBSET Nodes, NEW inc \in Seq(Txs),
         st = "importing" <=> inc # <<>>,
         stage' = [stage EXCEPT ![n] = st],
         targets' = [targets EXCEPT ![n] = t] \/ (targets' = targets /\ t = targets[n]),
         incoming' = [incoming EXCEPT ![n] = inc] \/ (incoming' = incoming /\ inc = incoming[n]),
         UNCHANGED <<batch, sent>>,
         DOMAIN queue' = Nodes, DOMAIN seen' = Nodes,
         \A m \in Nodes :
           QueueOK(stage[m], queue'[m], seen'[m], batch[m], targets[m], incoming[m], sent[m])
  PROVE  QueuesOK'
<1>1. QueueOK(st, queue'[n], seen'[n], batch[n], t, inc, sent[n])
  BY MoveOK
<1>2. /\ stage' \in [Nodes -> Stages] /\ DOMAIN batch' = Nodes /\ DOMAIN targets' = Nodes
      /\ DOMAIN incoming' = Nodes /\ DOMAIN sent' = Nodes
      /\ stage'[n] = st /\ targets'[n] = t /\ incoming'[n] = inc
      /\ \A m \in Nodes : /\ batch'[m] = batch[m] /\ sent'[m] = sent[m]
                          /\ m # n => /\ stage'[m] = stage[m] /\ targets'[m] = targets[m]
                                      /\ incoming'[m] = incoming[m]
  BY DEF QueuesOK
<1>3. \A m \in Nodes :
        QueueOK(stage'[m], queue'[m], seen'[m], batch'[m], targets'[m], incoming'[m], sent'[m])
  BY <1>1, <1>2
<1> QED
  BY <1>2, <1>3, NodeByNode

\* A step that hands a transaction to a handler and moves no thread.
LEMMA HandlerKeepsQueues ==
  ASSUME QueuesOK, NEW n \in Nodes, NEW tx \in Txs,
         Gossip(n, tx) \/ UNCHANGED <<queue, seen>>,
         UNCHANGED <<stage, batch, targets, incoming, sent>>
  PROVE  QueuesOK'
<1>1. /\ DOMAIN queue' = Nodes /\ DOMAIN seen' = Nodes
      /\ \A m \in Nodes :
           QueueOK(stage[m], queue'[m], seen'[m], batch[m], targets[m], incoming[m], sent[m])
  BY HandleKeepsQueues
<1>2. /\ stage' \in [Nodes -> Stages] /\ DOMAIN batch' = Nodes /\ DOMAIN targets' = Nodes
      /\ DOMAIN incoming' = Nodes /\ DOMAIN sent' = Nodes
  BY DEF QueuesOK
<1> QED
  BY <1>1, <1>2, NodeByNode

\* The send of n's first transaction to p is over, whatever p's handler did.
LEMMA AdvanceKeepsQueues ==
  ASSUME QueuesOK, NEW n \in Nodes, NEW p, p \in targets[n], stage[n] = "send", Advance(n, p),
         DOMAIN peers'[n] \subseteq Nodes, UNCHANGED incoming,
         DOMAIN queue' = Nodes, DOMAIN seen' = Nodes,
         \A m \in Nodes :
           QueueOK(stage[m], queue'[m], seen'[m], batch[m], targets[m], incoming[m], sent[m])
  PROVE  QueuesOK'
<1> DEFINE known == DOMAIN peers'[n]
           now == [sent[n] EXCEPT ![p][Head(batch[n])] = @ + 1]
           st == IF known = {} THEN "flush" ELSE IF Tail(batch[n]) = <<>> THEN "ping" ELSE "send"
           rest == IF known = {} THEN <<>> ELSE Tail(batch[n])
<1>1. /\ QueueOK(st, queue'[n], seen'[n], rest, known, incoming[n], now)
      /\ QueueOK(stage[n], queue'[n], seen'[n], batch[n], targets[n] \ {p}, incoming[n], now)
  BY AdvanceOK
<1>2. /\ sent' = [sent EXCEPT ![n] = now]
      /\ \/ /\ batch' = [batch EXCEPT ![n] = rest] /\ targets' = [targets EXCEPT ![n] = known]
            /\ stage' = [stage EXCEPT ![n] = st]
         \/ targets' = [targets EXCEPT ![n] = targets[n] \ {p}] /\ UNCHANGED <<batch, stage>>
  BY DEF Advance, Continue, QueuesOK
<1>3. st \in Stages
  BY DEF Stages
<1> HIDE DEF st, rest, known, now
<1>4. /\ stage' \in [Nodes -> Stages] /\ DOMAIN batch' = Nodes /\ DOMAIN targets' = Nodes
      /\ DOMAIN incoming' = Nodes /\ DOMAIN sent' = Nodes
      /\ \A m \in Nodes : m # n => /\ stage'[m] = stage[m] /\ targets'[m] = targets[m]
                                   /\ incoming'[m] = incoming[m] /\ batch'[m] = batch[m]
                                   /\ sent'[m] = sent[m]
      /\ sent'[n] = now /\ incoming'[n] = incoming[n]
      /\ \/ stage'[n] = st /\ batch'[n] = rest /\ targets'[n] = known
         \/ stage'[n] = stage[n] /\ batch'[n] = batch[n] /\ targets'[n] = targets[n] \ {p}
  BY <1>2, <1>3 DEF QueuesOK
<1>5. QueueOK(stage'[n], queue'[n], seen'[n], batch'[n], targets'[n], incoming'[n], sent'[n])
  BY <1>1, <1>4
<1>6. \A m \in Nodes :
        QueueOK(stage'[m], queue'[m], seen'[m], batch'[m], targets'[m], incoming'[m], sent'[m])
  BY <1>4, <1>5
<1> QED
  BY <1>4, <1>6, NodeByNode

\* The queue is taken, and the old batch was spent.
LEMMA FlushKeepsQueues ==
  ASSUME IInv, RowsOK', NEW n \in Nodes, FlushQueue(n)
  PROVE  QueuesOK'
<1> DEFINE known == DOMAIN peers'[n]
           st == IF known = {} THEN "flush" ELSE IF queue[n] = <<>> THEN "ping" ELSE "send"
           taken == IF known = {} THEN <<>> ELSE queue[n]
<1>1. QueueOK(stage[n], queue[n], seen[n], batch[n], targets[n], incoming[n], sent[n])
  BY DEF IInv, QueuesOK
<1>2. known \in SUBSET Nodes
  BY DEF RowsOK, RowOK
<1>3. /\ stage' = [stage EXCEPT ![n] = st] /\ batch' = [batch EXCEPT ![n] = taken]
      /\ targets' = [targets EXCEPT ![n] = known] /\ queue' = [queue EXCEPT ![n] = <<>>]
      /\ UNCHANGED <<seen, incoming, sent>> /\ stage[n] = "flush"
  BY DEF FlushQueue, Continue, QueueCleared
<1>4. incoming[n] = <<>>
  BY <1>1, <1>3 DEF QueueOK
<1>5. QueueOK(st, <<>>, seen[n], taken, known, <<>>, sent[n])
  <2>1. /\ <<>> \in Seq(Txs) /\ IsInjective(<<>>) /\ Range(<<>>) = {}
    BY NoEntries
  <2>2. /\ queue[n] \in Seq(Txs) /\ IsInjective(queue[n]) /\ Range(queue[n]) \subseteq seen[n]
        /\ seen[n] \in SUBSET Txs /\ sent[n] \in [Nodes -> [Txs -> Nat]]
        /\ \A tx \in Txs : (tx \notin seen[n] \/ tx \in Range(<<>>)) => Untold(sent[n], tx)
        /\ \A tx \in Range(queue[n]) : Untold(sent[n], tx)
        /\ \A p \in Nodes : \A tx \in Txs : sent[n][p][tx] <= 1
    BY <1>1, <2>1 DEF QueueOK
  <2> HIDE DEF known
  <2> QED
    BY <1>2, <2>1, <2>2, BatchOK
<1>6. st \in Stages
  BY DEF Stages
<1> HIDE DEF st, taken, known
<1>7. /\ stage' \in [Nodes -> Stages]
      /\ DOMAIN queue' = Nodes /\ DOMAIN seen' = Nodes /\ DOMAIN batch' = Nodes
      /\ DOMAIN targets' = Nodes /\ DOMAIN incoming' = Nodes /\ DOMAIN sent' = Nodes
      /\ \A m \in Nodes : m # n => /\ stage'[m] = stage[m] /\ targets'[m] = targets[m]
                                   /\ queue'[m] = queue[m] /\ batch'[m] = batch[m]
      /\ \A m \in Nodes : /\ seen'[m] = seen[m] /\ incoming'[m] = incoming[m]
                          /\ sent'[m] = sent[m]
      /\ stage'[n] = st /\ batch'[n] = taken /\ targets'[n] = known /\ queue'[n] = <<>>
  BY <1>3, <1>6 DEF IInv, QueuesOK
<1>8. \A m \in Nodes :
        QueueOK(stage'[m], queue'[m], seen'[m], batch'[m], targets'[m], incoming'[m], sent'[m])
  BY <1>4, <1>5, <1>7 DEF IInv, QueuesOK
<1> QED
  BY <1>7, <1>8, NodeByNode

LEMMA StepQueues == IInv /\ [Next]_vars => QueuesOK'
<1> SUFFICES ASSUME IInv, [Next]_vars PROVE QueuesOK'
  OBVIOUS
<1>1. QueuesOK /\ RowsOK'
  BY StepRows DEF IInv, RowsStep
<1>2. ASSUME UNCHANGED <<stage, queue, seen, batch, targets, incoming, sent>> PROVE QueuesOK'
  BY <1>1, <1>2 DEF QueuesOK, QueueOK, Untold
<1>3. /\ DOMAIN queue = Nodes /\ DOMAIN seen = Nodes
      /\ \A n \in Nodes : /\ targets[n] \in SUBSET Nodes /\ incoming[n] \in Seq(Txs)
                          /\ stage[n] = "importing" <=> incoming[n] # <<>>
      /\ \A n \in Nodes :
           QueueOK(stage[n], queue[n], seen[n], batch[n], targets[n], incoming[n], sent[n])
  BY <1>1 DEF QueuesOK, QueueOK
\* Boot and catch up.
<1>4. ASSUME NEW n \in Nodes, Boot(n) \/ SyncFails(n) PROVE QueuesOK'
  <2>1. PICK st \in {"flush", "syncing"} : stage' = [stage EXCEPT ![n] = st]
    BY <1>4 DEF Boot, SyncFails
  <2>2. /\ stage[n] \in {"down", "syncing"} /\ UNCHANGED <<queue, seen, batch, targets, incoming, sent>>
    BY <1>4 DEF Boot, SyncFails
  <2>3. st \in Stages /\ st # "send" /\ st # "importing" /\ incoming[n] = <<>>
    BY <1>3, <2>2 DEF Stages
  <2> QED
    BY <1>1, <1>3, <2>1, <2>2, <2>3, MoveKeepsQueues
<1>5. ASSUME NEW n \in Nodes, SyncFromSeed(n) PROVE QueuesOK'
  <2> DEFINE blocks == BlocksSince(chain[Seed], Height(chain[n]))
  <2>1. PICK txs : /\ txs = <<>> \/ txs = blocks
                   /\ incoming' = [incoming EXCEPT ![n] = txs]
                   /\ stage' = [stage EXCEPT ![n] = IF txs = <<>> THEN "flush" ELSE "importing"]
    BY <1>5 DEF SyncFromSeed
  <2>2. blocks \in Seq(Txs)
    <3>1. /\ chain[Seed].raw \in Seq(Txs) /\ chain[n].blocks \in Seq(Seq(Txs))
      BY SeedAssumption, <1>3 DEF IInv, ChainsOK, ChainStates
    <3>2. Height(chain[n]) \in Int /\ Height(chain[n]) + 2 >= 1
      BY <3>1 DEF Height
    <3> HIDE DEF blocks
    <3> QED
      BY <3>1, <3>2 DEF BlocksSince, blocks
  <2> HIDE DEF blocks
  <2>3. txs \in Seq(Txs)
    <3>1. txs = <<>> \/ txs = blocks
      BY <2>1
    <3> QED
      BY <2>2, <3>1, EmptySeq
  <2>4. PICK st : st = IF txs = <<>> THEN "flush" ELSE "importing"
    OBVIOUS
  <2>5. /\ st \in Stages /\ st # "send" /\ (st = "importing" <=> txs # <<>>)
        /\ stage' = [stage EXCEPT ![n] = st]
    BY <2>1, <2>4 DEF Stages
  <2>6. stage[n] = "syncing" /\ UNCHANGED <<queue, seen, batch, targets, sent>>
    BY <1>5 DEF SyncFromSeed
  <2> QED
    BY <1>1, <1>3, <2>1, <2>3, <2>5, <2>6, MoveKeepsQueues
<1>6. ASSUME NEW n \in Nodes, ImportNext(n) PROVE QueuesOK'
  <2>1. PICK txs : /\ txs = <<>> \/ txs = Tail(incoming[n])
                   /\ incoming' = [incoming EXCEPT ![n] = txs]
                   /\ stage' = [stage EXCEPT ![n] = IF txs = <<>> THEN "flush" ELSE "importing"]
    BY <1>6 DEF ImportNext
  <2>2. /\ stage[n] = "importing" /\ UNCHANGED <<batch, targets, sent>>
        /\ Gossip(n, Head(incoming[n])) \/ UNCHANGED <<queue, seen>>
    BY <1>6 DEF ImportNext
  <2>6. Head(incoming[n]) \in Txs /\ txs \in Seq(Txs)
    <3>1. txs = <<>> \/ txs = Tail(incoming[n])
      BY <2>1
    <3> QED
      BY <2>2, <3>1, EmptySeq, HandledTypes
  <2>3. /\ DOMAIN queue' = Nodes /\ DOMAIN seen' = Nodes
        /\ \A m \in Nodes :
             QueueOK(stage[m], queue'[m], seen'[m], batch[m], targets[m], incoming[m], sent[m])
    BY <1>1, <2>2, <2>6, HandleKeepsQueues
  <2>4. PICK st : st = IF txs = <<>> THEN "flush" ELSE "importing"
    OBVIOUS
  <2>5. /\ st \in Stages /\ st # "send" /\ (st = "importing" <=> txs # <<>>)
        /\ stage' = [stage EXCEPT ![n] = st]
    BY <2>1, <2>4 DEF Stages
  <2> QED
    BY <1>1, <1>3, <2>1, <2>2, <2>3, <2>5, <2>6, MoveKeepsQueues
\* Requests.
<1>7. ASSUME NEW n \in Nodes, NEW tx \in Txs, Crawl(n, tx) \/ Post(n, tx) PROVE QueuesOK'
  BY <1>1, <1>7, HandlerKeepsQueues DEF Crawl, Post, Handle
<1>8. ASSUME NEW request \in transit, HandleLate(request) PROVE QueuesOK'
  BY <1>1, <1>8, HandledTypes, HandlerKeepsQueues DEF HandleLate, Handle
\* The worker.
<1>9. ASSUME NEW n \in Nodes, NEW p \in Nodes,
             SendAnswered(n, p) \/ SendTimesOut(n, p) \/ SendRefused(n, p)
      PROVE  QueuesOK'
  <2>1. /\ stage[n] = "send" /\ p \in targets[n] /\ Advance(n, p) /\ UNCHANGED incoming
        /\ Gossip(p, Head(batch[n])) \/ UNCHANGED <<queue, seen>>
    BY <1>9 DEF SendAnswered, SendTimesOut, SendRefused, Handle
  <2>2. Head(batch[n]) \in Txs
    BY <2>1, HandledTypes
  <2>3. /\ DOMAIN queue' = Nodes /\ DOMAIN seen' = Nodes
        /\ \A m \in Nodes :
             QueueOK(stage[m], queue'[m], seen'[m], batch[m], targets[m], incoming[m], sent[m])
    BY <1>1, <2>1, <2>2, HandleKeepsQueues
  <2>4. DOMAIN peers'[n] \subseteq Nodes
    BY <1>1 DEF RowsOK, RowOK
  <2> QED
    BY <1>1, <2>1, <2>3, <2>4, AdvanceKeepsQueues
<1>10. ASSUME NEW n \in Nodes, NEW p \in Nodes,
              PingAnswered(n, p) \/ PingTimesOut(n, p) \/ PingRefused(n, p)
       PROVE  QueuesOK'
  <2>1. PICK st \in {"flush", "ping"} : stage' = [stage EXCEPT ![n] = st]
    BY <1>10 DEF PingAnswered, PingTimesOut, PingRefused, Pinged
  <2>2. PICK t : t = targets[n] \ {p}
    OBVIOUS
  <2>3. /\ stage[n] = "ping" /\ targets' = [targets EXCEPT ![n] = t]
        /\ UNCHANGED <<queue, seen, batch, incoming, sent>>
    BY <1>10, <2>2 DEF PingAnswered, PingTimesOut, PingRefused, Pinged
  <2>4. /\ st \in Stages /\ st # "send" /\ st # "importing" /\ incoming[n] = <<>>
        /\ t \in SUBSET Nodes
    BY <1>3, <2>2, <2>3 DEF Stages
  <2> QED
    BY <1>1, <1>3, <2>1, <2>3, <2>4, MoveKeepsQueues
<1>11. ASSUME NEW n \in Nodes, Worker(n) PROVE QueuesOK'
  BY <1>1, <1>9, <1>10, <1>11, FlushKeepsQueues DEF Worker
<1>12. ASSUME NEW n \in Nodes, Crash(n) PROVE QueuesOK'
  <2>1. /\ stage' = [stage EXCEPT ![n] = "down"] /\ queue' = [queue EXCEPT ![n] = <<>>]
        /\ seen' = [seen EXCEPT ![n] = {}] /\ batch' = [batch EXCEPT ![n] = <<>>]
        /\ targets' = [targets EXCEPT ![n] = {}] /\ incoming' = [incoming EXCEPT ![n] = <<>>]
        /\ sent' = [sent EXCEPT ![n] = NothingSent]
    BY <1>12 DEF Crash
  <2> HIDE DEF NothingSent
  <2>2. /\ stage' \in [Nodes -> Stages]
        /\ DOMAIN queue' = Nodes /\ DOMAIN seen' = Nodes /\ DOMAIN batch' = Nodes
        /\ DOMAIN targets' = Nodes /\ DOMAIN incoming' = Nodes /\ DOMAIN sent' = Nodes
    BY <1>1, <2>1 DEF QueuesOK, Stages
  <2>3. \A m \in Nodes :
          QueueOK(stage'[m], queue'[m], seen'[m], batch'[m], targets'[m], incoming'[m], sent'[m])
    BY <1>1, <1>3, <2>1, EmptyOK DEF QueuesOK
  <2> QED
    BY <2>2, <2>3, NodeByNode
<1>13. ASSUME NEW n \in Nodes, NEW p \in Nodes, AddPeer(n, p) PROVE QueuesOK'
  BY <1>2, <1>13 DEF AddPeer
<1>14. CASE UNCHANGED vars
  BY <1>2, <1>14 DEF vars, netvars
<1> QED
  BY <1>4, <1>5, <1>6, <1>7, <1>8, <1>11, <1>12, <1>13, <1>14 DEF Next

LEMMA StepTransit == IInv /\ [Next]_vars => transit' \subseteq Requests
<1> SUFFICES ASSUME IInv, [Next]_vars PROVE transit' \subseteq Requests
  OBVIOUS
<1>1. ASSUME transit' \subseteq transit PROVE transit' \subseteq Requests
  BY <1>1 DEF IInv
<1>2. ASSUME NEW n \in Nodes, NEW p \in Nodes, SendTimesOut(n, p) PROVE transit' \subseteq Requests
  BY <1>2, HandledTypes DEF SendTimesOut, Requests, IInv
<1>3. ASSUME NEW n \in Nodes, Worker(n) PROVE transit' \subseteq Requests
  BY <1>1, <1>2, <1>3 DEF Worker, FlushQueue, SendAnswered, SendRefused, PingAnswered,
                          PingTimesOut, PingRefused, Pinged
<1>4. ASSUME NEW n \in Nodes, \/ Boot(n) \/ SyncFromSeed(n) \/ SyncFails(n) \/ ImportNext(n)
                              \/ Crash(n)
      PROVE  transit' \subseteq Requests
  BY <1>1, <1>4 DEF Boot, SyncFromSeed, SyncFails, ImportNext, Crash
<1>5. ASSUME NEW n \in Nodes, \/ \E tx \in Txs : Crawl(n, tx) \/ Post(n, tx)
                              \/ \E p \in Nodes : AddPeer(n, p)
      PROVE  transit' \subseteq Requests
  BY <1>1, <1>5 DEF Crawl, Post, AddPeer
<1>6. ASSUME NEW request \in transit, HandleLate(request) PROVE transit' \subseteq Requests
  BY <1>1, <1>6 DEF HandleLate
<1>7. CASE UNCHANGED vars
  BY <1>1, <1>7 DEF vars, netvars
<1> QED
  BY <1>3, <1>4, <1>5, <1>6, <1>7 DEF Next

-----------------------------------------------------------------------------
(* The theorems. *)

LEMMA InitInv == Init => IInv
<1> SUFFICES ASSUME Init PROVE IInv
  OBVIOUS
<1> DEFINE f == Fresh({})
<1>1. f \in ChainStates /\ f.auth = {} /\ f.blocks = <<>>
  BY DEF Fresh, ChainStates
<1>2. Tip(f) = <<>>
  BY <1>1 DEF Tip, GENESIS
<1> HIDE DEF f
<1>3. AuthoritySound(f)
  BY <1>1, <1>2 DEF AuthoritySound
<1>4. IsPrefix(Tip(f), Tip(f))
  BY <1>1, TipIsHistory, PrefixIsReflexive
<1>5. ChainOK(f, f)
  BY <1>1, <1>3, <1>4 DEF ChainOK
<1>6. chain = [n \in Nodes |-> f] /\ disk = [n \in Nodes |-> f]
  BY DEF Init, f
<1>7. ChainsOK
  BY <1>1, <1>5, <1>6 DEF ChainsOK
<1>8. RowsOK
  <2>1. \A n \in Nodes : RowOK(n, <<>>, [p \in Nodes |-> 0])
    BY BoundsAssumption DEF RowOK
  <2> QED
    BY <2>1 DEF Init, RowsOK
<1>9. QueuesOK
  <2> HIDE DEF NothingSent
  <2> QED
    BY EmptyOK DEF Init, QueuesOK, Stages
<1> QED
  BY <1>7, <1>8, <1>9 DEF Init, IInv

LEMMA StepInv == IInv /\ [Next]_vars => IInv'
<1> SUFFICES ASSUME IInv, [Next]_vars PROVE IInv'
  OBVIOUS
<1>1. ChainsOK'
  BY StepChains
<1>2. RowsOK'
  BY StepRows DEF RowsStep
<1>3. QueuesOK'
  BY StepQueues
<1>4. (transit \subseteq Requests)'
  BY StepTransit DEF Requests
<1> QED
  BY <1>1, <1>2, <1>3, <1>4 DEF IInv

\* The bookkeeping of every node keeps its type, whatever is lost or late.
THEOREM TypeCorrect == Spec => []TypeOK
<1>1. IInv => TypeOK
  <2> SUFFICES ASSUME IInv PROVE TypeOK
    OBVIOUS
  <2>1. /\ stage \in [Nodes -> Stages]
        /\ \A n \in Nodes : /\ RowOK(n, peers[n], missed[n])
                            /\ QueueOK(stage[n], queue[n], seen[n], batch[n], targets[n],
                                       incoming[n], sent[n])
    BY DEF IInv, RowsOK, QueuesOK
  <2> QED
    BY <2>1 DEF TypeOK, RowOK, QueueOK, Stages
<1> QED
  BY <1>1, InitInv, StepInv, PTL DEF Spec

\* Whatever times out, echoes back or is posted again, no process sends a transaction
\* to a peer twice (p2p.py:219).
THEOREM SentAtMostOnce == Spec => []SentOnce
<1>1. IInv => SentOnce
  BY DEF IInv, QueuesOK, QueueOK, SentOnce
<1> QED
  BY <1>1, InitInv, StepInv, PTL DEF Spec

\* No import, late handler or restart puts a commit without authority on any node's
\* chain (chain.py:185).
THEOREM AuthorityIsEverywhere == Spec => []AuthorityEverywhere
<1>1. IInv => AuthorityEverywhere
  BY DEF IInv, ChainsOK, ChainOK, AuthorityEverywhere
<1> QED
  BY <1>1, InitInv, StepInv, PTL DEF Spec

\* A node's file is always a prefix of the chain that it serves (chain.py:93, 199).
THEOREM DiskAlwaysPrefix == Spec => []DiskIsPrefix
<1>1. IInv => DiskIsPrefix
  BY DEF IInv, ChainsOK, ChainOK, DiskIsPrefix
<1> QED
  BY <1>1, InitInv, StepInv, PTL DEF Spec

\* Every peer that is dropped missed max_failed_pings requests in a row
\* (p2p.py:132, 256).
THEOREM PeersDroppedAfterRow == Spec => DroppedAfterRow
<1>1. IInv /\ [Next]_vars =>
        [\A n \in Nodes : \A p \in DOMAIN peers[n] \ DOMAIN peers'[n] :
           missed'[n][p] >= MaxFailedPings]_vars
  BY StepRows DEF RowsStep
<1> QED
  BY <1>1, InitInv, StepInv, PTL DEF Spec, DroppedAfterRow
=============================================================================
