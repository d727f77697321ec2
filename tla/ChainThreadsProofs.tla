------------------------- MODULE ChainThreadsProofs -------------------------
(***************************************************************************)
(* Proofs about ChainThreads for any threads, transactions and bounds:     *)
(* first what holds however calls overlap, then what holds as long as they *)
(* do not.                                                                 *)
(***************************************************************************)
EXTENDS ChainThreads, TLAPS, SequenceTheorems, FiniteSetTheorems

-----------------------------------------------------------------------------
(* Sequences: one entry more. *)

\* An entry more.
LEMMA AppendEntry ==
  ASSUME NEW S, NEW q \in Seq(S), NEW e \in S
  PROVE  /\ Append(q, e) \in Seq(S)
         /\ Append(q, e) # <<>>
         /\ Range(Append(q, e)) = Range(q) \cup {e}
         /\ IsInjective(q) /\ e \notin Range(q) => IsInjective(Append(q, e))
<1> DEFINE r == Append(q, e)
<1>1. /\ r \in Seq(S) /\ Len(r) = Len(q) + 1 /\ Len(q) \in Nat
      /\ \A i \in 1..Len(q) : r[i] = q[i]
      /\ r[Len(q) + 1] = e
      /\ DOMAIN r = 1..(Len(q) + 1) /\ DOMAIN q = 1..Len(q)
  OBVIOUS
<1> HIDE DEF r
<1>2. Range(r) = Range(q) \cup {e}
  BY <1>1 DEF Range
<1>3. ASSUME IsInjective(q), e \notin Range(q)
      PROVE  IsInjective(r)
  BY <1>1, <1>3 DEF Range, IsInjective
<1> QED
  BY <1>1, <1>2, <1>3 DEF r

\* Where an entry stands, also once another is appended.
Positions(q, x) == {i \in DOMAIN q : q[i] = x}

\* r is q and one entry more, e.
OneMore(q, e, r) ==
  /\ r # <<>> /\ Len(q) \in Nat /\ Len(r) = Len(q) + 1
  /\ DOMAIN q = 1..Len(q) /\ DOMAIN r = 1..(Len(q) + 1)
  /\ \A i \in 1..Len(q) : r[i] = q[i]
  /\ r[Len(q) + 1] = e
  /\ Positions(r, e) = Positions(q, e) \cup {Len(q) + 1}
  /\ \A x : x # e => Positions(r, x) = Positions(q, x)
  /\ Len(q) + 1 \notin DOMAIN q

LEMMA AppendPositions ==
  ASSUME NEW S, NEW q \in Seq(S), NEW e \in S
  PROVE  Append(q, e) \in Seq(S) /\ OneMore(q, e, Append(q, e))
<1> DEFINE r == Append(q, e)
<1>1. /\ r \in Seq(S) /\ Len(r) = Len(q) + 1 /\ Len(q) \in Nat
      /\ \A i \in 1..Len(q) : r[i] = q[i]
      /\ r[Len(q) + 1] = e
      /\ DOMAIN r = 1..(Len(q) + 1) /\ DOMAIN q = 1..Len(q)
  OBVIOUS
<1> HIDE DEF r
<1>2. r # <<>>
  BY <1>1
<1>3. \A i \in DOMAIN r : i \in DOMAIN q \/ i = Len(q) + 1
  BY <1>1
<1>4. Len(q) + 1 \notin DOMAIN q
  BY <1>1
<1>5. /\ Positions(r, e) = Positions(q, e) \cup {Len(q) + 1}
      /\ \A x : x # e => Positions(r, x) = Positions(q, x)
  BY <1>1, <1>3, <1>4 DEF Positions
<1> QED
  BY <1>1, <1>2, <1>4, <1>5 DEF OneMore, r

\* The empty sequence has no entries.
LEMMA NoEntries == Range(<<>>) = {} /\ IsInjective(<<>>)
  BY DEF Range, IsInjective

-----------------------------------------------------------------------------
(* The rules, for a chain without configured validators. *)

\* The lemmas of AppChainProofs about the rules are about no chain in particular: this is an
\* instance of them for a chain without configured validators that is as at first.
R == INSTANCE AppChainProofs WITH
  KeepBlocks <- {1}, MaxCommits <- 0, MaxEvents <- 0, MaxImport <- 0, MaxRestarts <- 0,
  validators <- {}, chain <- Fresh({}), disk <- Fresh({}), importing <- 0, batch <- FALSE,
  restarts <- 0, pruned <- FALSE, barred <- {}

LEMMA RulesAgree ==
  /\ Txs \subseteq R!TxRecords
  /\ ChainStates = R!ChainStates
  /\ \A c : Tip(c) = R!Tip(c) /\ (AuthoritySound(c) <=> R!AuthoritySound(c))
  /\ \A c : LinkedChain(c) <=> R!LinkedChain(c)
  /\ \A c, tx : Outcome(c, tx) = R!Outcome(c, tx)
  /\ \A c, tx, code : Effect(c, tx, code) = R!Effect(c, tx, code)
<1>1. Txs \subseteq R!TxRecords
  BY ServerTxsAssumption DEF TxRecords, R!TxRecords, TxTypes, R!TxTypes
<1>2. ChainStates = R!ChainStates
  BY DEF ChainStates, R!ChainStates, Levels, R!Levels
<1>3. \A c : Tip(c) = R!Tip(c)
  BY DEF Tip, R!Tip, GENESIS, R!GENESIS
<1>4. \A tx : MayAuthenticate(tx) <=> R!MayAuthenticate(tx)
  BY DEF MayAuthenticate, R!MayAuthenticate
<1>5. \A c : AuthoritySound(c) <=> R!AuthoritySound(c)
  BY <1>3, <1>4 DEF AuthoritySound, R!AuthoritySound, Introduced, R!Introduced
<1>6. \A c : LinkedChain(c) <=> R!LinkedChain(c)
  BY DEF LinkedChain, R!LinkedChain, GENESIS, R!GENESIS, Sha256, R!Sha256, Last, R!Last
<1>7. \A c, tx : Outcome(c, tx) = R!Outcome(c, tx)
  BY <1>4 DEF Outcome, R!Outcome, Whitelisted, R!Whitelisted, BinaryApproved, R!BinaryApproved
<1>8. \A c, tx, code : Effect(c, tx, code) = R!Effect(c, tx, code)
  <2>1. \A c, tx : AppendBlock(c, tx) = R!AppendBlock(c, tx)
    BY <1>3 DEF AppendBlock, R!AppendBlock, Sha256, R!Sha256
  <2>2. \A c, tx, code : /\ AuthAfter(c, tx, code) = R!AuthAfter(c, tx, code)
                         /\ RootsAfter(c, tx, code) = R!RootsAfter(c, tx, code)
    BY DEF AuthAfter, R!AuthAfter, RootsAfter, R!RootsAfter, Excluding, R!Excluding
  <2> QED
    BY <2>1, <2>2, Zenon DEF Effect, R!Effect, Committing, R!Committing
<1> QED
  BY <1>1, <1>2, <1>3, <1>5, <1>6, <1>7, <1>8

LEMMA TipIsHistory ==
  ASSUME NEW c \in ChainStates
  PROVE  Tip(c) \in Seq(Txs)
  BY RulesAgree, R!TipType

\* A commit appends the digest of its transaction, and the transaction.
LEMMA CommitShape ==
  ASSUME NEW c \in ChainStates, NEW tx \in Txs, NEW code \in Committing
  PROVE  /\ Effect(c, tx, code).blocks = Append(c.blocks, Append(Tip(c), tx))
         /\ Effect(c, tx, code).raw = Append(c.raw, tx)
         /\ Effect(c, tx, code).auth = AuthAfter(c, tx, code)
<1> DEFINE as == AuthAfter(c, tx, code)
           rs == RootsAfter(c, tx, code)
           d == [c EXCEPT !.auth = as, !.roots = rs]
<1>1. Effect(c, tx, code) = AppendBlock(d, tx)
  BY DEF Effect
<1> HIDE DEF as, rs
<1>2. d.blocks = c.blocks /\ d.raw = c.raw /\ d.auth = as /\ DOMAIN d = DOMAIN c
  BY DEF ChainStates
<1>3. Tip(d) = Tip(c)
  BY <1>2 DEF Tip
<1>4. AppendBlock(d, tx) = [d EXCEPT !.blocks = Append(d.blocks, Append(Tip(d), tx)),
                                     !.raw = Append(d.raw, tx)]
  BY DEF AppendBlock, Sha256
<1>5. {"auth", "blocks", "raw"} \subseteq DOMAIN d
  BY <1>2 DEF ChainStates
<1> HIDE DEF d
<1> DEFINE bs == Append(d.blocks, Append(Tip(d), tx))
           ts == Append(d.raw, tx)
<1>6. AppendBlock(d, tx) = [d EXCEPT !.blocks = bs, !.raw = ts]
  BY <1>4
<1> HIDE DEF bs, ts
<1>7. AppendBlock(d, tx).blocks = bs /\ AppendBlock(d, tx).raw = ts /\ AppendBlock(d, tx).auth = d.auth
  BY <1>5, <1>6
<1> QED
  BY <1>1, <1>2, <1>3, <1>7 DEF as, bs, ts

-----------------------------------------------------------------------------
(* Trees of blocks. *)

Width == Cardinality(Threads)

Kids(c, h) == Cardinality(Children(c, h))

Bearing(c, h) == Cardinality(Bearers(c, h))

\* Blocks link to earlier ones, and each thread may have used every bearer of a hash
\* once; none has used the last block yet.
TreeOK(c) ==
  /\ \A i \in DOMAIN c.blocks : \E j \in Bearers(c, Parent(c, i)) : j < i
  /\ \A h : Kids(c, h) <= Width * Bearing(c, h)
  /\ Kids(c, Tip(c)) + Width <= Width * Bearing(c, Tip(c))

LEMMA WidthType == Width \in Nat /\ Width >= 1
<1>1. Width \in Nat /\ (Width = 0 <=> Threads = {})
  BY ThreadsAssumption, FS_CardinalityType, FS_EmptySet DEF Width
<1> QED
  BY <1>1, ThreadsAssumption

\* The hash that a new block links to is its parent.
LEMMA ParentOfDigest ==
  ASSUME NEW p \in Seq(Txs), NEW tx \in Txs
  PROVE  /\ Append(p, tx) \in Seq(Txs) /\ Append(p, tx) # GENESIS /\ Append(p, tx) # p
         /\ Front(Append(p, tx)) = p /\ Last(Append(p, tx)) = tx
<1> DEFINE q == Append(p, tx)
<1>1. /\ q \in Seq(Txs) /\ Len(q) = Len(p) + 1 /\ Len(p) \in Nat
      /\ \A i \in 1..Len(p) : q[i] = p[i]
      /\ q[Len(p) + 1] = tx
  OBVIOUS
<1> HIDE DEF q
<1>2. Front(q) = [i \in 1..Len(p) |-> q[i]]
  BY <1>1 DEF Front
<1>3. p = [i \in 1..Len(p) |-> p[i]]
  OBVIOUS
<1>4. Front(q) = p
  BY <1>1, <1>2, <1>3
<1>5. Last(q) = tx /\ q # <<>>
  BY <1>1 DEF Last
<1> QED
  BY <1>1, <1>4, <1>5 DEF GENESIS, q

LEMMA TreeFinite ==
  ASSUME NEW c, c.blocks \in Seq(Seq(Txs)), NEW h
  PROVE  /\ IsFiniteSet(Children(c, h)) /\ Kids(c, h) \in Nat
         /\ IsFiniteSet(Bearers(c, h)) /\ Bearing(c, h) \in Nat
         /\ Children(c, h) \subseteq 1..Len(c.blocks)
         /\ Bearers(c, h) \subseteq 0..Len(c.blocks)
<1>1. /\ Children(c, h) \subseteq 1..Len(c.blocks)
      /\ Bearers(c, h) \subseteq 0..Len(c.blocks)
      /\ Len(c.blocks) \in Nat
  BY DEF Children, Bearers
<1>2. IsFiniteSet(1..Len(c.blocks)) /\ IsFiniteSet(0..Len(c.blocks))
  BY <1>1, FS_Interval
<1>3. IsFiniteSet(Children(c, h)) /\ IsFiniteSet(Bearers(c, h))
  BY <1>1, <1>2, FS_Subset
<1> QED
  BY <1>1, <1>3, FS_CardinalityType DEF Kids, Bearing

\* Trees are about blocks only.
LEMMA TreeSame ==
  ASSUME NEW c, NEW d, d.blocks = c.blocks
  PROVE  /\ TreeOK(c) => TreeOK(d)
         /\ \A h : Children(d, h) = Children(c, h) /\ Bearers(d, h) = Bearers(c, h)
         /\ \A h : Kids(d, h) = Kids(c, h) /\ Bearing(d, h) = Bearing(c, h)
<1>1. \A h : Children(d, h) = Children(c, h) /\ Bearers(d, h) = Bearers(c, h)
  BY DEF Children, Bearers, Parent
<1>2. \A i : Parent(d, i) = Parent(c, i)
  BY DEF Parent
<1>3. Tip(d) = Tip(c)
  BY DEF Tip
<1>4. \A h : Kids(d, h) = Kids(c, h) /\ Bearing(d, h) = Bearing(c, h)
  BY <1>1 DEF Kids, Bearing
<1>5. TreeOK(c) => TreeOK(d)
  BY <1>1, <1>2, <1>3, <1>4 DEF TreeOK
<1> QED
  BY <1>1, <1>4, <1>5

\* d has one block more than c: q, whose parent is p.
Grown(c, d, p, q) ==
  /\ d.blocks \in Seq(Seq(Txs)) /\ Tip(d) = q
  /\ \A i \in DOMAIN d.blocks :
       /\ i \in DOMAIN c.blocks => Parent(d, i) = Parent(c, i)
       /\ i \notin DOMAIN c.blocks => Parent(d, i) = p /\ i = Len(c.blocks) + 1
  /\ \A h : /\ Kids(d, h) = Kids(c, h) + (IF h = p THEN 1 ELSE 0)
            /\ Bearing(d, h) = Bearing(c, h) + (IF h = q THEN 1 ELSE 0)
            /\ Bearers(c, h) \subseteq Bearers(d, h)

LEMMA BlockMore ==
  ASSUME NEW c, NEW d, c.blocks \in Seq(Seq(Txs)), NEW p \in Seq(Txs), NEW q \in Seq(Txs),
         q # GENESIS, Front(q) = p, d.blocks = Append(c.blocks, q)
  PROVE  Grown(c, d, p, q)
<1> DEFINE n == Len(c.blocks)
<1>1. /\ d.blocks \in Seq(Seq(Txs)) /\ d.blocks # <<>> /\ n \in Nat
      /\ DOMAIN c.blocks = 1..n /\ DOMAIN d.blocks = 1..(n + 1)
      /\ \A i \in 1..n : d.blocks[i] = c.blocks[i]
      /\ d.blocks[n + 1] = q /\ d.blocks[Len(d.blocks)] = q
      /\ Positions(d.blocks, q) = Positions(c.blocks, q) \cup {n + 1}
      /\ \A x : x # q => Positions(d.blocks, x) = Positions(c.blocks, x)
      /\ n + 1 \notin DOMAIN c.blocks
  <2>1. d.blocks \in Seq(Seq(Txs)) /\ OneMore(c.blocks, q, d.blocks)
    BY AppendPositions
  <2> QED
    BY <2>1 DEF OneMore
<1> HIDE DEF n
<1>2. Tip(d) = q
  BY <1>1 DEF Tip
<1>3. \A i \in DOMAIN d.blocks : i \in DOMAIN c.blocks \/ i = n + 1
  BY <1>1
<1>4. \A i \in DOMAIN d.blocks :
        /\ i \in DOMAIN c.blocks => Parent(d, i) = Parent(c, i)
        /\ i \notin DOMAIN c.blocks => Parent(d, i) = p
  BY <1>1, <1>3 DEF Parent
<1>5. ASSUME NEW h
      PROVE  /\ Kids(d, h) = Kids(c, h) + (IF h = p THEN 1 ELSE 0)
             /\ Bearing(d, h) = Bearing(c, h) + (IF h = q THEN 1 ELSE 0)
             /\ Bearers(c, h) \subseteq Bearers(d, h)
  <2>1. /\ Children(d, h) = IF h = p THEN Children(c, h) \cup {n + 1} ELSE Children(c, h)
        /\ n + 1 \notin Children(c, h)
    <3>1. \A i \in DOMAIN c.blocks : i \in DOMAIN d.blocks
      BY <1>1
    <3>2. n + 1 \in DOMAIN d.blocks
      BY <1>1
    <3> QED
      BY <1>1, <1>3, <1>4, <3>1, <3>2 DEF Children
  <2>2. /\ Bearers(d, h) = IF h = q THEN Bearers(c, h) \cup {n + 1} ELSE Bearers(c, h)
        /\ n + 1 \notin Bearers(c, h)
    <3> DEFINE root == IF h = GENESIS THEN {0} ELSE {}
    <3>1. n + 1 \notin root
      BY <1>1
    <3>2. /\ Bearers(c, h) = Positions(c.blocks, h) \cup root
          /\ Bearers(d, h) = Positions(d.blocks, h) \cup root
      BY DEF Bearers, Positions
    <3> HIDE DEF root
    <3>3. n + 1 \notin Positions(c.blocks, h)
      BY <1>1 DEF Positions
    <3>4. CASE h = q
      BY <1>1, <3>1, <3>2, <3>3, <3>4
    <3>5. CASE h # q
      BY <1>1, <3>1, <3>2, <3>3, <3>5
    <3> QED
      BY <3>4, <3>5
  <2>3. /\ IsFiniteSet(Children(c, h)) /\ Kids(c, h) \in Nat
        /\ IsFiniteSet(Bearers(c, h)) /\ Bearing(c, h) \in Nat
    BY TreeFinite
  <2>4. Kids(d, h) = Kids(c, h) + (IF h = p THEN 1 ELSE 0)
    <3>1. Cardinality(Children(c, h) \cup {n + 1}) = Cardinality(Children(c, h)) + 1
      BY <2>1, <2>3, FS_AddElement
    <3> QED
      BY <2>1, <2>3, <3>1 DEF Kids
  <2>5. Bearing(d, h) = Bearing(c, h) + (IF h = q THEN 1 ELSE 0)
    <3>1. Cardinality(Bearers(c, h) \cup {n + 1}) = Cardinality(Bearers(c, h)) + 1
      BY <2>2, <2>3, FS_AddElement
    <3> QED
      BY <2>2, <2>3, <3>1 DEF Bearing
  <2> QED
    BY <2>2, <2>4, <2>5
<1> QED
  BY <1>1, <1>2, <1>3, <1>4, <1>5 DEF Grown, n

\* A block may be linked to a hash that a thread may still use.
LEMMA TreeGrows ==
  ASSUME NEW c, NEW d, c.blocks \in Seq(Seq(Txs)), NEW p \in Seq(Txs), NEW q \in Seq(Txs),
         q # GENESIS, Front(q) = p, q # p, d.blocks = Append(c.blocks, q),
         TreeOK(c), Bearers(c, p) # {}, Kids(c, p) + 1 <= Width * Bearing(c, p)
  PROVE  TreeOK(d)
<1>1. Grown(c, d, p, q)
  BY BlockMore
<1>2. /\ d.blocks \in Seq(Seq(Txs)) /\ Tip(d) = q
      /\ \A i \in DOMAIN d.blocks :
           /\ i \in DOMAIN c.blocks => Parent(d, i) = Parent(c, i)
           /\ i \notin DOMAIN c.blocks => Parent(d, i) = p /\ i = Len(c.blocks) + 1
      /\ \A h : /\ Kids(d, h) = Kids(c, h) + (IF h = p THEN 1 ELSE 0)
                /\ Bearing(d, h) = Bearing(c, h) + (IF h = q THEN 1 ELSE 0)
                /\ Bearers(c, h) \subseteq Bearers(d, h)
  BY <1>1 DEF Grown
<1>3. \A h : /\ Kids(c, h) \in Nat /\ Bearing(c, h) \in Nat
             /\ Bearers(c, h) \subseteq 0..Len(c.blocks)
  BY TreeFinite
<1>4. Width \in Nat
  BY WidthType
<1>5. \A b \in Nat : Width * (b + 1) = Width * b + Width /\ Width * b \in Nat
  BY <1>4
<1>6. ASSUME NEW h PROVE Kids(d, h) <= Width * Bearing(d, h)
  <2>1. Kids(c, h) <= Width * Bearing(c, h)
    BY DEF TreeOK
  <2>2. CASE h = p
    <3>1. Kids(d, p) = Kids(c, p) + 1 /\ Bearing(d, p) = Bearing(c, p)
      BY <1>2, <1>3
    <3> QED
      BY <2>2, <3>1
  <2>3. CASE h # p /\ h # q
    BY <1>2, <1>3, <2>1, <2>3
  <2>4. CASE h = q
    <3>1. Kids(d, h) = Kids(c, h) /\ Bearing(d, h) = Bearing(c, h) + 1
      BY <1>2, <1>3, <2>4
    <3> QED
      BY <1>3, <1>4, <1>5, <2>1, <3>1
  <2> QED
    BY <2>2, <2>3, <2>4
<1>7. Kids(d, Tip(d)) + Width <= Width * Bearing(d, Tip(d))
  <2>1. Kids(c, q) <= Width * Bearing(c, q)
    BY DEF TreeOK
  <2>2. Kids(d, q) = Kids(c, q) /\ Bearing(d, q) = Bearing(c, q) + 1
    BY <1>2, <1>3
  <2> QED
    BY <1>2, <1>3, <1>4, <1>5, <2>1, <2>2
<1>8. ASSUME NEW i \in DOMAIN d.blocks PROVE \E j \in Bearers(d, Parent(d, i)) : j < i
  <2>1. CASE i \in DOMAIN c.blocks
    <3>1. Parent(d, i) = Parent(c, i)
      BY <1>2, <2>1
    <3>2. \E j \in Bearers(c, Parent(c, i)) : j < i
      BY <2>1 DEF TreeOK
    <3> QED
      BY <1>2, <3>1, <3>2
  <2>2. CASE i \notin DOMAIN c.blocks
    <3>1. Parent(d, i) = p /\ i = Len(c.blocks) + 1
      BY <1>2, <2>2
    <3>2. PICK j : j \in Bearers(c, p)
      OBVIOUS
    <3>3. j \in 0..Len(c.blocks) /\ j \in Bearers(d, p)
      BY <1>2, <1>3, <3>2
    <3> QED
      BY <3>1, <3>3
  <2> QED
    BY <2>1, <2>2
<1> QED
  BY <1>6, <1>7, <1>8 DEF TreeOK

\* The empty tree, of an object or a copy that was just made.
LEMMA TreeStarts ==
  ASSUME NEW c, c.blocks = <<>>
  PROVE  TreeOK(c)
<1>1. Tip(c) = GENESIS
  BY DEF Tip
<1>2. \A h : Children(c, h) = {} /\ Bearers(c, h) = IF h = GENESIS THEN {0} ELSE {}
  BY DEF Children, Bearers
<1>3. \A h : Kids(c, h) = 0 /\ Bearing(c, h) = IF h = GENESIS THEN 1 ELSE 0
  BY <1>2, FS_EmptySet, FS_Singleton DEF Kids, Bearing
<1> QED
  BY <1>1, <1>3, WidthType DEF TreeOK

-----------------------------------------------------------------------------
(* What the processes keep, however calls overlap. *)

Codes ==
  Committing \cup Excluding \cup
  {"", "bad_signature", "validator_rejected", "sender_not_authenticated", "unknown_transaction_type"}

Sizes == {Cardinality(A) : A \in SUBSET Nodes} \cup {0}

Calls ==
  [at : Labels, tx : Txs, code : Codes, prev : Seq(Txs), size : Sizes,
   copy : ChainStates, field : 0..5, fd : Nat]

\* A call that may have one of n inodes open.
CallOK(r, n) ==
  /\ r \in Calls /\ r.fd \in 0..n
  /\ r.at = "copy" => r.field \in 1..4
  /\ r.at = "write" => r.fd # 0
  /\ TreeOK(r.copy)

FileTexts == [kind : {"empty", "torn", "json"}, c : ChainStates]

FilesOK(is, ns) ==
  /\ is \in Seq(FileTexts) /\ ns \in [state : 1..Len(is), tmp : 0..Len(is)]
  /\ \A i \in DOMAIN is : TreeOK(is[i].c)

\* The threads that will link a block to hash h.
Holders(ts, h) == {t \in Threads : ts[t].at = "block" /\ ts[t].prev = h}

\* Blocks are linked to a hash by threads that read it.
ForksOK(c, ts) ==
  /\ TreeOK(c)
  /\ \A h : Kids(c, h) + Cardinality(Holders(ts, h)) <= Width * Bearing(c, h)
  /\ \A t \in Threads : ts[t].at = "block" => Bearers(c, ts[t].prev) # {}

QueueOK ==
  /\ queue \in Seq(Txs) /\ Range(queue) = seen /\ IsInjective(queue)
  /\ answered \in Seq(Txs)

IInv ==
  /\ up \in BOOLEAN /\ mem \in ChainStates /\ QueueOK
  /\ thread \in [Threads -> Calls] /\ \A t \in Threads : CallOK(thread[t], Len(inodes))
  /\ FilesOK(inodes, names)
  /\ ForksOK(mem, thread)

LEMMA FreshOK == Fresh({}) \in ChainStates /\ TreeOK(Fresh({}))
<1>1. Fresh({}) \in ChainStates /\ Fresh({}).blocks = <<>>
  BY EmptySeq DEF Fresh, ChainStates
<1> QED
  BY <1>1, TreeStarts

LEMMA IdleOK ==
  ASSUME NEW n \in Nat
  PROVE  Idle \in Calls /\ CallOK(Idle, n) /\ Idle.at = "idle"
<1> DEFINE f == Fresh({})
<1>1. f \in ChainStates /\ TreeOK(f)
  BY FreshOK
<1>2. Idle = [at |-> "idle", tx |-> BootTx, code |-> "", prev |-> GENESIS,
              size |-> 0, copy |-> f, field |-> 0, fd |-> 0]
  BY DEF Idle
<1> HIDE DEF f
<1>3. GENESIS \in Seq(Txs) /\ BootTx \in Txs
  BY EmptySeq, BootAssumption DEF GENESIS
<1>a. "idle" \in Labels /\ "" \in Codes /\ 0 \in Sizes /\ 0 \in 0..5 /\ 0 \in Nat
  BY DEF Labels, Codes, Sizes
<1> HIDE DEF GENESIS, Labels, Codes, Sizes
<1>4. Idle \in Calls
  BY <1>a, <1>1, <1>2, <1>3 DEF Calls
<1>5. Idle.at = "idle" /\ Idle.fd = 0 /\ Idle.copy = f
  BY <1>2
<1> QED
  BY <1>1, <1>4, <1>5 DEF CallOK

\* A start from a file that holds chain c.
LEMMA BootOK ==
  ASSUME NEW c \in ChainStates, TreeOK(c)
  PROVE  /\ Booted(c) \in ChainStates /\ LoggedBoot(c) \in ChainStates
         /\ TreeOK(Booted(c)) /\ TreeOK(LoggedBoot(c))
         /\ LoggedBoot(c).auth = Booted(c).auth /\ LoggedBoot(c).blocks = Booted(c).blocks
         /\ LoggedBoot(c).raw = Booted(c).raw
<1> DEFINE d == Effect(c, BootTx, "node_authenticated")
<1>1. BootTx \in Txs /\ "node_authenticated" \in Committing
  BY BootAssumption DEF Committing
<1>2. d \in ChainStates
  <2>1. R!Effect(c, BootTx, "node_authenticated") \in R!ChainStates
    BY <1>1, RulesAgree, R!EffectType
  <2> QED
    BY <2>1, RulesAgree
<1>3. TreeOK(d)
  <2> DEFINE p == Tip(c)
             q == Append(p, BootTx)
  <2>1. d.blocks = Append(c.blocks, q)
    BY <1>1, CommitShape
  <2>2. p \in Seq(Txs)
    BY TipIsHistory
  <2> HIDE DEF p, d
  <2>3. q \in Seq(Txs) /\ q # GENESIS /\ Front(q) = p /\ q # p
    BY <1>1, <2>2, ParentOfDigest
  <2> HIDE DEF q
  <2>4. Kids(c, p) + Width <= Width * Bearing(c, p)
    BY DEF TreeOK, p
  <2>5. /\ Kids(c, p) \in Nat /\ Bearing(c, p) \in Nat /\ Width \in Nat /\ Width >= 1
        /\ c.blocks \in Seq(Seq(Txs))
    <3>1. c.blocks \in Seq(Seq(Txs))
      BY DEF ChainStates
    <3> QED
      BY <3>1, TreeFinite, WidthType
  <2>6. Bearers(c, p) # {}
    <3>1. CASE c.blocks = <<>>
      BY <3>1 DEF p, Tip, Bearers
    <3>2. CASE c.blocks # <<>>
      <4>1. Len(c.blocks) \in DOMAIN c.blocks /\ p = c.blocks[Len(c.blocks)]
        BY <2>5, <3>2 DEF p, Tip
      <4> QED
        BY <4>1 DEF Bearers
    <3> QED
      BY <3>1, <3>2
  <2>7. Kids(c, p) + 1 <= Width * Bearing(c, p)
    <3>1. Width * Bearing(c, p) \in Nat
      BY <2>5
    <3> QED
      BY <2>4, <2>5, <3>1
  <2> QED
    BY <2>1, <2>2, <2>3, <2>5, <2>6, <2>7, TreeGrows
<1> HIDE DEF d
<1>4. Booted(c) = c \/ Booted(c) = d
  BY DEF Booted, d
<1>5. Booted(c) \in ChainStates /\ TreeOK(Booted(c))
  BY <1>2, <1>3, <1>4
<1>6. LoggedBoot(c) = Booted(c) \/ LoggedBoot(c) = Logged(Booted(c), "info")
  BY DEF LoggedBoot, BootSaves, Booted
<1> DEFINE b == Booted(c)
<1>7. /\ Logged(b, "info") \in ChainStates /\ Logged(b, "info").auth = b.auth
      /\ Logged(b, "info").blocks = b.blocks /\ Logged(b, "info").raw = b.raw
  <2> HIDE DEF b
  <2>1. b \in ChainStates
    BY <1>5 DEF b
  <2> DEFINE es == Append(b.events, "info")
  <2>2. es \in Seq(Levels) /\ Logged(b, "info") = [b EXCEPT !.events = es]
    BY <2>1 DEF ChainStates, Levels, Logged
  <2> HIDE DEF es
  <2> QED
    BY <2>1, <2>2 DEF ChainStates
<1>8. TreeOK(Logged(b, "info"))
  BY <1>5, <1>7, TreeSame
<1> HIDE DEF b
<1> QED
  BY <1>5, <1>6, <1>7, <1>8 DEF b

-----------------------------------------------------------------------------
(* One thread moves. *)

LEMMA CallsMove ==
  ASSUME NEW ts \in [Threads -> Calls], NEW t \in Threads, NEW r,
         NEW n \in Nat, NEW m \in Nat, n <= m,
         \A u \in Threads : CallOK(ts[u], n), CallOK(r, m)
  PROVE  LET us == [ts EXCEPT ![t] = r]
         IN us \in [Threads -> Calls] /\ \A u \in Threads : CallOK(us[u], m)
<1>1. r \in Calls
  BY DEF CallOK
<1>2. \A u \in Threads : CallOK(ts[u], m)
  BY DEF CallOK
<1> QED
  BY <1>1, <1>2

LEMMA HoldersFinite ==
  ASSUME NEW ts, NEW h
  PROVE  /\ IsFiniteSet(Holders(ts, h)) /\ Cardinality(Holders(ts, h)) \in Nat
         /\ Cardinality(Holders(ts, h)) <= Width
<1>1. Holders(ts, h) \in SUBSET Threads
  BY DEF Holders
<1> QED
  BY <1>1, ThreadsAssumption, FS_Subset, FS_CardinalityType DEF Width

\* A thread that neither holds a hash nor reads one leaves the forks alone.
LEMMA ForksSame ==
  ASSUME NEW c, NEW d, d.blocks = c.blocks, NEW ts \in [Threads -> Calls], ForksOK(c, ts),
         NEW t \in Threads, NEW r, ts[t].at # "block", r.at # "block"
  PROVE  ForksOK(d, [ts EXCEPT ![t] = r])
<1> DEFINE us == [ts EXCEPT ![t] = r]
<1>1. \A h : Holders(us, h) = Holders(ts, h)
  BY DEF Holders
<1>2. \A u \in Threads : us[u].at = "block" => ts[u].at = "block" /\ us[u].prev = ts[u].prev
  OBVIOUS
<1> HIDE DEF us
<1>3. /\ TreeOK(c) => TreeOK(d)
      /\ \A h : Bearers(d, h) = Bearers(c, h)
      /\ \A h : Kids(d, h) = Kids(c, h) /\ Bearing(d, h) = Bearing(c, h)
  BY TreeSame
<1>4. ForksOK(d, us)
  BY <1>1, <1>2, <1>3 DEF ForksOK
<1> QED
  BY <1>4 DEF us

\* Thread t reads the last hash.
LEMMA ForksRead ==
  ASSUME NEW c, c.blocks \in Seq(Seq(Txs)), NEW ts \in [Threads -> Calls], ForksOK(c, ts),
         NEW t \in Threads, NEW r, ts[t].at # "block", r.at = "block", r.prev = Tip(c)
  PROVE  ForksOK(c, [ts EXCEPT ![t] = r])
<1> DEFINE us == [ts EXCEPT ![t] = r]
           p == Tip(c)
<1>1. \A h : h # p => Holders(us, h) = Holders(ts, h)
  BY DEF Holders
<1>2. \A u \in Threads : u # t => us[u] = ts[u]
  OBVIOUS
<1>3. us[t] = r
  OBVIOUS
<1> HIDE DEF us
<1>4. Bearers(c, p) # {}
  <2>1. CASE c.blocks = <<>>
    BY <2>1 DEF Tip, Bearers
  <2>2. CASE c.blocks # <<>>
    <3>1. Len(c.blocks) \in DOMAIN c.blocks /\ p = c.blocks[Len(c.blocks)]
      BY <2>2 DEF Tip
    <3> QED
      BY <3>1 DEF Bearers
  <2> QED
    BY <2>1, <2>2
<1>5. Kids(c, p) + Width <= Width * Bearing(c, p)
  BY DEF ForksOK, TreeOK
<1> HIDE DEF p
<1>6. Cardinality(Holders(us, p)) \in Nat /\ Cardinality(Holders(us, p)) <= Width
  BY HoldersFinite
<1>7. Kids(c, p) + Cardinality(Holders(us, p)) <= Width * Bearing(c, p)
  <2>1. Kids(c, p) \in Nat /\ Bearing(c, p) \in Nat /\ Width \in Nat
    BY TreeFinite, WidthType
  <2>2. Width * Bearing(c, p) \in Nat
    BY <2>1
  <2> QED
    BY <1>5, <1>6, <2>1, <2>2
<1>8. \A h : Kids(c, h) + Cardinality(Holders(us, h)) <= Width * Bearing(c, h)
  BY <1>1, <1>7 DEF ForksOK
<1>9. \A u \in Threads : us[u].at = "block" => Bearers(c, us[u].prev) # {}
  BY <1>2, <1>3, <1>4 DEF ForksOK, p
<1>10. ForksOK(c, us)
  BY <1>8, <1>9 DEF ForksOK
<1> QED
  BY <1>10 DEF us

\* Thread t links its block to the hash it read.
LEMMA ForksGrow ==
  ASSUME NEW c, NEW d, c.blocks \in Seq(Seq(Txs)), NEW ts \in [Threads -> Calls],
         ForksOK(c, ts), NEW t \in Threads, NEW r, ts[t].at = "block", r.at # "block",
         NEW p \in Seq(Txs), p = ts[t].prev, NEW tx \in Txs,
         d.blocks = Append(c.blocks, Append(p, tx))
  PROVE  ForksOK(d, [ts EXCEPT ![t] = r])
<1> DEFINE us == [ts EXCEPT ![t] = r]
           q == Append(p, tx)
<1>1. q \in Seq(Txs) /\ q # GENESIS /\ Front(q) = p /\ q # p
  BY ParentOfDigest
<1>2. \A h : Holders(us, h) = IF h = p THEN Holders(ts, h) \ {t} ELSE Holders(ts, h)
  BY DEF Holders
<1>3. t \in Holders(ts, p)
  BY DEF Holders
<1>4. \A u \in Threads : us[u].at = "block" => ts[u].at = "block" /\ us[u].prev = ts[u].prev
  OBVIOUS
<1> HIDE DEF us, q
<1>5. d.blocks = Append(c.blocks, q)
  BY DEF q
<1>6. Grown(c, d, p, q)
  BY <1>1, <1>5, BlockMore
<1>7. \A h : /\ Kids(d, h) = Kids(c, h) + (IF h = p THEN 1 ELSE 0)
            /\ Bearing(d, h) = Bearing(c, h) + (IF h = q THEN 1 ELSE 0)
            /\ Bearers(c, h) \subseteq Bearers(d, h)
  BY <1>6 DEF Grown
<1>8. \A h : /\ Kids(c, h) \in Nat /\ Bearing(c, h) \in Nat
            /\ IsFiniteSet(Holders(ts, h)) /\ Cardinality(Holders(ts, h)) \in Nat
  BY TreeFinite, HoldersFinite
<1>9. Width \in Nat
  BY WidthType
<1>10. \A b \in Nat : Width * (b + 1) = Width * b + Width /\ Width * b \in Nat
  BY <1>9
<1>11. Cardinality(Holders(us, p)) = Cardinality(Holders(ts, p)) - 1
  BY ZenonT(60), <1>2, <1>3, <1>8, FS_RemoveElement
<1>12. \A h : Kids(c, h) + Cardinality(Holders(ts, h)) <= Width * Bearing(c, h)
  BY DEF ForksOK
<1>13. Kids(c, p) + 1 <= Width * Bearing(c, p)
  <2>1. Cardinality(Holders(ts, p)) >= 1
    <3>1. Cardinality(Holders(ts, p)) # 0
      BY <1>3, <1>8, FS_EmptySet
    <3> QED
      BY <1>8, <3>1
  <2>2. PICK room \in Nat : room = Width * Bearing(c, p)
    BY <1>8, <1>9
  <2>3. Kids(c, p) + Cardinality(Holders(ts, p)) <= room
    BY <1>12, <2>2
  <2>4. Kids(c, p) + 1 <= room
    BY <1>8, <2>1, <2>3
  <2> QED
    BY <2>2, <2>4
<1>14. TreeOK(d)
  <2>1. TreeOK(c) /\ Bearers(c, p) # {}
    BY DEF ForksOK
  <2> QED
    BY <1>1, <1>5, <1>13, <2>1, TreeGrows
<1>15. ASSUME NEW h PROVE Kids(d, h) + Cardinality(Holders(us, h)) <= Width * Bearing(d, h)
  <2>1. CASE h = p
    <3>1. Kids(d, p) = Kids(c, p) + 1 /\ Bearing(d, p) = Bearing(c, p)
      BY <1>1, <1>7, <1>8
    <3> QED
      BY <1>8, <1>11, <1>12, <2>1, <3>1
  <2>2. CASE h = q
    <3>1. /\ Kids(d, q) = Kids(c, q) /\ Bearing(d, q) = Bearing(c, q) + 1
          /\ Holders(us, q) = Holders(ts, q)
      BY <1>1, <1>2, <1>7, <1>8
    <3>2. Kids(c, q) + Cardinality(Holders(ts, q)) <= Width * Bearing(c, q)
      BY <1>12
    <3> QED
      BY <1>8, <1>9, <1>10, <2>2, <3>1, <3>2
  <2>3. CASE h # p /\ h # q
    <3>1. /\ Kids(d, h) = Kids(c, h) /\ Bearing(d, h) = Bearing(c, h)
          /\ Holders(us, h) = Holders(ts, h)
      BY <1>2, <1>7, <1>8, <2>3
    <3> QED
      BY <1>12, <3>1
  <2> QED
    BY <2>1, <2>2, <2>3
<1>16. \A u \in Threads : us[u].at = "block" => Bearers(d, us[u].prev) # {}
  <2>1. \A u \in Threads : ts[u].at = "block" => Bearers(c, ts[u].prev) # {}
    BY DEF ForksOK
  <2> QED
    BY <1>4, <1>7, <2>1
<1>17. ForksOK(d, us)
  BY <1>14, <1>15, <1>16 DEF ForksOK
<1> QED
  BY <1>17 DEF us

\* A call that only goes on to label l.
LEMMA Relabelled ==
  ASSUME NEW x, NEW n \in Nat, CallOK(x, n), NEW l \in Labels, l \notin {"copy", "write"},
         NEW r, r = [x EXCEPT !.at = l]
  PROVE  /\ CallOK(r, n) /\ r.at = l
         /\ r.tx = x.tx /\ r.code = x.code /\ r.prev = x.prev /\ r.copy = x.copy /\ r.fd = x.fd
<1>1. x \in Calls
  BY DEF CallOK
<1> HIDE DEF Labels
<1>2. /\ r \in Calls /\ r.at = l
      /\ r.tx = x.tx /\ r.code = x.code /\ r.prev = x.prev /\ r.copy = x.copy /\ r.fd = x.fd
  BY <1>1 DEF Calls
<1> QED
  BY <1>2 DEF CallOK

LEMMA ThreadMoves ==
  ASSUME IInv, NEW t \in Threads, NEW r, CallOK(r, Len(inodes')),
         thread' = [thread EXCEPT ![t] = r], mem' \in ChainStates,
         ForksOK(mem', [thread EXCEPT ![t] = r]),
         FilesOK(inodes', names'), Len(inodes) <= Len(inodes'), up' = up, QueueOK'
  PROVE  IInv'
<1>1. Len(inodes) \in Nat /\ Len(inodes') \in Nat
  BY DEF IInv, FilesOK
<1>2. thread' \in [Threads -> Calls] /\ \A u \in Threads : CallOK(thread'[u], Len(inodes'))
  BY <1>1, CallsMove DEF IInv
<1>3. ForksOK(mem', thread')
  OBVIOUS
<1>4. up' \in BOOLEAN
  BY DEF IInv
<1> QED
  BY <1>2, <1>3, <1>4 DEF IInv

\* ... in a step that changes no file and no block.
LEMMA QuietMove ==
  ASSUME IInv, NEW t \in Threads, NEW r, CallOK(r, Len(inodes)),
         thread' = [thread EXCEPT ![t] = r], thread[t].at # "block", r.at # "block",
         mem' \in ChainStates, mem'.blocks = mem.blocks,
         UNCHANGED <<inodes, names>>, up' = up, QueueOK'
  PROVE  IInv'
<1>1. ForksOK(mem', [thread EXCEPT ![t] = r])
  BY ForksSame DEF IInv
<1>2. FilesOK(inodes', names') /\ Len(inodes) <= Len(inodes') /\ CallOK(r, Len(inodes'))
  BY DEF IInv, FilesOK
<1> QED
  BY <1>1, <1>2, ThreadMoves

LEMMA SameQueue ==
  ASSUME IInv, UNCHANGED <<queue, seen, answered>>
  PROVE  QueueOK'
  BY DEF IInv, QueueOK

LEMMA OutcomeCode == \A c, tx : Outcome(c, tx) \in Codes
  BY DEF Outcome, Codes, Committing, Excluding

\* What the members of a state and of a call are.
LEMMA StateTypes ==
  ASSUME IInv
  PROVE  /\ mem \in ChainStates /\ mem.blocks \in Seq(Seq(Txs)) /\ mem.raw \in Seq(Txs)
         /\ Len(inodes) \in Nat /\ ForksOK(mem, thread)
         /\ \A t \in Threads : /\ CallOK(thread[t], Len(inodes)) /\ thread[t] \in Calls
                              /\ thread[t].tx \in Txs /\ thread[t].tx.sender \in Nodes
                              /\ thread[t].tx.data \in Data /\ thread[t].prev \in Seq(Txs)
                              /\ thread[t].code \in Codes
<1>1. \A t \in Threads : /\ thread[t] \in Calls
                         /\ thread[t].tx \in Txs /\ thread[t].prev \in Seq(Txs)
                         /\ thread[t].code \in Codes
  BY DEF IInv, Calls
<1>2. \A tx \in Txs : tx.sender \in Nodes /\ tx.data \in Data
  BY ServerTxsAssumption DEF TxRecords
<1>3. mem \in ChainStates /\ mem.blocks \in Seq(Seq(Txs)) /\ mem.raw \in Seq(Txs)
  BY DEF IInv, ChainStates
<1>4. Len(inodes) \in Nat
  BY DEF IInv, FilesOK
<1> QED
  BY <1>1, <1>2, <1>3, <1>4 DEF IInv

-----------------------------------------------------------------------------
(* The invariant, action by action. *)

LEMMA StartOK ==
  ASSUME IInv, NEW t \in Threads, NEW tx \in Txs, Start(t, tx)
  PROVE  IInv'
<1> DEFINE code == Outcome(mem, tx)
           r == [Idle EXCEPT !.at = FirstStep(code), !.tx = tx, !.code = code]
<1>1. /\ mem \in ChainStates /\ Len(inodes) \in Nat
  BY StateTypes
<1>2. code \in Codes /\ FirstStep(code) \in Labels \ {"copy", "write", "block"}
  BY OutcomeCode DEF FirstStep, Labels
<1>3. Idle \in Calls /\ CallOK(Idle, Len(inodes))
  BY <1>1, IdleOK
<1>4. thread' = [thread EXCEPT ![t] = r] /\ thread[t].at = "idle"
  BY DEF Start
<1> HIDE DEF code
<1>5. PICK l : l = FirstStep(code)
  OBVIOUS
<1>6. r = [Idle EXCEPT !.at = l, !.tx = tx, !.code = code]
  BY <1>5
<1>7. r \in Calls /\ r.at = l /\ r.fd = Idle.fd /\ r.copy = Idle.copy
  BY <1>2, <1>3, <1>5, <1>6 DEF Calls
<1> HIDE DEF r
<1>8. CallOK(r, Len(inodes)) /\ r.at # "block"
  BY <1>2, <1>3, <1>5, <1>7 DEF CallOK
<1>9. mem' = mem /\ UNCHANGED <<inodes, names, up, queue, seen, answered>>
  BY DEF Start
<1> QED
  BY <1>1, <1>4, <1>8, <1>9, QuietMove, SameQueue

LEMMA UpdateWhitelistOK ==
  ASSUME IInv, NEW t \in Threads, UpdateWhitelist(t)
  PROVE  IInv'
<1> DEFINE as == AuthAfter(mem, thread[t].tx, thread[t].code)
           l == IF thread[t].at = "exclude" THEN "save" ELSE "previous"
           r == [thread[t] EXCEPT !.at = l]
<1>1. /\ thread[t].at \in {"exclude", "authorise"} /\ mem' = [mem EXCEPT !.auth = as]
      /\ thread' = [thread EXCEPT ![t] = r]
      /\ UNCHANGED <<inodes, names, up, queue, seen, answered>>
  BY DEF UpdateWhitelist, Goto, world
<1>2. as \in SUBSET Nodes
  BY StateTypes DEF AuthAfter, ChainStates
<1>3. l \in Labels /\ l \notin {"copy", "write", "block"}
  BY DEF Labels
<1> HIDE DEF as, l
<1>4. CallOK(r, Len(inodes)) /\ r.at # "block"
  BY <1>3, StateTypes, Relabelled
<1>5. mem' \in ChainStates /\ mem'.blocks = mem.blocks
  BY <1>1, <1>2, StateTypes DEF ChainStates
<1> HIDE DEF r
<1> QED
  BY <1>1, <1>4, <1>5, QuietMove, SameQueue

LEMMA RecordRootOK ==
  ASSUME IInv, NEW t \in Threads, RecordRoot(t)
  PROVE  IInv'
<1> DEFINE rs == RootsAfter(mem, thread[t].tx, thread[t].code)
           r == [thread[t] EXCEPT !.at = "previous"]
<1>1. /\ thread[t].at = "root" /\ mem' = [mem EXCEPT !.roots = rs]
      /\ thread' = [thread EXCEPT ![t] = r]
      /\ UNCHANGED <<inodes, names, up, queue, seen, answered>>
  BY DEF RecordRoot, Goto, world
<1>2. rs \in Seq(Data)
  BY StateTypes DEF RootsAfter, ChainStates
<1> HIDE DEF rs
<1>3. CallOK(r, Len(inodes)) /\ r.at # "block"
  <2>1. "previous" \in Labels
    BY DEF Labels
  <2> QED
    BY <2>1, StateTypes, Relabelled
<1>4. mem' \in ChainStates /\ mem'.blocks = mem.blocks
  BY <1>1, <1>2, StateTypes DEF ChainStates
<1> HIDE DEF r
<1> QED
  BY <1>1, <1>3, <1>4, QuietMove, SameQueue

LEMMA ReadPreviousOK ==
  ASSUME IInv, NEW t \in Threads, ReadPrevious(t)
  PROVE  IInv'
<1> DEFINE p == Tip(mem)
           r == [thread[t] EXCEPT !.prev = p, !.at = "block"]
<1>1. /\ thread[t].at = "previous" /\ thread' = [thread EXCEPT ![t] = r]
      /\ UNCHANGED <<mem, inodes, names, up, queue, seen, answered>>
  BY DEF ReadPrevious, PreviousHash, world
<1>2. p \in Seq(Txs) /\ "block" \in Labels
  BY StateTypes, TipIsHistory DEF Labels
<1> HIDE DEF p, Labels
<1>3. /\ r \in Calls /\ r.at = "block" /\ r.prev = p
      /\ r.fd = thread[t].fd /\ r.copy = thread[t].copy
  BY <1>2, StateTypes DEF Calls
<1> HIDE DEF r
<1>4. CallOK(r, Len(inodes))
  BY <1>3, StateTypes DEF CallOK
<1>5. ForksOK(mem, [thread EXCEPT ![t] = r])
  <2>1. thread \in [Threads -> Calls] /\ thread[t].at # "block" /\ r.prev = Tip(mem)
    BY <1>1, <1>3 DEF IInv, p
  <2> QED
    BY <1>3, <2>1, StateTypes, ForksRead
<1>6. FilesOK(inodes', names') /\ Len(inodes) <= Len(inodes') /\ mem' \in ChainStates
  BY <1>1, StateTypes DEF IInv
<1> QED
  BY <1>1, <1>4, <1>5, <1>6, ThreadMoves, SameQueue

LEMMA AddBlockOK ==
  ASSUME IInv, NEW t \in Threads, AddBlock(t)
  PROVE  IInv'
<1> DEFINE p == thread[t].prev
           bs == Append(mem.blocks, Append(p, thread[t].tx))
           r == [thread[t] EXCEPT !.at = "raw", !.prev = GENESIS]
<1>1. /\ thread[t].at = "block" /\ thread' = [thread EXCEPT ![t] = r]
      /\ mem' = [mem EXCEPT !.blocks = bs]
      /\ UNCHANGED <<inodes, names, up, queue, seen, answered>>
  BY DEF AddBlock, Sha256, world
<1>2. /\ p \in Seq(Txs) /\ thread[t].tx \in Txs /\ mem.blocks \in Seq(Seq(Txs))
      /\ GENESIS \in Seq(Txs) /\ "raw" \in Labels
  BY StateTypes, EmptySeq DEF Labels, GENESIS
<1>3. bs \in Seq(Seq(Txs))
  BY <1>2
<1> HIDE DEF bs, GENESIS, Labels
<1>4. mem' \in ChainStates /\ mem'.blocks = bs
  BY <1>1, <1>3, StateTypes DEF ChainStates
<1>5. /\ r \in Calls /\ r.at = "raw"
      /\ r.fd = thread[t].fd /\ r.copy = thread[t].copy
  BY <1>2, StateTypes DEF Calls
<1> HIDE DEF r
<1>6. CallOK(r, Len(inodes))
  BY <1>5, StateTypes DEF CallOK
<1>7. ForksOK(mem', [thread EXCEPT ![t] = r])
  <2>1. thread \in [Threads -> Calls] /\ r.at # "block"
    BY <1>5 DEF IInv
  <2>2. mem'.blocks = Append(mem.blocks, Append(p, thread[t].tx))
    BY <1>4 DEF bs
  <2> HIDE DEF p
  <2>3. p = thread[t].prev
    BY DEF p
  <2> QED
    BY <1>1, <1>2, <2>1, <2>2, <2>3, StateTypes, ForksGrow
<1>8. FilesOK(inodes', names') /\ Len(inodes) <= Len(inodes') /\ CallOK(r, Len(inodes'))
  BY <1>1, <1>6, StateTypes DEF IInv
<1> QED
  BY <1>1, <1>4, <1>7, <1>8, ThreadMoves, SameQueue

LEMMA AddRawOK ==
  ASSUME IInv, NEW t \in Threads, AddRaw(t)
  PROVE  IInv'
<1> DEFINE ts == Append(mem.raw, thread[t].tx)
           r == [thread[t] EXCEPT !.at = "announce"]
<1>1. /\ thread[t].at = "raw" /\ thread' = [thread EXCEPT ![t] = r]
      /\ mem' = [mem EXCEPT !.raw = ts]
      /\ UNCHANGED <<inodes, names, up, queue, seen, answered>>
  BY DEF AddRaw, RawAfter, Goto, world
<1>2. ts \in Seq(Txs)
  BY StateTypes
<1> HIDE DEF ts
<1>3. mem' \in ChainStates /\ mem'.blocks = mem.blocks
  BY <1>1, <1>2, StateTypes DEF ChainStates
<1>4. CallOK(r, Len(inodes)) /\ r.at # "block"
  <2>1. "announce" \in Labels
    BY DEF Labels
  <2> QED
    BY <2>1, StateTypes, Relabelled
<1> HIDE DEF r
<1> QED
  BY <1>1, <1>3, <1>4, QuietMove, SameQueue

LEMMA AnnounceOK ==
  ASSUME IInv, NEW t \in Threads, Announce(t)
  PROVE  IInv'
<1> DEFINE tx == thread[t].tx
           r == [thread[t] EXCEPT !.at = "save"]
<1>1. /\ thread[t].at = "announce" /\ thread' = [thread EXCEPT ![t] = r]
      /\ seen' = seen \cup {tx}
      /\ queue' = IF tx \in seen THEN queue ELSE Append(queue, tx)
      /\ UNCHANGED <<mem, inodes, names, up, answered>>
  BY DEF Announce, Known, Goto, world
<1>2. tx \in Txs
  BY StateTypes
<1> HIDE DEF tx
<1>3. QueueOK'
  <2>1. /\ queue \in Seq(Txs) /\ Range(queue) = seen /\ IsInjective(queue)
        /\ answered \in Seq(Txs)
    BY DEF IInv, QueueOK
  <2>2. CASE tx \in seen
    <3>1. seen' = seen /\ queue' = queue
      BY <1>1, <2>2
    <3> QED
      BY <1>1, <2>1, <3>1 DEF QueueOK
  <2>3. CASE tx \notin seen
    <3>1. /\ queue' \in Seq(Txs) /\ Range(queue') = seen' /\ IsInjective(queue')
      BY <1>1, <1>2, <2>1, <2>3, AppendEntry
    <3> QED
      BY <1>1, <2>1, <3>1 DEF QueueOK
  <2> QED
    BY <2>2, <2>3
<1>4. CallOK(r, Len(inodes)) /\ r.at # "block"
  <2>1. "save" \in Labels
    BY DEF Labels
  <2> QED
    BY <2>1, StateTypes, Relabelled
<1> HIDE DEF r
<1> QED
  BY <1>1, <1>3, <1>4, StateTypes, QuietMove

LEMMA BeginSaveOK ==
  ASSUME IInv, NEW t \in Threads, BeginSave(t)
  PROVE  IInv'
<1> DEFINE size == Cardinality(mem.auth)
           r == [thread[t] EXCEPT !.at = "whitelist", !.size = size]
<1>1. /\ thread[t].at = "save" /\ thread' = [thread EXCEPT ![t] = r]
      /\ UNCHANGED <<mem, inodes, names, up, queue, seen, answered>>
  BY DEF BeginSave, world
<1>2. size \in Sizes /\ "whitelist" \in Labels
  <2>1. mem.auth \in SUBSET Nodes
    BY StateTypes DEF ChainStates
  <2> QED
    BY <2>1 DEF Sizes, Labels
<1> HIDE DEF size, Labels, Sizes
<1>3. /\ r \in Calls /\ r.at = "whitelist"
      /\ r.fd = thread[t].fd /\ r.copy = thread[t].copy
  BY <1>2, StateTypes DEF Calls
<1> HIDE DEF r
<1>4. CallOK(r, Len(inodes)) /\ r.at # "block"
  BY <1>3, StateTypes DEF CallOK
<1> QED
  BY <1>1, <1>4, StateTypes, QuietMove, SameQueue

LEMMA CopyWhitelistOK ==
  ASSUME IInv, NEW t \in Threads, CopyWhitelist(t)
  PROVE  IInv'
<1> DEFINE as == mem.auth
           own == thread[t]
           c == [own.copy EXCEPT !.auth = as]
           x == [own EXCEPT !.at = "copy", !.size = 0, !.field = 1, !.copy = c]
<1>1. /\ own.at = "whitelist"
      /\ thread' = [thread EXCEPT ![t] = Idle] \/ thread' = [thread EXCEPT ![t] = x]
      /\ UNCHANGED <<mem, inodes, names, up, queue, seen, answered>>
  <2>1. /\ own.at = "whitelist"
        /\ thread' = [thread EXCEPT ![t] = IF Cardinality(mem.auth) # own.size THEN Idle ELSE x]
        /\ UNCHANGED <<mem, inodes, names, up, queue, seen, answered>>
    BY DEF CopyWhitelist, world
  <2> QED
    BY <2>1
<1>2. own \in Calls /\ own.fd \in 0..Len(inodes) /\ TreeOK(own.copy)
  BY StateTypes DEF CallOK
<1>3. own.copy \in ChainStates
  BY <1>2 DEF Calls
<1>4. as \in SUBSET Nodes
  BY StateTypes DEF ChainStates
<1>a. /\ thread[t].at = "whitelist"
      /\ thread' = [thread EXCEPT ![t] = Idle] \/ thread' = [thread EXCEPT ![t] = x]
  BY <1>1
<1> HIDE DEF as, own
<1>5. c \in ChainStates /\ c.blocks = own.copy.blocks
  BY <1>3, <1>4 DEF ChainStates
<1>6. TreeOK(c)
  BY <1>2, <1>5, TreeSame
<1>7. 0 \in Sizes /\ "copy" \in Labels /\ 1 \in 0..5
  BY DEF Sizes, Labels
<1> HIDE DEF c, Sizes, Labels
<1>8. x \in Calls /\ x.at = "copy" /\ x.fd = own.fd /\ x.copy = c /\ x.field = 1
  BY <1>2, <1>5, <1>7 DEF Calls
<1> HIDE DEF x
<1>9. CallOK(x, Len(inodes)) /\ x.at # "block"
  BY <1>2, <1>6, <1>8 DEF CallOK
<1>10. CallOK(Idle, Len(inodes)) /\ Idle.at # "block"
  BY IdleOK, StateTypes
<1>11. PICK r : /\ thread' = [thread EXCEPT ![t] = r]
                /\ CallOK(r, Len(inodes)) /\ r.at # "block"
  BY <1>a, <1>9, <1>10
<1> QED
  BY <1>1, <1>a, <1>11, StateTypes, QuietMove, SameQueue

\* The lists are copied while other threads change them, each from one state of mem.
LEMMA CopyFieldOK ==
  ASSUME IInv, NEW t \in Threads, CopyField(t)
  PROVE  IInv'
<1> DEFINE own == thread[t]
           f == Fields[own.field]
           c == [own.copy EXCEPT ![f] = mem[f]]
           k == own.field + 1
           l == IF own.field = Len(Fields) THEN "open" ELSE "copy"
           r == [own EXCEPT !.copy = c, !.field = k, !.at = l]
<1>1. /\ own.at = "copy" /\ thread' = [thread EXCEPT ![t] = r]
      /\ UNCHANGED <<mem, inodes, names, up, queue, seen, answered>>
  BY DEF CopyField, world
<1>2. /\ own \in Calls /\ own.fd \in 0..Len(inodes) /\ TreeOK(own.copy)
      /\ own.at = "copy" => own.field \in 1..4
  BY StateTypes DEF CallOK
<1>3. own.copy \in ChainStates /\ mem \in ChainStates /\ TreeOK(mem)
  BY <1>2, StateTypes DEF Calls, ForksOK
<1>4. f \in {"roots", "blocks", "raw", "events"}
  BY <1>1, <1>2 DEF Fields
<1>5. l \in Labels /\ (l = "copy" => k \in 1..4) /\ k \in 0..5 /\ l \in {"open", "copy"}
  BY <1>1, <1>2 DEF Fields, Labels
<1>a. thread[t].at = "copy" /\ thread' = [thread EXCEPT ![t] = r]
  BY <1>1
<1> HIDE DEF own, f, k, l, Labels
<1>6. c \in ChainStates /\ (c.blocks = own.copy.blocks \/ c.blocks = mem.blocks)
  BY <1>3, <1>4 DEF ChainStates
<1>7. TreeOK(c)
  BY <1>2, <1>3, <1>6, TreeSame
<1> HIDE DEF c
<1>8. r \in Calls /\ r.at = l /\ r.fd = own.fd /\ r.copy = c /\ r.field = k
  BY <1>2, <1>5, <1>6 DEF Calls
<1> HIDE DEF r
<1>9. CallOK(r, Len(inodes)) /\ r.at # "block"
  BY <1>2, <1>5, <1>7, <1>8 DEF CallOK
<1> QED
  BY <1>1, <1>a, <1>9, StateTypes, QuietMove, SameQueue

\* An inode more, or one with another text.
LEMMA InodeWritten ==
  ASSUME NEW is \in Seq(FileTexts), \A i \in DOMAIN is : TreeOK(is[i].c),
         NEW text \in FileTexts, TreeOK(text.c), NEW js,
         js = Append(is, text) \/ \E n \in 1..Len(is) : js = [is EXCEPT ![n] = text]
  PROVE  /\ js \in Seq(FileTexts) /\ \A i \in DOMAIN js : TreeOK(js[i].c)
         /\ Len(is) \in Nat /\ Len(js) \in Nat /\ Len(is) <= Len(js)
         /\ js = Append(is, text) => Len(js) = Len(is) + 1
<1>1. CASE js = Append(is, text)
  <2>1. /\ js \in Seq(FileTexts) /\ Len(js) = Len(is) + 1 /\ Len(is) \in Nat
        /\ \A i \in DOMAIN js : js[i] = text \/ (i \in DOMAIN is /\ js[i] = is[i])
    BY <1>1
  <2> QED
    BY <2>1
<1>2. CASE \E n \in 1..Len(is) : js = [is EXCEPT ![n] = text]
  <2>1. PICK n \in 1..Len(is) : js = [is EXCEPT ![n] = text]
    BY <1>2
  <2>2. /\ js \in Seq(FileTexts) /\ Len(js) = Len(is) /\ Len(is) \in Nat
        /\ \A i \in DOMAIN js : js[i] = text \/ (i \in DOMAIN is /\ js[i] = is[i])
    BY <2>1
  <2>3. Len(Append(is, text)) = Len(is) + 1
    OBVIOUS
  <2> QED
    BY <2>2, <2>3
<1> QED
  BY <1>1, <1>2

\* The texts that a save puts into a file.
LEMMA TextsOK ==
  ASSUME NEW c \in ChainStates, TreeOK(c)
  PROVE  \A text \in {Empty, Torn, Json(c)} : text \in FileTexts /\ TreeOK(text.c)
<1> DEFINE f == Fresh({})
<1>1. f \in ChainStates /\ TreeOK(f)
  BY FreshOK
<1>2. Empty = [kind |-> "empty", c |-> f] /\ Torn = [kind |-> "torn", c |-> f]
  BY DEF Empty, Torn
<1> HIDE DEF f
<1> QED
  BY <1>1, <1>2 DEF Json, FileTexts

LEMMA OpenTmpOK ==
  ASSUME IInv, NEW t \in Threads, OpenTmp(t)
  PROVE  IInv'
<1> DEFINE node == IF names.tmp = 0 THEN Len(inodes) + 1 ELSE names.tmp
           r == [thread[t] EXCEPT !.fd = node, !.at = "write"]
<1>1. /\ thread[t].at = "open" /\ thread' = [thread EXCEPT ![t] = r]
      /\ inodes' = IF names.tmp = 0 THEN Append(inodes, Empty) ELSE [inodes EXCEPT ![node] = Empty]
      /\ names' = [names EXCEPT !.tmp = node]
      /\ UNCHANGED <<mem, up, queue, seen, answered>>
  BY DEF OpenTmp, world
<1>2. /\ inodes \in Seq(FileTexts) /\ names \in [state : 1..Len(inodes), tmp : 0..Len(inodes)]
      /\ \A i \in DOMAIN inodes : TreeOK(inodes[i].c)
  BY DEF IInv, FilesOK
<1>3. Empty \in FileTexts /\ TreeOK(Empty.c)
  <2>1. PICK c \in ChainStates : TreeOK(c)
    BY FreshOK
  <2>2. \A text \in {Empty, Torn, Json(c)} : text \in FileTexts /\ TreeOK(text.c)
    BY <2>1, TextsOK
  <2> QED
    BY <2>2
<1>4. inodes' = Append(inodes, Empty) \/ \E n \in 1..Len(inodes) : inodes' = [inodes EXCEPT ![n] = Empty]
  <2>1. CASE names.tmp = 0
    BY <1>1, <2>1
  <2>2. CASE names.tmp # 0
    <3>1. node \in 1..Len(inodes) /\ inodes' = [inodes EXCEPT ![node] = Empty]
      BY <1>1, <1>2, <2>2
    <3> HIDE DEF node
    <3> QED
      BY <3>1
  <2> QED
    BY <2>1, <2>2
<1>5. /\ inodes' \in Seq(FileTexts) /\ \A i \in DOMAIN inodes' : TreeOK(inodes'[i].c)
      /\ Len(inodes) \in Nat /\ Len(inodes') \in Nat /\ Len(inodes) <= Len(inodes')
      /\ inodes' = Append(inodes, Empty) => Len(inodes') = Len(inodes) + 1
  BY <1>2, <1>3, <1>4, InodeWritten
<1>6. node \in 1..Len(inodes')
  BY <1>1, <1>2, <1>5
<1> HIDE DEF node
<1>7. FilesOK(inodes', names')
  <2>1. names' \in [state : 1..Len(inodes'), tmp : 0..Len(inodes')]
    BY <1>1, <1>2, <1>5, <1>6
  <2> QED
    BY <1>5, <2>1 DEF FilesOK
<1>8. thread[t] \in Calls /\ TreeOK(thread[t].copy)
  BY StateTypes DEF CallOK
<1>9. "write" \in Labels /\ node \in Nat
  BY <1>5, <1>6 DEF Labels
<1> HIDE DEF Labels
<1>10. r \in Calls /\ r.at = "write" /\ r.fd = node /\ r.copy = thread[t].copy
  BY <1>8, <1>9 DEF Calls
<1> HIDE DEF r
<1>11. CallOK(r, Len(inodes')) /\ r.at # "block"
  BY <1>5, <1>6, <1>8, <1>10 DEF CallOK
<1>12. ForksOK(mem', [thread EXCEPT ![t] = r])
  BY <1>1, <1>11, ForksSame DEF IInv
<1> QED
  BY <1>1, <1>5, <1>7, <1>11, <1>12, StateTypes, ThreadMoves, SameQueue

LEMMA WriteTmpOK ==
  ASSUME IInv, NEW t \in Threads, WriteTmp(t)
  PROVE  IInv'
<1> DEFINE fd == thread[t].fd
           r == [Idle EXCEPT !.at = "replace", !.tx = thread[t].tx, !.code = thread[t].code]
<1>1. PICK text \in Overwritten(inodes[fd], thread[t].copy) :
        /\ thread[t].at = "write" /\ thread' = [thread EXCEPT ![t] = r]
        /\ inodes' = [inodes EXCEPT ![fd] = text]
        /\ UNCHANGED <<mem, names, up, queue, seen, answered>>
  BY DEF WriteTmp, world
<1>2. /\ inodes \in Seq(FileTexts) /\ names \in [state : 1..Len(inodes), tmp : 0..Len(inodes)]
      /\ \A i \in DOMAIN inodes : TreeOK(inodes[i].c)
  BY DEF IInv, FilesOK
<1>3. /\ fd \in 1..Len(inodes)
      /\ thread[t].copy \in ChainStates /\ TreeOK(thread[t].copy)
  BY <1>1, StateTypes DEF CallOK, Calls
<1>4. text \in FileTexts /\ TreeOK(text.c)
  BY <1>3, TextsOK DEF Overwritten
<1>5. /\ inodes' \in Seq(FileTexts) /\ \A i \in DOMAIN inodes' : TreeOK(inodes'[i].c)
      /\ Len(inodes) \in Nat /\ Len(inodes') = Len(inodes)
  BY <1>1, <1>2, <1>3, <1>4, InodeWritten
<1>6. FilesOK(inodes', names')
  BY <1>1, <1>2, <1>5 DEF FilesOK
<1>7. /\ Idle \in Calls /\ CallOK(Idle, Len(inodes)) /\ thread[t].tx \in Txs /\ thread[t].code \in Codes
      /\ "replace" \in Labels
  BY <1>5, IdleOK, StateTypes DEF Labels
<1> HIDE DEF Idle, Labels, Codes
<1>8. r \in Calls /\ r.at = "replace" /\ r.fd = Idle.fd /\ r.copy = Idle.copy
  BY <1>7 DEF Calls
<1> HIDE DEF r
<1>9. CallOK(r, Len(inodes')) /\ r.at # "block"
  BY <1>5, <1>7, <1>8 DEF CallOK
<1>10. ForksOK(mem', [thread EXCEPT ![t] = r])
  BY <1>1, <1>9, ForksSame DEF IInv
<1>11. mem' \in ChainStates /\ Len(inodes) <= Len(inodes') /\ up' = up
  BY <1>1, <1>5, StateTypes
<1>12. QueueOK'
  BY <1>1, SameQueue
<1> QED
  BY <1>1, <1>6, <1>9, <1>10, <1>11, <1>12, ThreadMoves

LEMMA ReplaceOK ==
  ASSUME IInv, NEW t \in Threads, Replace(t)
  PROVE  IInv'
<1> DEFINE x == [thread[t] EXCEPT !.at = "log"]
<1>1. /\ thread[t].at = "replace"
      /\ \/ thread' = [thread EXCEPT ![t] = Idle] /\ names' = names
         \/ names.tmp # 0 /\ thread' = [thread EXCEPT ![t] = x] /\ names' = [state |-> names.tmp, tmp |-> 0]
      /\ UNCHANGED <<mem, inodes, up, queue, seen, answered>>
  BY DEF Replace, Goto, world
<1>2. FilesOK(inodes', names')
  <2>1. names \in [state : 1..Len(inodes), tmp : 0..Len(inodes)] /\ Len(inodes) \in Nat
    BY StateTypes DEF IInv, FilesOK
  <2>2. names' \in [state : 1..Len(inodes), tmp : 0..Len(inodes)]
    BY <1>1, <2>1
  <2> QED
    BY <1>1, <2>2 DEF IInv, FilesOK
<1>3. CallOK(Idle, Len(inodes)) /\ Idle.at # "block"
  BY StateTypes, IdleOK
<1>4. CallOK(x, Len(inodes)) /\ x.at # "block"
  <2>1. "log" \in Labels
    BY DEF Labels
  <2> QED
    BY <2>1, StateTypes, Relabelled
<1> HIDE DEF x
<1>5. PICK r : /\ thread' = [thread EXCEPT ![t] = r]
               /\ CallOK(r, Len(inodes)) /\ r.at # "block"
  BY <1>1, <1>3, <1>4
<1>6. ForksOK(mem', [thread EXCEPT ![t] = r])
  BY <1>1, <1>5, ForksSame DEF IInv
<1>7. CallOK(r, Len(inodes')) /\ Len(inodes) <= Len(inodes')
  BY <1>1, <1>5, StateTypes
<1> QED
  BY <1>1, <1>2, <1>5, <1>6, <1>7, StateTypes, ThreadMoves, SameQueue

LEMMA AnswerOK ==
  ASSUME IInv, NEW t \in Threads, Answer(t)
  PROVE  IInv'
<1> DEFINE es == Append(mem.events, Level(thread[t].code))
<1>1. /\ thread[t].at = "log" /\ thread' = [thread EXCEPT ![t] = Idle]
      /\ mem' = [mem EXCEPT !.events = es]
      /\ answered' = answered \/ answered' = Append(answered, thread[t].tx)
      /\ UNCHANGED <<inodes, names, up, queue, seen>>
  BY DEF Answer, Logged, world
<1>2. es \in Seq(Levels)
  <2>1. Level(thread[t].code) \in Levels
    BY DEF Level, Levels
  <2> QED
    BY <2>1, StateTypes DEF ChainStates
<1> HIDE DEF es
<1>3. mem' \in ChainStates /\ mem'.blocks = mem.blocks
  BY <1>1, <1>2, StateTypes DEF ChainStates
<1>4. QueueOK'
  <2>1. answered \in Seq(Txs) /\ Append(answered, thread[t].tx) \in Seq(Txs)
    BY StateTypes DEF IInv, QueueOK
  <2> QED
    BY <1>1, <2>1 DEF IInv, QueueOK
<1>5. CallOK(Idle, Len(inodes)) /\ Idle.at # "block"
  BY StateTypes, IdleOK
<1> QED
  BY <1>1, <1>3, <1>4, <1>5, QuietMove

-----------------------------------------------------------------------------
(* The process starts. *)

\* Threads that wait for a request hold no hash.
LEMMA NobodyHolds ==
  ASSUME NEW c \in ChainStates, TreeOK(c)
  PROVE  ForksOK(c, [u \in Threads |-> Idle])
<1> DEFINE ts == [u \in Threads |-> Idle]
<1>1. \A u \in Threads : ts[u].at # "block"
  BY IdleOK
<1> HIDE DEF ts
<1>2. \A h : Holders(ts, h) = {}
  BY <1>1 DEF Holders
<1>3. \A h : Cardinality(Holders(ts, h)) = 0
  BY <1>2, FS_EmptySet
<1>4. \A h : Kids(c, h) \in Nat /\ Kids(c, h) <= Width * Bearing(c, h)
  <2>1. \A h : Kids(c, h) \in Nat /\ Bearing(c, h) \in Nat
    BY TreeFinite DEF ChainStates
  <2> QED
    BY <2>1, WidthType DEF TreeOK
<1> QED
  BY <1>1, <1>3, <1>4 DEF ForksOK, ts

LEMMA CrashOK ==
  ASSUME IInv, Crash
  PROVE  IInv'
<1> DEFINE ts == [u \in Threads |-> Idle]
           c == StateFile.c
           text == Json(Booted(c))
<1>1. /\ thread' = ts /\ queue' = <<>> /\ seen' = {} /\ answered' = answered
      /\ \/ up' = FALSE /\ UNCHANGED <<mem, inodes, names>>
         \/ /\ up' = TRUE /\ mem' = LoggedBoot(c)
            /\ \/ inodes' = Append(inodes, text) /\ names' = [state |-> Len(inodes) + 1, tmp |-> 0]
               \/ UNCHANGED <<inodes, names>>
  BY DEF Crash
<1>2. /\ inodes \in Seq(FileTexts) /\ names \in [state : 1..Len(inodes), tmp : 0..Len(inodes)]
      /\ \A i \in DOMAIN inodes : TreeOK(inodes[i].c) /\ Len(inodes) \in Nat
  BY StateTypes DEF IInv, FilesOK
<1>3. c \in ChainStates /\ TreeOK(c)
  <2>1. CASE names.state = 0
    BY <2>1, FreshOK DEF StateFile, Json
  <2>2. CASE names.state # 0
    <3>1. names.state \in DOMAIN inodes /\ inodes[names.state] \in FileTexts
      BY <1>2
    <3>2. c = inodes[names.state].c
      BY <2>2 DEF StateFile
    <3> QED
      BY <1>2, <3>1, <3>2 DEF FileTexts
  <2> QED
    BY <2>1, <2>2
<1> HIDE DEF c
<1>4. /\ Booted(c) \in ChainStates /\ TreeOK(Booted(c))
      /\ LoggedBoot(c) \in ChainStates /\ TreeOK(LoggedBoot(c))
  BY <1>3, BootOK
<1>5. mem' \in ChainStates /\ TreeOK(mem')
  BY <1>1, <1>4 DEF IInv, ForksOK
<1>6. ForksOK(mem', thread')
  BY <1>1, <1>5, NobodyHolds
<1>7. FilesOK(inodes', names') /\ Len(inodes') \in Nat
  <2>1. CASE UNCHANGED <<inodes, names>>
    BY <1>2, <2>1 DEF IInv, FilesOK
  <2>2. CASE inodes' = Append(inodes, text) /\ names' = [state |-> Len(inodes) + 1, tmp |-> 0]
    <3>1. text \in FileTexts /\ TreeOK(text.c)
      BY <1>4, TextsOK
    <3> HIDE DEF text
    <3>2. /\ inodes' \in Seq(FileTexts) /\ \A i \in DOMAIN inodes' : TreeOK(inodes'[i].c)
          /\ Len(inodes') = Len(inodes) + 1 /\ Len(inodes) \in Nat
      BY <1>2, <2>2, <3>1, InodeWritten
    <3> QED
      BY <2>2, <3>2 DEF FilesOK
  <2> QED
    BY <1>1, <2>1, <2>2
<1>8. thread' \in [Threads -> Calls] /\ \A u \in Threads : CallOK(thread'[u], Len(inodes'))
  BY <1>1, <1>7, IdleOK
<1>9. QueueOK'
  BY <1>1, NoEntries DEF IInv, QueueOK
<1>10. up' \in BOOLEAN
  BY <1>1
<1> QED
  BY <1>5, <1>6, <1>7, <1>8, <1>9, <1>10 DEF IInv

LEMMA InitOK ==
  ASSUME Init
  PROVE  IInv
<1> DEFINE c == Fresh({})
           text == Json(Booted(c))
<1>1. /\ up = TRUE /\ mem = LoggedBoot(c) /\ thread = [u \in Threads |-> Idle]
      /\ inodes = <<text>> /\ names = [state |-> 1, tmp |-> 0]
      /\ queue = <<>> /\ seen = {} /\ answered = <<>>
  BY DEF Init
<1>2. c \in ChainStates /\ TreeOK(c)
  BY FreshOK
<1> HIDE DEF c
<1>3. /\ Booted(c) \in ChainStates /\ TreeOK(Booted(c))
      /\ LoggedBoot(c) \in ChainStates /\ TreeOK(LoggedBoot(c))
  BY <1>2, BootOK
<1>4. text \in FileTexts /\ TreeOK(text.c)
  BY <1>3, TextsOK
<1> HIDE DEF text
<1>5. FilesOK(inodes, names) /\ Len(inodes) \in Nat
  BY <1>1, <1>4 DEF FilesOK
<1>6. ForksOK(mem, thread) /\ mem \in ChainStates
  BY <1>1, <1>3, NobodyHolds
<1>7. thread \in [Threads -> Calls] /\ \A u \in Threads : CallOK(thread[u], Len(inodes))
  BY <1>1, <1>5, IdleOK
<1>8. QueueOK
  BY <1>1, NoEntries, EmptySeq DEF QueueOK
<1> QED
  BY <1>1, <1>5, <1>6, <1>7, <1>8 DEF IInv

LEMMA StepOK ==
  ASSUME IInv, [Next]_vars
  PROVE  IInv'
<1>1. CASE UNCHANGED vars
  <2>1. UNCHANGED <<up, mem, thread, inodes, names, queue, seen, answered>>
    BY <1>1 DEF vars
  <2>2. mem' \in ChainStates /\ ForksOK(mem', thread') /\ FilesOK(inodes', names')
    BY <2>1 DEF IInv
  <2> QED
    BY <2>1, <2>2, SameQueue DEF IInv
<1>2. CASE Crash
  BY <1>2, CrashOK
<1>3. ASSUME NEW t \in Threads, NEW tx \in Txs, Start(t, tx)
      PROVE  IInv'
  BY <1>3, StartOK
<1>4. ASSUME NEW t \in Threads, Submitting(t)
      PROVE  IInv'
  BY <1>4, UpdateWhitelistOK, RecordRootOK, ReadPreviousOK, AddBlockOK, AddRawOK, AnnounceOK,
     BeginSaveOK, CopyWhitelistOK, CopyFieldOK, OpenTmpOK, WriteTmpOK, ReplaceOK, AnswerOK
     DEF Submitting
<1> QED
  BY <1>1, <1>2, <1>3, <1>4 DEF Next

-----------------------------------------------------------------------------
(* The theorems. *)

\* Whatever the threads do and wherever the process dies, the calls, the chain's sets
\* and the file names keep their types, and the queue's entries are those marked seen.
THEOREM TypeCorrect == Spec => []TypeOK
<1>1. IInv => TypeOK
  <2> SUFFICES ASSUME IInv PROVE TypeOK
    OBVIOUS
  <2>1. mem.auth \subseteq Nodes /\ Range(mem.roots) \subseteq Data
    BY StateTypes DEF ChainStates, Range
  <2>2. \A t \in Threads : /\ thread[t].at \in Labels /\ thread[t].tx \in Txs
                           /\ thread[t].fd \in 0..Len(inodes)
    BY StateTypes DEF CallOK, Calls
  <2>3. names.state \in 1..Len(inodes) /\ names.tmp \in 0..Len(inodes)
    BY DEF IInv, FilesOK
  <2> QED
    BY <2>1, <2>2, <2>3 DEF IInv, QueueOK, TypeOK
<1> QED
  BY <1>1, InitOK, StepOK, PTL DEF Spec

\* However submissions overlap and wherever the process dies, every block but those on
\* genesis has an earlier one to link to, and a hash has no more children than there are
\* threads, for each block that has that hash.
THEOREM ForksAreBounded == Spec => []ForkWidth
<1>1. IInv => ForkWidth
  <2> SUFFICES ASSUME IInv, NEW i \in DOMAIN mem.blocks
               PROVE  /\ \E j \in Bearers(mem, Parent(mem, i)) : j < i
                      /\ Kids(mem, Parent(mem, i)) <= Width * Bearing(mem, Parent(mem, i))
    BY DEF ForkWidth, Kids, Bearing, Width
  <2> DEFINE h == Parent(mem, i)
  <2>1. ForksOK(mem, thread) /\ mem.blocks \in Seq(Seq(Txs))
    BY StateTypes
  <2>2. \E j \in Bearers(mem, h) : j < i
    BY <2>1 DEF ForksOK, TreeOK
  <2>3. Kids(mem, h) <= Width * Bearing(mem, h)
    <3>1. PICK room \in Nat : room = Width * Bearing(mem, h)
      BY <2>1, TreeFinite, WidthType
    <3>2. Kids(mem, h) + Cardinality(Holders(thread, h)) <= room
      BY <2>1, <3>1 DEF ForksOK
    <3> QED
      BY <2>1, <3>1, <3>2, HoldersFinite, TreeFinite
  <2> QED
    BY <2>2, <2>3
<1> QED
  BY <1>1, InitOK, StepOK, PTL DEF Spec

\* A transaction enters the gossip queue once in the life of the process, whoever
\* submits it and however often.
THEOREM QueuedAtMostOnce == Spec => []QueuedOnce
<1>1. IInv => QueuedOnce
  BY DEF IInv, QueueOK, QueuedOnce
<1> QED
  BY <1>1, InitOK, StepOK, PTL DEF Spec

-----------------------------------------------------------------------------
(* What the processes keep as long as calls do not overlap. *)

Sound(c) == LinkedChain(c) /\ AuthoritySound(c)

\* Only the block of tx is missing.
Ready(c, tx) == Sound(AppendBlock(c, tx))

\* Chains that differ only in what no answer depends on.
Alike(b, c) == b.auth = c.auth /\ b.blocks = c.blocks /\ b.raw = c.raw

Kept(as, raw) == \A x \in Txs : Count(as, x) <= Count(raw, x)

\* The state file parses and has what was answered, and memory has what was announced.
Settled(m, is, ns, as, sn) ==
  LET file == is[ns.state]
  IN /\ ns.tmp # ns.state /\ file.kind = "json" /\ Sound(file.c)
     /\ Kept(as, file.c.raw)
     /\ sn \subseteq Range(m.raw)

\* Where r is, which is the only call there is or a thread that waits for one.
Alone(r, m, is, ns, as) ==
  LET tx == r.tx
      commits == r.code \in Committing
      file == is[ns.state].c
      saved == m.raw = file.raw
      more == m.raw = Append(file.raw, tx)
  IN /\ r.at = "idle" => Sound(m) /\ saved
     /\ r.at \in {"exclude", "authorise", "root"} => Sound(m) /\ saved /\ r.code = Outcome(m, tx)
     /\ r.at = "exclude" => r.code \in Excluding
     /\ r.at = "authorise" => r.code = "node_authenticated"
     /\ r.at = "root" => r.code = "payload_committed"
     /\ r.at \in {"previous", "block"} => Ready(m, tx) /\ saved /\ commits
     /\ r.at = "block" => r.prev = Tip(m)
     /\ r.at = "raw" => Sound([m EXCEPT !.raw = Append(m.raw, tx)]) /\ saved /\ commits
     /\ r.at = "announce" => Sound(m) /\ more /\ commits
     /\ r.at \in {"save", "whitelist", "copy", "open", "write", "replace"} =>
          Sound(m) /\ IF commits THEN more ELSE saved
     /\ r.at = "whitelist" => r.size = Cardinality(m.auth)
     /\ r.at = "copy" => /\ r.copy.auth = m.auth
                         /\ r.field > 2 => r.copy.blocks = m.blocks
                         /\ r.field > 3 => r.copy.raw = m.raw
     /\ r.at \in {"open", "write"} => Alike(r.copy, m)
     /\ r.at = "write" => ns.tmp # 0 /\ r.fd = ns.tmp /\ is[ns.tmp].kind = "empty"
     /\ r.at = "replace" => ns.tmp # 0 /\ is[ns.tmp].kind = "json" /\ Alike(is[ns.tmp].c, m)
     /\ r.at = "log" => Sound(m) /\ saved /\ (commits => Kept(Append(as, tx), file.raw))

Only(ts, t) == \A u \in Threads \ {t} : ts[u].at = "idle"

Serial ==
  ~overlapped =>
    /\ up /\ Settled(mem, inodes, names, answered, seen)
    /\ \E t \in Threads : Only(thread, t) /\ Alone(thread[t], mem, inodes, names, answered)

\* The threads that have hashed x and not stored it yet.
Raws(ts, x) == {t \in Threads : ts[t].at = "raw" /\ ts[t].tx = x}

Counted ==
  /\ crashes \in Nat
  /\ (overlapped => crashes = 0) =>
       \A x \in Txs : Count(Hashed(mem), x) = Count(mem.raw, x) + Cardinality(Raws(thread, x))

LEMMA SoundAlike ==
  ASSUME NEW b, NEW c, Sound(b), Alike(b, c)
  PROVE  Sound(c)
<1>1. LinkedChain(c)
  BY DEF Sound, Alike, LinkedChain
<1>2. Tip(c) = Tip(b)
  BY DEF Alike, Tip
<1>3. AuthoritySound(c)
  BY <1>2 DEF Sound, Alike, AuthoritySound
<1> QED
  BY <1>1, <1>3 DEF Sound

\* A commit's block on a sound chain that admits it.
LEMMA CommitOK ==
  ASSUME NEW c \in ChainStates, NEW tx \in Txs, NEW code, Sound(c),
         code = Outcome(c, tx) \/ R!Admits(c, tx, code)
  PROVE  Sound(Effect(c, tx, code))
<1>1. /\ c \in R!ChainStates /\ R!AuthoritySound(c) /\ R!LinkedChain(c)
      /\ Txs \subseteq R!TxRecords
  BY RulesAgree DEF Sound
<1>2. R!LinkedChain(R!Effect(c, tx, code))
  BY <1>1, R!EffectLinked
<1>3. R!AuthoritySound(R!Effect(c, tx, code))
  <2>1. CASE code = Outcome(c, tx)
    BY <1>1, <2>1, RulesAgree, R!EffectSound
  <2>2. CASE R!Admits(c, tx, code)
    BY <1>1, <2>2, R!CommitSound
  <2> QED
    BY <2>1, <2>2
<1> QED
  BY <1>2, <1>3, RulesAgree DEF Sound

\* What one block more leaves.
LEMMA AppendShape ==
  ASSUME NEW c \in ChainStates, NEW tx \in Txs
  PROVE  /\ AppendBlock(c, tx).auth = c.auth
         /\ AppendBlock(c, tx).blocks = Append(c.blocks, Append(Tip(c), tx))
         /\ AppendBlock(c, tx).raw = Append(c.raw, tx)
<1> DEFINE bs == Append(c.blocks, Append(Tip(c), tx))
           ts == Append(c.raw, tx)
<1>1. AppendBlock(c, tx) = [c EXCEPT !.blocks = bs, !.raw = ts]
  BY DEF AppendBlock, Sha256
<1> HIDE DEF bs, ts
<1> QED
  BY <1>1 DEF bs, ts, ChainStates

\* Once the whitelist and the roots have been updated only the block is missing.
LEMMA ReadyOK ==
  ASSUME NEW c \in ChainStates, NEW tx \in Txs, Sound(c),
         NEW code \in Committing, code = Outcome(c, tx),
         NEW m \in ChainStates, m.auth = AuthAfter(c, tx, code),
         m.blocks = c.blocks, m.raw = c.raw
  PROVE  Ready(m, tx)
<1>1. Sound(Effect(c, tx, code))
  BY CommitOK
<1>2. Tip(m) = Tip(c)
  BY DEF Tip
<1>3. Alike(Effect(c, tx, code), AppendBlock(m, tx))
  <2>1. /\ Effect(c, tx, code).blocks = Append(c.blocks, Append(Tip(c), tx))
        /\ Effect(c, tx, code).raw = Append(c.raw, tx)
        /\ Effect(c, tx, code).auth = AuthAfter(c, tx, code)
    BY CommitShape
  <2>2. /\ AppendBlock(m, tx).auth = m.auth
        /\ AppendBlock(m, tx).blocks = Append(m.blocks, Append(Tip(m), tx))
        /\ AppendBlock(m, tx).raw = Append(m.raw, tx)
    BY AppendShape
  <2> QED
    BY <1>2, <2>1, <2>2 DEF Alike
<1> QED
  BY <1>1, <1>3, SoundAlike DEF Ready

\* An exclusion only takes a node off the whitelist.
LEMMA ExcludedOK ==
  ASSUME NEW c \in ChainStates, NEW tx \in Txs, Sound(c),
         NEW code \in Excluding, code = Outcome(c, tx),
         NEW m, m.auth = AuthAfter(c, tx, code), m.blocks = c.blocks, m.raw = c.raw
  PROVE  Sound(m)
<1> DEFINE as == AuthAfter(c, tx, code)
           rs == RootsAfter(c, tx, code)
           e == [c EXCEPT !.auth = as, !.roots = rs]
<1>1. Sound(Effect(c, tx, code))
  BY CommitOK
<1>2. Effect(c, tx, code) = e
  BY DEF Effect, Committing, Excluding
<1> HIDE DEF as, rs
<1>3. e.auth = as /\ e.blocks = c.blocks /\ e.raw = c.raw
  BY DEF ChainStates
<1> HIDE DEF e
<1>4. Alike(Effect(c, tx, code), m)
  BY <1>2, <1>3 DEF Alike, as
<1> QED
  BY <1>1, <1>4, SoundAlike

LEMMA FreshSound == Sound(Fresh({}))
  BY DEF Fresh, Sound, LinkedChain, AuthoritySound, Tip, GENESIS, Introduced

\* A start from a sound chain leaves one.
LEMMA BootSound ==
  ASSUME NEW c \in ChainStates, TreeOK(c), Sound(c)
  PROVE  /\ Sound(Booted(c)) /\ Sound(LoggedBoot(c))
         /\ Booted(c).raw = c.raw \/ Booted(c).raw = Append(c.raw, BootTx)
         /\ ~BootSaves(c) => Booted(c) = c
         /\ LoggedBoot(c).raw = Booted(c).raw
<1>1. BootTx \in Txs /\ "node_authenticated" \in Committing
  BY BootAssumption DEF Committing
<1>2. R!Admits(c, BootTx, "node_authenticated")
  BY BootAssumption DEF R!Admits, R!MayAuthenticate
<1> DEFINE e == Effect(c, BootTx, "node_authenticated")
<1>3. Sound(e) /\ e.raw = Append(c.raw, BootTx)
  BY <1>1, <1>2, CommitOK, CommitShape
<1> HIDE DEF e
<1>4. Booted(c) = (IF BootSaves(c) THEN e ELSE c)
  BY DEF Booted, BootSaves, e
<1>5. Sound(Booted(c))
  BY <1>3, <1>4
<1>6. Alike(Booted(c), LoggedBoot(c))
  BY BootOK DEF Alike
<1> QED
  BY <1>3, <1>4, <1>5, <1>6, SoundAlike DEF Alike

\* How often a transaction is in a sequence.
LEMMA CountMore ==
  ASSUME NEW s \in Seq(Txs), NEW tx \in Txs, NEW x
  PROVE  /\ Count(s, x) \in Nat
         /\ Count(Append(s, tx), x) = Count(s, x) + (IF x = tx THEN 1 ELSE 0)
<1> DEFINE r == Append(s, tx)
<1>1. OneMore(s, tx, r)
  BY AppendPositions
<1> HIDE DEF r
<1>2. \A q : Count(q, x) = Cardinality(Positions(q, x))
  BY DEF Count, Positions
<1>3. IsFiniteSet(Positions(s, x)) /\ Cardinality(Positions(s, x)) \in Nat
  <2>1. Positions(s, x) \subseteq 1..Len(s) /\ Len(s) \in Nat
    BY DEF Positions
  <2>2. IsFiniteSet(1..Len(s))
    BY <2>1, FS_Interval
  <2>3. IsFiniteSet(Positions(s, x))
    BY <2>1, <2>2, FS_Subset
  <2> QED
    BY <2>3, FS_CardinalityType
<1>4. CASE x = tx
  <2>1. /\ Positions(r, x) = Positions(s, x) \cup {Len(s) + 1}
        /\ Len(s) + 1 \notin Positions(s, x)
    BY <1>1, <1>4 DEF OneMore, Positions
  <2> QED
    BY <1>2, <1>3, <1>4, <2>1, FS_AddElement DEF r
<1>5. CASE x # tx
  BY <1>1, <1>2, <1>3, <1>5 DEF OneMore, r
<1> QED
  BY <1>4, <1>5

LEMMA NoneCounted == \A x : Count(<<>>, x) = 0
<1>1. \A x : {i \in DOMAIN <<>> : (<<>>)[i] = x} = {}
  OBVIOUS
<1> QED
  BY <1>1, FS_EmptySet DEF Count

\* More is stored, or more is answered and stored.
LEMMA KeptMore ==
  ASSUME NEW as \in Seq(Txs), NEW raw \in Seq(Txs), Kept(as, raw), NEW tx \in Txs
  PROVE  Kept(as, Append(raw, tx)) /\ Kept(Append(as, tx), Append(raw, tx))
<1>1. ASSUME NEW x \in Txs
      PROVE  /\ Count(as, x) \in Nat /\ Count(raw, x) \in Nat /\ Count(as, x) <= Count(raw, x)
             /\ Count(Append(as, tx), x) = Count(as, x) + (IF x = tx THEN 1 ELSE 0)
             /\ Count(Append(raw, tx), x) = Count(raw, x) + (IF x = tx THEN 1 ELSE 0)
  BY CountMore DEF Kept
<1>2. \A a, b, n \in Nat : a <= b => a <= b + n /\ a + n <= b + n
  OBVIOUS
<1>3. ASSUME NEW x \in Txs
      PROVE  /\ Count(as, x) <= Count(Append(raw, tx), x)
             /\ Count(Append(as, tx), x) <= Count(Append(raw, tx), x)
  <2>1. (IF x = tx THEN 1 ELSE 0) \in Nat
    OBVIOUS
  <2> QED
    BY <1>1, <1>2, <2>1
<1> QED
  BY <1>3 DEF Kept

\* What the state file may hold.
LEMMA FileTypes ==
  ASSUME IInv
  PROVE  /\ names.state \in 1..Len(inodes) /\ names.tmp \in 0..Len(inodes) /\ Len(inodes) \in Nat
         /\ inodes \in Seq(FileTexts) /\ inodes[names.state] \in FileTexts
         /\ inodes[names.state].c \in ChainStates /\ inodes[names.state].c.raw \in Seq(Txs)
         /\ TreeOK(inodes[names.state].c) /\ StateFile = inodes[names.state]
         /\ answered \in Seq(Txs)
<1>1. /\ inodes \in Seq(FileTexts) /\ names \in [state : 1..Len(inodes), tmp : 0..Len(inodes)]
      /\ \A i \in DOMAIN inodes : TreeOK(inodes[i].c)
      /\ Len(inodes) \in Nat
  BY StateTypes DEF IInv, FilesOK
<1>2. names.state \in 1..Len(inodes) /\ names.tmp \in 0..Len(inodes)
  BY <1>1
<1>3. PICK file : file = inodes[names.state] /\ file \in FileTexts /\ TreeOK(file.c)
  BY <1>1, <1>2
<1>4. file.c \in ChainStates
  BY <1>3 DEF FileTexts
<1>5. file.c.raw \in Seq(Txs)
  BY <1>4 DEF ChainStates
<1>6. StateFile = inodes[names.state]
  BY <1>1, <1>2 DEF StateFile
<1> QED
  BY <1>1, <1>2, <1>3, <1>4, <1>5, <1>6 DEF IInv, QueueOK

\* Nobody else moves while t is in a call.
LEMMA Mover ==
  ASSUME Serial, ~overlapped, NEW t \in Threads, thread[t].at # "idle"
  PROVE  /\ Only(thread, t) /\ Alone(thread[t], mem, inodes, names, answered)
         /\ up /\ Settled(mem, inodes, names, answered, seen)
  BY DEF Serial, Only

LEMMA Moved ==
  ASSUME IInv, NEW t \in Threads, NEW r, Only(thread, t),
         thread' = [thread EXCEPT ![t] = r], up',
         Settled(mem', inodes', names', answered', seen'),
         Alone(r, mem', inodes', names', answered')
  PROVE  Serial'
<1>1. thread'[t] = r /\ \A u \in Threads \ {t} : thread'[u] = thread[u]
  BY DEF IInv
<1>2. Only(thread', t)
  BY <1>1 DEF Only
<1> QED
  BY <1>1, <1>2 DEF Serial

\* A step that the file and the answers do not see, to a chain that has all it had.
LEMMA SettledStays ==
  ASSUME Settled(mem, inodes, names, answered, seen), Range(mem.raw) \subseteq Range(mem'.raw),
         UNCHANGED <<inodes, names, answered, seen>>
  PROVE  Settled(mem', inodes', names', answered', seen')
  BY DEF Settled

LEMMA StartSerial ==
  ASSUME IInv, Serial, NEW t \in Threads, NEW tx \in Txs, Start(t, tx)
  PROVE  Serial'
<1> DEFINE code == Outcome(mem, tx)
           r == [Idle EXCEPT !.at = FirstStep(code), !.tx = tx, !.code = code]
<1>1. /\ thread' = [thread EXCEPT ![t] = r] /\ overlapped' = (overlapped \/ Active # {})
      /\ UNCHANGED <<up, mem, inodes, names, queue, seen, answered>>
  BY DEF Start
<1> SUFFICES ASSUME ~overlapped' PROVE Serial'
  BY DEF Serial
<1>2. ~overlapped /\ \A u \in Threads : thread[u].at = "idle"
  BY <1>1 DEF Active
<1>3. PICK u \in Threads : Alone(thread[u], mem, inodes, names, answered)
  BY <1>2 DEF Serial
<1>4. /\ up /\ Settled(mem, inodes, names, answered, seen) /\ Only(thread, t)
      /\ Sound(mem) /\ mem.raw = inodes[names.state].c.raw
  BY <1>2, <1>3 DEF Serial, Only, Alone
<1> DEFINE l == FirstStep(code)
<1>5. /\ l \in {"exclude", "authorise", "root", "previous", "log"}
      /\ l = "exclude" => code \in Excluding
      /\ l = "authorise" => code = "node_authenticated"
      /\ l = "root" => code = "payload_committed"
      /\ l = "previous" => code = "app_signature_verified"
      /\ l = "log" => code \notin Committing
  BY DEF FirstStep, Committing, Excluding
<1>6. r = [Idle EXCEPT !.at = l, !.tx = tx, !.code = code]
  OBVIOUS
<1>7. code = Outcome(mem, tx)
  OBVIOUS
<1> HIDE DEF code, l
<1>8. r.at = l /\ r.tx = tx /\ r.code = code
  BY <1>6, IdleOK DEF Calls
<1> HIDE DEF r
<1>9. l = "previous" => Ready(mem, tx) /\ code \in Committing
  <2> SUFFICES ASSUME l = "previous" PROVE Ready(mem, tx) /\ code \in Committing
    OBVIOUS
  <2>1. code \in Committing /\ mem.auth = AuthAfter(mem, tx, code)
    BY <1>5 DEF Committing, AuthAfter, Excluding
  <2> QED
    BY <1>4, <1>7, <2>1, StateTypes, ReadyOK
<1>10. Alone(r, mem, inodes, names, answered)
  BY <1>4, <1>5, <1>7, <1>8, <1>9 DEF Alone
<1> QED
  BY <1>1, <1>4, <1>10, Moved

LEMMA UpdateWhitelistSerial ==
  ASSUME IInv, Serial, NEW t \in Threads, UpdateWhitelist(t)
  PROVE  Serial'
<1> DEFINE x == thread[t]
           as == AuthAfter(mem, x.tx, x.code)
           l == IF x.at = "exclude" THEN "save" ELSE "previous"
           r == [x EXCEPT !.at = l]
<1>1. /\ x.at \in {"exclude", "authorise"} /\ mem' = [mem EXCEPT !.auth = as]
      /\ thread' = [thread EXCEPT ![t] = r]
      /\ UNCHANGED <<inodes, names, up, queue, seen, answered, overlapped>>
  BY DEF UpdateWhitelist, Goto, world
<1> SUFFICES ASSUME ~overlapped PROVE Serial'
  BY <1>1 DEF Serial
<1>2. /\ Only(thread, t) /\ Alone(x, mem, inodes, names, answered)
      /\ up /\ Settled(mem, inodes, names, answered, seen)
  BY <1>1, Mover
<1>3. /\ Sound(mem) /\ mem.raw = inodes[names.state].c.raw /\ x.code = Outcome(mem, x.tx)
      /\ x.at = "exclude" => x.code \in Excluding
      /\ x.at = "authorise" => x.code = "node_authenticated"
  BY <1>1, <1>2 DEF Alone
<1>4. mem \in ChainStates /\ x \in Calls /\ x.tx \in Txs
  BY StateTypes
<1>5. as \in SUBSET Nodes
  BY <1>4, StateTypes DEF AuthAfter, ChainStates
<1>6. as = AuthAfter(mem, x.tx, x.code)
  OBVIOUS
<1>7. thread[t] = x /\ thread' = [thread EXCEPT ![t] = r]
  BY <1>1
<1> HIDE DEF as, x
<1>8. mem' \in ChainStates /\ mem'.auth = as /\ mem'.blocks = mem.blocks /\ mem'.raw = mem.raw
  BY <1>1, <1>4, <1>5 DEF ChainStates
<1>9. r.at = l /\ r.tx = x.tx /\ r.code = x.code
  BY <1>4 DEF Calls
<1>10. l \in {"save", "previous"} /\ (l = "save" <=> x.at = "exclude")
  OBVIOUS
<1> HIDE DEF l, r
<1>11. Alone(r, mem', inodes', names', answered')
  <2>1. CASE x.at = "exclude"
    <3>1. Sound(mem') /\ x.code \notin Committing
      BY <1>3, <1>4, <1>6, <1>8, <2>1, ExcludedOK DEF Excluding, Committing
    <3> QED
      BY <1>1, <1>3, <1>8, <1>9, <1>10, <2>1, <3>1 DEF Alone
  <2>2. CASE x.at = "authorise"
    <3>1. Ready(mem', x.tx) /\ x.code \in Committing
      BY <1>3, <1>4, <1>6, <1>8, <2>2, ReadyOK DEF Committing
    <3> QED
      BY <1>1, <1>3, <1>8, <1>9, <1>10, <2>2, <3>1 DEF Alone
  <2> QED
    BY <1>1, <2>1, <2>2
<1> QED
  BY <1>1, <1>2, <1>7, <1>8, <1>11, Moved, SettledStays

LEMMA RecordRootSerial ==
  ASSUME IInv, Serial, NEW t \in Threads, RecordRoot(t)
  PROVE  Serial'
<1> DEFINE x == thread[t]
           rs == RootsAfter(mem, x.tx, x.code)
           r == [x EXCEPT !.at = "previous"]
<1>1. /\ x.at = "root" /\ mem' = [mem EXCEPT !.roots = rs]
      /\ thread' = [thread EXCEPT ![t] = r]
      /\ UNCHANGED <<inodes, names, up, queue, seen, answered, overlapped>>
  BY DEF RecordRoot, Goto, world
<1> SUFFICES ASSUME ~overlapped PROVE Serial'
  BY <1>1 DEF Serial
<1>2. /\ Only(thread, t) /\ Alone(x, mem, inodes, names, answered)
      /\ up /\ Settled(mem, inodes, names, answered, seen)
  BY <1>1, Mover
<1>3. /\ Sound(mem) /\ mem.raw = inodes[names.state].c.raw /\ x.code = Outcome(mem, x.tx)
      /\ x.code = "payload_committed"
  BY <1>1, <1>2 DEF Alone
<1>4. mem \in ChainStates /\ x \in Calls /\ x.tx \in Txs /\ x.tx.data \in Data
  BY StateTypes
<1>5. rs \in Seq(Data)
  BY <1>4 DEF RootsAfter, ChainStates
<1>6. thread' = [thread EXCEPT ![t] = r]
  BY <1>1
<1> HIDE DEF rs, x
<1>7. mem' \in ChainStates /\ mem'.auth = mem.auth /\ mem'.blocks = mem.blocks /\ mem'.raw = mem.raw
  BY <1>1, <1>4, <1>5 DEF ChainStates
<1>8. r.at = "previous" /\ r.tx = x.tx /\ r.code = x.code
  BY <1>4 DEF Calls
<1> HIDE DEF r
<1>9. Ready(mem', x.tx) /\ x.code \in Committing
  BY <1>3, <1>4, <1>7, ReadyOK DEF Committing, Excluding, AuthAfter
<1>10. Alone(r, mem', inodes', names', answered')
  BY <1>1, <1>3, <1>7, <1>8, <1>9 DEF Alone
<1> QED
  BY <1>1, <1>2, <1>6, <1>7, <1>10, Moved, SettledStays

LEMMA ReadPreviousSerial ==
  ASSUME IInv, Serial, NEW t \in Threads, ReadPrevious(t)
  PROVE  Serial'
<1> DEFINE x == thread[t]
           p == Tip(mem)
           r == [x EXCEPT !.prev = p, !.at = "block"]
<1>1. /\ x.at = "previous" /\ thread' = [thread EXCEPT ![t] = r]
      /\ UNCHANGED <<mem, inodes, names, up, queue, seen, answered, overlapped>>
  BY DEF ReadPrevious, PreviousHash, world
<1> SUFFICES ASSUME ~overlapped PROVE Serial'
  BY <1>1 DEF Serial
<1>2. /\ Only(thread, t) /\ Alone(x, mem, inodes, names, answered)
      /\ up /\ Settled(mem, inodes, names, answered, seen)
  BY <1>1, Mover
<1>3. Ready(mem, x.tx) /\ mem.raw = inodes[names.state].c.raw /\ x.code \in Committing
  BY <1>1, <1>2 DEF Alone
<1>4. x \in Calls /\ p = Tip(mem) /\ thread' = [thread EXCEPT ![t] = r]
  BY <1>1, StateTypes
<1> HIDE DEF x, p
<1>5. r.at = "block" /\ r.tx = x.tx /\ r.code = x.code /\ r.prev = p
  BY <1>4 DEF Calls
<1> HIDE DEF r
<1>6. Alone(r, mem', inodes', names', answered')
  BY <1>1, <1>3, <1>4, <1>5 DEF Alone
<1> QED
  BY <1>1, <1>2, <1>4, <1>6, Moved, SettledStays

LEMMA AddBlockSerial ==
  ASSUME IInv, Serial, NEW t \in Threads, AddBlock(t)
  PROVE  Serial'
<1> DEFINE x == thread[t]
           bs == Append(mem.blocks, Append(x.prev, x.tx))
           r == [x EXCEPT !.at = "raw", !.prev = GENESIS]
           ts == Append(mem.raw, x.tx)
<1>1. /\ x.at = "block" /\ mem' = [mem EXCEPT !.blocks = bs]
      /\ thread' = [thread EXCEPT ![t] = r]
      /\ UNCHANGED <<inodes, names, up, queue, seen, answered, overlapped>>
  BY DEF AddBlock, Sha256, world
<1> SUFFICES ASSUME ~overlapped PROVE Serial'
  BY <1>1 DEF Serial
<1>2. /\ Only(thread, t) /\ Alone(x, mem, inodes, names, answered)
      /\ up /\ Settled(mem, inodes, names, answered, seen)
  BY <1>1, Mover
<1>3. /\ Ready(mem, x.tx) /\ mem.raw = inodes[names.state].c.raw /\ x.code \in Committing
      /\ x.prev = Tip(mem)
  BY <1>1, <1>2 DEF Alone
<1>4. /\ mem \in ChainStates /\ x \in Calls /\ x.tx \in Txs /\ mem.blocks \in Seq(Seq(Txs))
      /\ x.prev \in Seq(Txs)
  BY StateTypes
<1>5. bs \in Seq(Seq(Txs)) /\ bs = Append(mem.blocks, Append(Tip(mem), x.tx)) /\ ts = Append(mem.raw, x.tx)
  BY <1>3, <1>4
<1>6. thread' = [thread EXCEPT ![t] = r]
  BY <1>1
<1> HIDE DEF x, bs, ts
<1>7. /\ mem'.auth = mem.auth /\ mem'.blocks = bs /\ mem'.raw = mem.raw
      /\ mem' \in ChainStates
  BY <1>1, <1>4, <1>5 DEF ChainStates
<1>8. [mem' EXCEPT !.raw = ts].auth = mem.auth /\ [mem' EXCEPT !.raw = ts].blocks = bs
      /\ [mem' EXCEPT !.raw = ts].raw = ts
  BY <1>7 DEF ChainStates
<1>9. Sound([mem' EXCEPT !.raw = ts])
  BY <1>3, <1>4, <1>5, <1>8, AppendShape, SoundAlike DEF Alike, Ready
<1>10. r.at = "raw" /\ r.tx = x.tx /\ r.code = x.code
  BY <1>4 DEF Calls
<1> HIDE DEF r
<1>11. Alone(r, mem', inodes', names', answered')
  BY <1>1, <1>3, <1>5, <1>7, <1>9, <1>10 DEF Alone
<1> QED
  BY <1>1, <1>2, <1>6, <1>7, <1>11, Moved, SettledStays

LEMMA AddRawSerial ==
  ASSUME IInv, Serial, NEW t \in Threads, AddRaw(t)
  PROVE  Serial'
<1> DEFINE x == thread[t]
           ts == Append(mem.raw, x.tx)
           r == [x EXCEPT !.at = "announce"]
<1>1. /\ x.at = "raw" /\ mem' = [mem EXCEPT !.raw = ts]
      /\ thread' = [thread EXCEPT ![t] = r]
      /\ UNCHANGED <<inodes, names, up, queue, seen, answered, overlapped>>
  BY DEF AddRaw, RawAfter, Goto, world
<1> SUFFICES ASSUME ~overlapped PROVE Serial'
  BY <1>1 DEF Serial
<1>2. /\ Only(thread, t) /\ Alone(x, mem, inodes, names, answered)
      /\ up /\ Settled(mem, inodes, names, answered, seen)
  BY <1>1, Mover
<1>3. /\ Sound([mem EXCEPT !.raw = ts]) /\ mem.raw = inodes[names.state].c.raw
      /\ x.code \in Committing
  BY <1>1, <1>2 DEF Alone
<1>4. mem \in ChainStates /\ mem.raw \in Seq(Txs) /\ x \in Calls /\ x.tx \in Txs
  BY StateTypes
<1>5. Range(ts) = Range(mem.raw) \cup {x.tx} /\ ts = Append(mem.raw, x.tx)
  BY <1>4, AppendEntry
<1>6. thread' = [thread EXCEPT ![t] = r]
  BY <1>1
<1> HIDE DEF x, ts
<1>7. mem'.raw = ts /\ Sound(mem')
  BY <1>1, <1>3, <1>4 DEF ChainStates
<1>8. r.at = "announce" /\ r.tx = x.tx /\ r.code = x.code
  BY <1>4 DEF Calls
<1> HIDE DEF r
<1>9. Alone(r, mem', inodes', names', answered')
  BY <1>1, <1>3, <1>5, <1>7, <1>8 DEF Alone
<1> QED
  BY <1>1, <1>2, <1>5, <1>6, <1>7, <1>9, Moved, SettledStays

LEMMA AnnounceSerial ==
  ASSUME IInv, Serial, NEW t \in Threads, Announce(t)
  PROVE  Serial'
<1> DEFINE x == thread[t]
           r == [x EXCEPT !.at = "save"]
<1>1. /\ x.at = "announce" /\ thread' = [thread EXCEPT ![t] = r] /\ seen' = seen \cup {x.tx}
      /\ UNCHANGED <<mem, inodes, names, up, answered, overlapped>>
  BY DEF Announce, Goto, world
<1> SUFFICES ASSUME ~overlapped PROVE Serial'
  BY <1>1 DEF Serial
<1>2. /\ Only(thread, t) /\ Alone(x, mem, inodes, names, answered)
      /\ up /\ Settled(mem, inodes, names, answered, seen)
  BY <1>1, Mover
<1>3. Sound(mem) /\ mem.raw = Append(inodes[names.state].c.raw, x.tx) /\ x.code \in Committing
  BY <1>1, <1>2 DEF Alone
<1>4. x \in Calls /\ x.tx \in Txs /\ inodes[names.state].c.raw \in Seq(Txs)
  BY StateTypes, FileTypes
<1>5. x.tx \in Range(mem.raw)
  BY <1>3, <1>4, AppendEntry
<1>6. Settled(mem', inodes', names', answered', seen')
  BY <1>1, <1>2, <1>5 DEF Settled
<1>7. thread' = [thread EXCEPT ![t] = r]
  BY <1>1
<1> HIDE DEF x
<1>8. r.at = "save" /\ r.tx = x.tx /\ r.code = x.code
  BY <1>4 DEF Calls
<1> HIDE DEF r
<1>9. Alone(r, mem', inodes', names', answered')
  BY <1>1, <1>3, <1>8 DEF Alone
<1> QED
  BY <1>1, <1>2, <1>6, <1>7, <1>9, Moved

LEMMA BeginSaveSerial ==
  ASSUME IInv, Serial, NEW t \in Threads, BeginSave(t)
  PROVE  Serial'
<1> DEFINE x == thread[t]
           n == Cardinality(mem.auth)
           r == [x EXCEPT !.at = "whitelist", !.size = n]
<1>1. /\ x.at = "save" /\ thread' = [thread EXCEPT ![t] = r]
      /\ UNCHANGED <<mem, inodes, names, up, queue, seen, answered, overlapped>>
  BY DEF BeginSave, world
<1> SUFFICES ASSUME ~overlapped PROVE Serial'
  BY <1>1 DEF Serial
<1>2. /\ Only(thread, t) /\ Alone(x, mem, inodes, names, answered)
      /\ up /\ Settled(mem, inodes, names, answered, seen)
  BY <1>1, Mover
<1>3. x \in Calls /\ n = Cardinality(mem.auth) /\ thread' = [thread EXCEPT ![t] = r]
  BY <1>1, StateTypes
<1> HIDE DEF x, n
<1>4. r.at = "whitelist" /\ r.tx = x.tx /\ r.code = x.code /\ r.size = n
  BY <1>3 DEF Calls
<1> HIDE DEF r
<1>5. Alone(r, mem', inodes', names', answered')
  BY <1>1, <1>2, <1>3, <1>4 DEF Alone
<1> QED
  BY <1>1, <1>2, <1>3, <1>5, Moved, SettledStays

LEMMA CopyWhitelistSerial ==
  ASSUME IInv, Serial, NEW t \in Threads, CopyWhitelist(t)
  PROVE  Serial'
<1> DEFINE x == thread[t]
           as == mem.auth
           c == [x.copy EXCEPT !.auth = as]
           r == [x EXCEPT !.at = "copy", !.size = 0, !.field = 1, !.copy = c]
<1>1. /\ x.at = "whitelist"
      /\ thread' = [thread EXCEPT ![t] = IF Cardinality(mem.auth) # x.size THEN Idle ELSE r]
      /\ UNCHANGED <<mem, inodes, names, up, queue, seen, answered, overlapped>>
  BY DEF CopyWhitelist, world
<1> SUFFICES ASSUME ~overlapped PROVE Serial'
  BY <1>1 DEF Serial
<1>2. /\ Only(thread, t) /\ Alone(x, mem, inodes, names, answered)
      /\ up /\ Settled(mem, inodes, names, answered, seen)
  BY <1>1, Mover
<1>3. x.size = Cardinality(mem.auth)
  BY <1>1, <1>2 DEF Alone
<1>4. x \in Calls /\ thread' = [thread EXCEPT ![t] = r] /\ as = mem.auth
  BY <1>1, <1>3, StateTypes
<1> HIDE DEF x, as
<1>5. c.auth = as
  BY <1>4 DEF Calls, ChainStates
<1> HIDE DEF c
<1>6. r.at = "copy" /\ r.tx = x.tx /\ r.code = x.code /\ r.copy = c /\ r.field = 1
  BY <1>4 DEF Calls
<1> HIDE DEF r
<1>7. Alone(r, mem', inodes', names', answered')
  BY <1>1, <1>2, <1>4, <1>5, <1>6 DEF Alone
<1> QED
  BY <1>1, <1>2, <1>4, <1>7, Moved, SettledStays

LEMMA CopyFieldSerial ==
  ASSUME IInv, Serial, NEW t \in Threads, CopyField(t)
  PROVE  Serial'
<1> DEFINE x == thread[t]
           f == Fields[x.field]
           c == [x.copy EXCEPT ![f] = mem[f]]
           k == x.field + 1
           l == IF x.field = Len(Fields) THEN "open" ELSE "copy"
           r == [x EXCEPT !.copy = c, !.field = k, !.at = l]
<1>1. /\ x.at = "copy" /\ thread' = [thread EXCEPT ![t] = r]
      /\ UNCHANGED <<mem, inodes, names, up, queue, seen, answered, overlapped>>
  BY DEF CopyField, world
<1> SUFFICES ASSUME ~overlapped PROVE Serial'
  BY <1>1 DEF Serial
<1>2. /\ Only(thread, t) /\ Alone(x, mem, inodes, names, answered)
      /\ up /\ Settled(mem, inodes, names, answered, seen)
  BY <1>1, Mover
<1>3. /\ x.copy.auth = mem.auth
      /\ x.field > 2 => x.copy.blocks = mem.blocks
      /\ x.field > 3 => x.copy.raw = mem.raw
  BY <1>1, <1>2 DEF Alone
<1>4. x \in Calls /\ x.field \in 1..4 /\ mem \in ChainStates
  BY <1>1, StateTypes DEF CallOK
<1>5. x.copy \in ChainStates
  BY <1>4 DEF Calls
<1>6. /\ f \in {"roots", "blocks", "raw", "events"}
      /\ f = "blocks" <=> x.field = 2
      /\ f = "raw" <=> x.field = 3
      /\ l = "open" <=> x.field = 4
      /\ l \in {"open", "copy"} /\ k = x.field + 1
      /\ k > 2 <=> x.field > 1
      /\ k > 3 <=> x.field > 2
  BY <1>4 DEF Fields
<1>7. thread' = [thread EXCEPT ![t] = r]
  BY <1>1
<1> HIDE DEF x, f, k, l
<1>8. /\ c.auth = x.copy.auth
      /\ f = "blocks" => c.blocks = mem.blocks
      /\ f # "blocks" => c.blocks = x.copy.blocks
      /\ f = "raw" => c.raw = mem.raw
      /\ f # "raw" => c.raw = x.copy.raw
  BY <1>5, <1>6 DEF ChainStates
<1> HIDE DEF c
<1>9. /\ c.auth = mem.auth
      /\ k > 2 => c.blocks = mem.blocks
      /\ k > 3 => c.raw = mem.raw
      /\ l = "open" => c.blocks = mem.blocks /\ c.raw = mem.raw
  BY <1>3, <1>4, <1>6, <1>8
<1>10. r.at = l /\ r.tx = x.tx /\ r.code = x.code /\ r.copy = c /\ r.field = k
  BY <1>4 DEF Calls
<1> HIDE DEF r
<1>11. Alone(r, mem', inodes', names', answered')
  BY <1>1, <1>2, <1>6, <1>9, <1>10 DEF Alone, Alike
<1> QED
  BY <1>1, <1>2, <1>7, <1>11, Moved, SettledStays

LEMMA OpenTmpSerial ==
  ASSUME IInv, Serial, NEW t \in Threads, OpenTmp(t)
  PROVE  Serial'
<1> DEFINE x == thread[t]
           node == IF names.tmp = 0 THEN Len(inodes) + 1 ELSE names.tmp
           r == [x EXCEPT !.fd = node, !.at = "write"]
<1>1. /\ x.at = "open" /\ thread' = [thread EXCEPT ![t] = r]
      /\ inodes' = IF names.tmp = 0 THEN Append(inodes, Empty) ELSE [inodes EXCEPT ![node] = Empty]
      /\ names' = [names EXCEPT !.tmp = node]
      /\ UNCHANGED <<mem, up, queue, seen, answered, overlapped>>
  BY DEF OpenTmp, world
<1> SUFFICES ASSUME ~overlapped PROVE Serial'
  BY <1>1 DEF Serial
<1>2. /\ Only(thread, t) /\ Alone(x, mem, inodes, names, answered)
      /\ up /\ Settled(mem, inodes, names, answered, seen)
  BY <1>1, Mover
<1>3. /\ names.state \in 1..Len(inodes) /\ names.tmp \in 0..Len(inodes) /\ Len(inodes) \in Nat
      /\ inodes \in Seq(FileTexts) /\ names.tmp # names.state
      /\ DOMAIN names = {"state", "tmp"} /\ x \in Calls
  BY <1>2, FileTypes, StateTypes DEF Settled, IInv, FilesOK
<1>4. Empty.kind = "empty" /\ thread' = [thread EXCEPT ![t] = r]
  BY <1>1 DEF Empty
<1> HIDE DEF x, Empty
<1>5. /\ node # 0 /\ node # names.state /\ inodes'[node] = Empty
      /\ inodes'[names.state] = inodes[names.state]
  BY <1>1, <1>3
<1> HIDE DEF node
<1>6. names'.state = names.state /\ names'.tmp = node
  BY <1>1, <1>3
<1>7. r.at = "write" /\ r.tx = x.tx /\ r.code = x.code /\ r.copy = x.copy /\ r.fd = node
  BY <1>3 DEF Calls
<1> HIDE DEF r
<1>8. Settled(mem', inodes', names', answered', seen')
  BY <1>1, <1>2, <1>5, <1>6 DEF Settled
<1>9. /\ Sound(mem) /\ Alike(x.copy, mem)
      /\ IF x.code \in Committing THEN mem.raw = Append(inodes[names.state].c.raw, x.tx)
         ELSE mem.raw = inodes[names.state].c.raw
  BY <1>1, <1>2 DEF Alone
<1>10. mem' = mem /\ inodes'[names'.state] = inodes[names.state] /\ inodes'[names'.tmp] = Empty
  BY <1>1, <1>5, <1>6
<1>11. Alone(r, mem', inodes', names', answered')
  BY <1>4, <1>5, <1>6, <1>7, <1>9, <1>10 DEF Alone
<1> QED
  BY <1>1, <1>2, <1>4, <1>8, <1>11, Moved

LEMMA WriteTmpSerial ==
  ASSUME IInv, Serial, NEW t \in Threads, WriteTmp(t)
  PROVE  Serial'
<1> DEFINE x == thread[t]
           r == [Idle EXCEPT !.at = "replace", !.tx = x.tx, !.code = x.code]
<1>1. /\ x.at = "write" /\ thread' = [thread EXCEPT ![t] = r]
      /\ \E text \in Overwritten(inodes[x.fd], x.copy) : inodes' = [inodes EXCEPT ![x.fd] = text]
      /\ UNCHANGED <<mem, names, up, queue, seen, answered, overlapped>>
  BY DEF WriteTmp, world
<1> SUFFICES ASSUME ~overlapped PROVE Serial'
  BY <1>1 DEF Serial
<1>2. /\ Only(thread, t) /\ Alone(x, mem, inodes, names, answered)
      /\ up /\ Settled(mem, inodes, names, answered, seen)
  BY <1>1, Mover
<1>3. /\ Alike(x.copy, mem) /\ names.tmp # 0 /\ x.fd = names.tmp
      /\ inodes[names.tmp].kind = "empty"
  BY <1>1, <1>2 DEF Alone
<1>4. /\ names.state \in 1..Len(inodes) /\ names.tmp \in 1..Len(inodes)
      /\ inodes \in Seq(FileTexts) /\ names.tmp # names.state
  BY <1>2, <1>3, FileTypes DEF Settled
<1>5. inodes' = [inodes EXCEPT ![names.tmp] = Json(x.copy)]
  BY <1>1, <1>3 DEF Overwritten
<1>6. /\ inodes'[names.state] = inodes[names.state]
      /\ inodes'[names.tmp] = Json(x.copy)
  BY <1>4, <1>5
<1>7. thread' = [thread EXCEPT ![t] = r]
  BY <1>1
<1> HIDE DEF x
<1>8. Idle \in Calls
  BY IdleOK
<1> HIDE DEF Idle
<1>9. r.at = "replace" /\ r.tx = x.tx /\ r.code = x.code
  BY <1>8 DEF Calls
<1> HIDE DEF r
<1>10. Settled(mem', inodes', names', answered', seen')
  BY <1>1, <1>2, <1>6 DEF Settled
<1>11. Alone(r, mem', inodes', names', answered')
  BY <1>1, <1>2, <1>3, <1>6, <1>9 DEF Alone, Json
<1> QED
  BY <1>1, <1>2, <1>7, <1>10, <1>11, Moved

LEMMA ReplaceSerial ==
  ASSUME IInv, Serial, NEW t \in Threads, Replace(t)
  PROVE  Serial'
<1> DEFINE x == thread[t]
           r == [x EXCEPT !.at = "log"]
<1>1. /\ x.at = "replace"
      /\ names.tmp # 0 => /\ thread' = [thread EXCEPT ![t] = r]
                          /\ names' = [state |-> names.tmp, tmp |-> 0]
      /\ UNCHANGED <<mem, inodes, up, queue, seen, answered, overlapped>>
  BY DEF Replace, Goto, world
<1> SUFFICES ASSUME ~overlapped PROVE Serial'
  BY <1>1 DEF Serial
<1>2. /\ Only(thread, t) /\ Alone(x, mem, inodes, names, answered)
      /\ up /\ Settled(mem, inodes, names, answered, seen)
  BY <1>1, Mover
<1> DEFINE file == inodes[names.state].c
           next == inodes[names.tmp]
<1>3. /\ names.tmp # 0 /\ next.kind = "json" /\ Alike(next.c, mem) /\ Sound(mem)
      /\ mem.raw = IF x.code \in Committing THEN Append(file.raw, x.tx) ELSE file.raw
  BY <1>1, <1>2 DEF Alone
<1>4. Kept(answered, file.raw) /\ seen \subseteq Range(mem.raw)
  BY <1>2 DEF Settled
<1>5. answered \in Seq(Txs) /\ file.raw \in Seq(Txs) /\ x.tx \in Txs /\ x \in Calls
  BY FileTypes, StateTypes
<1>6. Sound(next.c) /\ next.c.raw = mem.raw
  BY <1>3, SoundAlike DEF Alike
<1>7. names'.state = names.tmp /\ names'.tmp = 0 /\ thread' = [thread EXCEPT ![t] = r]
  BY <1>1, <1>3
<1>8. inodes'[names'.state] = next
  BY <1>1, <1>7
<1> HIDE DEF file, next, x
<1>9. /\ Kept(answered, mem.raw)
      /\ x.code \in Committing => Kept(Append(answered, x.tx), mem.raw)
  BY <1>3, <1>4, <1>5, KeptMore
<1>10. r.at = "log" /\ r.tx = x.tx /\ r.code = x.code
  BY <1>5 DEF Calls
<1> HIDE DEF r
<1>11. Settled(mem', inodes', names', answered', seen')
  BY <1>1, <1>3, <1>4, <1>6, <1>7, <1>8, <1>9 DEF Settled
<1>12. Alone(r, mem', inodes', names', answered')
  BY <1>1, <1>3, <1>6, <1>8, <1>9, <1>10 DEF Alone
<1> QED
  BY <1>1, <1>2, <1>7, <1>11, <1>12, Moved

LEMMA AnswerSerial ==
  ASSUME IInv, Serial, NEW t \in Threads, Answer(t)
  PROVE  Serial'
<1> DEFINE x == thread[t]
           es == Append(mem.events, Level(x.code))
<1>1. /\ x.at = "log" /\ mem' = [mem EXCEPT !.events = es]
      /\ answered' = IF x.code \in Committing THEN Append(answered, x.tx) ELSE answered
      /\ thread' = [thread EXCEPT ![t] = Idle]
      /\ UNCHANGED <<inodes, names, up, queue, seen, overlapped>>
  BY DEF Answer, Logged, world
<1> SUFFICES ASSUME ~overlapped PROVE Serial'
  BY <1>1 DEF Serial
<1>2. /\ Only(thread, t) /\ Alone(x, mem, inodes, names, answered)
      /\ up /\ Settled(mem, inodes, names, answered, seen)
  BY <1>1, Mover
<1> DEFINE file == inodes[names.state].c
<1>3. /\ Sound(mem) /\ mem.raw = file.raw
      /\ x.code \in Committing => Kept(Append(answered, x.tx), file.raw)
  BY <1>1, <1>2 DEF Alone
<1>4. Kept(answered', file.raw)
  BY <1>1, <1>2, <1>3 DEF Settled
<1>5. mem \in ChainStates
  BY StateTypes
<1> HIDE DEF es
<1>6. mem'.auth = mem.auth /\ mem'.blocks = mem.blocks /\ mem'.raw = mem.raw
  BY <1>1, <1>5 DEF ChainStates
<1>7. Sound(mem')
  BY <1>3, <1>6, SoundAlike DEF Alike
<1>8. Settled(mem', inodes', names', answered', seen')
  BY <1>1, <1>2, <1>4, <1>6 DEF Settled
<1>9. Idle.at = "idle"
  BY DEF Idle
<1>10. Alone(Idle, mem', inodes', names', answered')
  BY <1>1, <1>3, <1>6, <1>7, <1>9 DEF Alone
<1> QED
  BY <1>1, <1>2, <1>8, <1>10, Moved

\* A start from a file with chain c, after which the state file is file.
LEMMA BootSettled ==
  ASSUME NEW c \in ChainStates, TreeOK(c), Sound(c), NEW as, Kept(as, c.raw), as \in Seq(Txs),
         NEW is, NEW ns, ns.tmp # ns.state,
         is[ns.state].kind = "json", is[ns.state].c = Booted(c)
  PROVE  /\ Settled(LoggedBoot(c), is, ns, as, {})
         /\ Alone(Idle, LoggedBoot(c), is, ns, as)
<1>1. /\ Sound(Booted(c)) /\ Sound(LoggedBoot(c))
      /\ Booted(c).raw = c.raw \/ Booted(c).raw = Append(c.raw, BootTx)
      /\ LoggedBoot(c).raw = Booted(c).raw
  BY BootSound
<1>2. c.raw \in Seq(Txs) /\ BootTx \in Txs
  BY BootAssumption DEF ChainStates
<1>3. Kept(as, Booted(c).raw)
  BY <1>1, <1>2, KeptMore
<1>4. Idle.at = "idle"
  BY DEF Idle
<1> QED
  BY <1>1, <1>3, <1>4 DEF Settled, Alone

\* Nobody is in a call.
LEMMA NobodyActive ==
  ASSUME thread' = [u \in Threads |-> Idle], up',
         Settled(mem', inodes', names', answered', seen'),
         Alone(Idle, mem', inodes', names', answered')
  PROVE  Serial'
<1>1. PICK t \in Threads : TRUE
  BY ThreadsAssumption
<1>2. thread'[t] = Idle /\ Only(thread', t)
  BY IdleOK DEF Only
<1> QED
  BY <1>2 DEF Serial

LEMMA CrashSerial ==
  ASSUME IInv, Serial, Crash
  PROVE  Serial'
<1> SUFFICES ASSUME ~overlapped PROVE Serial'
  BY DEF Crash, Serial
<1> DEFINE c == StateFile.c
           text == Json(Booted(c))
<1>1. Settled(mem, inodes, names, answered, seen)
  BY DEF Serial
<1>2. /\ names.state \in 1..Len(inodes) /\ names.tmp \in 0..Len(inodes) /\ Len(inodes) \in Nat
      /\ inodes \in Seq(FileTexts) /\ StateFile = inodes[names.state]
      /\ c \in ChainStates /\ TreeOK(c) /\ answered \in Seq(Txs)
  BY FileTypes
<1>3. /\ StateFile.kind = "json" /\ Sound(c) /\ Kept(answered, c.raw) /\ names.tmp # names.state
  BY <1>1, <1>2 DEF Settled
<1>4. /\ thread' = [u \in Threads |-> Idle] /\ seen' = {} /\ answered' = answered /\ up' = TRUE
      /\ mem' = LoggedBoot(c)
      /\ BootSaves(c) => /\ inodes' = Append(inodes, text)
                         /\ names' = [state |-> Len(inodes) + 1, tmp |-> 0]
      /\ ~BootSaves(c) => UNCHANGED <<inodes, names>>
  BY <1>3 DEF Crash
<1>5. ~BootSaves(c) => Booted(c) = c
  BY <1>2, <1>3, BootSound
<1>6. text.kind = "json" /\ text.c = Booted(c)
  BY DEF Json
<1> HIDE DEF text
<1>7. /\ names'.tmp # names'.state /\ inodes'[names'.state].kind = "json"
      /\ inodes'[names'.state].c = Booted(c)
  <2>1. CASE BootSaves(c)
    <3>1. names'.state = Len(inodes) + 1 /\ names'.tmp = 0 /\ inodes'[Len(inodes) + 1] = text
      BY <1>2, <1>4, <2>1
    <3> QED
      BY <1>2, <1>6, <3>1
  <2>2. CASE ~BootSaves(c)
    BY <1>2, <1>3, <1>4, <1>5, <2>2
  <2> QED
    BY <2>1, <2>2
<1> HIDE DEF c
<1>8. /\ Settled(mem', inodes', names', answered', seen')
      /\ Alone(Idle, mem', inodes', names', answered')
  BY <1>2, <1>3, <1>4, <1>7, BootSettled
<1> QED
  BY <1>4, <1>8, NobodyActive

LEMMA InitSerial ==
  ASSUME Init
  PROVE  Serial
<1> DEFINE c == Fresh({})
           text == Json(Booted(c))
<1>1. /\ up = TRUE /\ mem = LoggedBoot(c) /\ thread = [u \in Threads |-> Idle]
      /\ inodes = <<text>> /\ names = [state |-> 1, tmp |-> 0]
      /\ seen = {} /\ answered = <<>>
  BY DEF Init
<1>2. c \in ChainStates /\ TreeOK(c) /\ Sound(c) /\ c.raw = <<>>
  BY FreshOK, FreshSound DEF Fresh
<1>3. Kept(answered, c.raw) /\ answered \in Seq(Txs)
  BY <1>1, <1>2, NoneCounted, EmptySeq DEF Kept
<1>4. text.kind = "json" /\ text.c = Booted(c)
  BY DEF Json
<1> HIDE DEF c, text
<1>5. /\ names.tmp # names.state /\ inodes[names.state].kind = "json"
      /\ inodes[names.state].c = Booted(c)
  BY <1>1, <1>4
<1>6. /\ Settled(mem, inodes, names, answered, seen)
      /\ Alone(Idle, mem, inodes, names, answered)
  BY <1>1, <1>2, <1>3, <1>5, BootSettled
<1>7. PICK t \in Threads : TRUE
  BY ThreadsAssumption
<1>8. thread[t] = Idle /\ Only(thread, t)
  BY <1>1, IdleOK DEF Only
<1> QED
  BY <1>1, <1>6, <1>8 DEF Serial

LEMMA StepSerial ==
  ASSUME IInv, Serial, [Next]_vars
  PROVE  Serial'
<1>1. CASE UNCHANGED vars
  <2>1. UNCHANGED <<up, mem, thread, inodes, names, answered, seen, overlapped>>
    BY <1>1 DEF vars
  <2> QED
    BY <2>1 DEF Serial
<1>2. CASE Crash
  BY <1>2, CrashSerial
<1>3. ASSUME NEW t \in Threads, NEW tx \in Txs, Start(t, tx)
      PROVE  Serial'
  BY <1>3, StartSerial
<1>4. ASSUME NEW t \in Threads, Submitting(t)
      PROVE  Serial'
  BY <1>4, UpdateWhitelistSerial, RecordRootSerial, ReadPreviousSerial, AddBlockSerial,
     AddRawSerial, AnnounceSerial, BeginSaveSerial, CopyWhitelistSerial, CopyFieldSerial,
     OpenTmpSerial, WriteTmpSerial, ReplaceSerial, AnswerSerial
     DEF Submitting
<1> QED
  BY <1>1, <1>2, <1>3, <1>4 DEF Next

-----------------------------------------------------------------------------
(* Hashes and raw transactions, however calls overlap. *)

\* Blocks hash what they carry.
LEMMA LinkedCounts ==
  ASSUME NEW c \in ChainStates, LinkedChain(c), NEW x
  PROVE  Count(Hashed(c), x) = Count(c.raw, x)
<1>1. /\ c.blocks \in Seq(Seq(Txs)) /\ c.raw \in Seq(Txs)
      /\ DOMAIN c.blocks = 1..Len(c.blocks) /\ DOMAIN c.raw = 1..Len(c.raw)
      /\ Len(c.raw) = Len(c.blocks) /\ Len(c.blocks) \in Nat
  BY DEF ChainStates, LinkedChain
<1>2. ASSUME NEW i \in DOMAIN c.blocks
      PROVE  Last(c.blocks[i]) = c.raw[i]
  <2>1. CASE i = 1
    <3>1. c.blocks # <<>>
      BY <1>1
    <3> QED
      BY <2>1, <3>1 DEF LinkedChain
  <2>2. CASE i # 1
    <3>1. i > 1 /\ i - 1 \in 1..Len(c.blocks) /\ i \in 1..Len(c.raw)
      BY <1>1, <2>2
    <3>2. c.blocks[i] = Append(c.blocks[i - 1], c.raw[i])
      BY <3>1 DEF LinkedChain, Sha256
    <3>3. c.blocks[i - 1] \in Seq(Txs) /\ c.raw[i] \in Txs
      BY <1>1, <3>1
    <3> QED
      BY <3>2, <3>3, ParentOfDigest
  <2> QED
    BY <2>1, <2>2
<1>3. {i \in DOMAIN Hashed(c) : Hashed(c)[i] = x} = {i \in DOMAIN c.raw : c.raw[i] = x}
  BY <1>1, <1>2 DEF Hashed
<1> QED
  BY <1>3 DEF Count

\* The blocks of c hash tx once more than those of b.
HashesMore(b, c, tx) ==
  \A x : /\ Count(Hashed(b), x) \in Nat
         /\ Count(Hashed(c), x) = Count(Hashed(b), x) + (IF x = tx THEN 1 ELSE 0)

LEMMA HashedMore ==
  ASSUME NEW b, NEW c, b.blocks \in Seq(Seq(Txs)), NEW p \in Seq(Txs), NEW tx \in Txs,
         c.blocks = Append(b.blocks, Append(p, tx))
  PROVE  HashesMore(b, c, tx)
<1> SUFFICES ASSUME NEW x
             PROVE  /\ Count(Hashed(b), x) \in Nat
                    /\ Count(Hashed(c), x) = Count(Hashed(b), x) + (IF x = tx THEN 1 ELSE 0)
  BY DEF HashesMore
<1> DEFINE n == Len(b.blocks)
           q == Append(p, tx)
           S == {i \in DOMAIN Hashed(b) : Hashed(b)[i] = x}
           T == {i \in DOMAIN Hashed(c) : Hashed(c)[i] = x}
<1>1. /\ n \in Nat /\ DOMAIN b.blocks = 1..n /\ DOMAIN c.blocks = 1..(n + 1)
      /\ \A i \in 1..n : c.blocks[i] = b.blocks[i]
      /\ c.blocks[n + 1] = q
  <2>1. q \in Seq(Txs)
    OBVIOUS
  <2> HIDE DEF q
  <2> QED
    BY <2>1 DEF q
<1>2. Last(q) = tx
  BY ParentOfDigest
<1> HIDE DEF n, q
<1>3. /\ S = {i \in 1..n : Last(b.blocks[i]) = x}
      /\ T = {i \in 1..(n + 1) : Last(c.blocks[i]) = x}
  BY <1>1 DEF Hashed
<1> HIDE DEF S, T
<1>4. S \subseteq 1..n /\ n + 1 \notin S
  BY <1>1, <1>3
<1>5. IsFiniteSet(S) /\ Cardinality(S) \in Nat
  <2>1. IsFiniteSet(1..n)
    BY <1>1, FS_Interval
  <2>2. IsFiniteSet(S)
    BY <1>4, <2>1, FS_Subset
  <2> QED
    BY <2>2, FS_CardinalityType
<1>6. Cardinality(T) = Cardinality(S) + (IF x = tx THEN 1 ELSE 0)
  <2>1. /\ \A i : i \in 1..(n + 1) <=> i \in 1..n \/ i = n + 1
        /\ n + 1 \notin 1..n
    BY <1>1
  <2>2. \A i \in 1..n : i \in T <=> i \in S
    BY <1>1, <1>3, <2>1
  <2>3. n + 1 \in T <=> x = tx
    BY <1>1, <1>2, <1>3, <2>1
  <2>4. \A i : i \in T \/ i \in S => i \in 1..n \/ i = n + 1
    BY <1>3, <2>1
  <2>5. CASE x = tx
    <3>1. T = S \cup {n + 1}
      BY <1>4, <2>2, <2>3, <2>4, <2>5
    <3> QED
      BY <1>4, <1>5, <2>5, <3>1, FS_AddElement
  <2>6. CASE x # tx
    <3>1. T = S
      BY <1>4, <2>2, <2>3, <2>4, <2>6
    <3> QED
      BY <1>5, <2>6, <3>1
  <2> QED
    BY <2>5, <2>6
<1> QED
  BY <1>5, <1>6 DEF Count, S, T

\* Threads come to where their transaction is hashed and not stored, and leave.
LEMMA RawsMove ==
  ASSUME NEW ts, NEW us, NEW t \in Threads, \A u \in Threads \ {t} : us[u] = ts[u], NEW x
  PROVE  /\ Cardinality(Raws(ts, x)) \in Nat /\ Cardinality(Raws(us, x)) \in Nat
         /\ (t \in Raws(ts, x) <=> t \in Raws(us, x)) =>
              Cardinality(Raws(us, x)) = Cardinality(Raws(ts, x))
         /\ t \notin Raws(ts, x) /\ t \in Raws(us, x) =>
              Cardinality(Raws(us, x)) = Cardinality(Raws(ts, x)) + 1
<1> DEFINE S == Raws(ts, x)
           T == Raws(us, x)
<1>1. S \ {t} = T \ {t} /\ S \subseteq Threads /\ T \subseteq Threads
  BY DEF Raws
<1>2. IsFiniteSet(S) /\ IsFiniteSet(T)
  BY <1>1, ThreadsAssumption, FS_Subset
<1>3. Cardinality(S) \in Nat /\ Cardinality(T) \in Nat
  BY <1>2, FS_CardinalityType
<1> HIDE DEF S, T
<1>4. (t \in S <=> t \in T) => S = T
  BY <1>1
<1>5. ASSUME t \notin S, t \in T PROVE Cardinality(T) = Cardinality(S) + 1
  <2>1. T = S \cup {t}
    BY <1>1, <1>5
  <2> QED
    BY <1>2, <1>5, <2>1, FS_AddElement
<1> QED
  BY <1>3, <1>4, <1>5 DEF S, T

\* A step of t that neither hashes nor stores a transaction.
Quiet(t) ==
  /\ \E r : thread' = [thread EXCEPT ![t] = r] /\ r.at # "raw"
  /\ thread[t].at # "raw"
  /\ mem'.blocks = mem.blocks /\ mem'.raw = mem.raw
  /\ overlapped => overlapped'
  /\ crashes' = crashes

LEMMA QuietCounted ==
  ASSUME IInv, Counted, NEW t \in Threads, Quiet(t)
  PROVE  Counted'
<1>1. PICK r : thread' = [thread EXCEPT ![t] = r] /\ r.at # "raw"
  BY DEF Quiet
<1>2. \A x : t \notin Raws(thread, x) /\ t \notin Raws(thread', x)
  BY <1>1 DEF Quiet, Raws, IInv
<1>3. \A x : Cardinality(Raws(thread', x)) = Cardinality(Raws(thread, x))
  <2>1. \A u \in Threads \ {t} : thread'[u] = thread[u]
    BY <1>1 DEF IInv
  <2> QED
    BY <1>2, <2>1, RawsMove
<1>4. Hashed(mem') = Hashed(mem) /\ mem'.raw = mem.raw
  BY DEF Quiet, Hashed
<1>5. /\ overlapped => overlapped'
      /\ crashes' = crashes
  BY DEF Quiet
<1> QED
  BY <1>3, <1>4, <1>5 DEF Counted

LEMMA StartQuiet ==
  ASSUME IInv, NEW t \in Threads, NEW tx \in Txs, Start(t, tx)
  PROVE  Quiet(t)
<1> DEFINE code == Outcome(mem, tx)
           l == FirstStep(code)
           r == [Idle EXCEPT !.at = l, !.tx = tx, !.code = code]
<1>1. /\ thread' = [thread EXCEPT ![t] = r] /\ thread[t].at = "idle" /\ mem' = mem
      /\ overlapped' = (overlapped \/ Active # {}) /\ crashes' = crashes
  BY DEF Start
<1>2. l # "raw"
  BY DEF FirstStep
<1> HIDE DEF code, l
<1>3. r.at = l
  BY IdleOK DEF Calls
<1> QED
  BY <1>1, <1>2, <1>3 DEF Quiet

\* A thread that goes to another label only.
LEMMA GotoQuiet ==
  ASSUME IInv, NEW t \in Threads, NEW l, Goto(t, l), l # "raw", thread[t].at # "raw",
         mem'.blocks = mem.blocks, mem'.raw = mem.raw, UNCHANGED world
  PROVE  Quiet(t)
<1>1. thread[t] \in Calls
  BY StateTypes
<1> DEFINE r == [thread[t] EXCEPT !.at = l]
<1>2. r.at = l
  BY <1>1 DEF Calls
<1>3. thread' = [thread EXCEPT ![t] = r]
  BY DEF Goto
<1> HIDE DEF r
<1> QED
  BY <1>2, <1>3 DEF Quiet, world

LEMMA SubmittingQuiet ==
  ASSUME IInv, NEW t \in Threads, Submitting(t), ~AddBlock(t), ~AddRaw(t)
  PROVE  Quiet(t)
<1>1. mem \in ChainStates /\ thread[t] \in Calls
  BY StateTypes
<1>2. Idle.at = "idle" /\ Idle \in Calls
  BY IdleOK
<1>3. CASE UpdateWhitelist(t)
  <2> DEFINE as == AuthAfter(mem, thread[t].tx, thread[t].code)
             l == IF thread[t].at = "exclude" THEN "save" ELSE "previous"
  <2>1. /\ mem' = [mem EXCEPT !.auth = as] /\ Goto(t, l) /\ UNCHANGED world
        /\ thread[t].at \in {"exclude", "authorise"}
    BY <1>3 DEF UpdateWhitelist
  <2>2. l # "raw"
    OBVIOUS
  <2> HIDE DEF as, l
  <2>3. mem'.blocks = mem.blocks /\ mem'.raw = mem.raw
    BY <1>1, <2>1 DEF ChainStates
  <2> QED
    BY <2>1, <2>2, <2>3, GotoQuiet
<1>4. CASE RecordRoot(t)
  <2> DEFINE rs == RootsAfter(mem, thread[t].tx, thread[t].code)
  <2>1. /\ mem' = [mem EXCEPT !.roots = rs] /\ Goto(t, "previous") /\ UNCHANGED world
        /\ thread[t].at = "root"
    BY <1>4 DEF RecordRoot
  <2> HIDE DEF rs
  <2>2. mem'.blocks = mem.blocks /\ mem'.raw = mem.raw
    BY <1>1, <2>1 DEF ChainStates
  <2> QED
    BY <2>1, <2>2, GotoQuiet
<1>5. CASE ReadPrevious(t)
  <2> DEFINE r == [thread[t] EXCEPT !.prev = Tip(mem), !.at = "block"]
  <2>1. thread[t].at = "previous" /\ thread' = [thread EXCEPT ![t] = r] /\ UNCHANGED <<mem, world>>
    BY <1>5 DEF ReadPrevious, PreviousHash
  <2>2. r.at = "block"
    BY <1>1 DEF Calls
  <2> HIDE DEF r
  <2> QED
    BY <2>1, <2>2 DEF Quiet, world
<1>6. CASE Announce(t)
  BY <1>6, GotoQuiet DEF Announce
<1>7. CASE BeginSave(t)
  <2> DEFINE r == [thread[t] EXCEPT !.at = "whitelist", !.size = Cardinality(mem.auth)]
  <2>1. thread[t].at = "save" /\ thread' = [thread EXCEPT ![t] = r] /\ UNCHANGED <<mem, world>>
    BY <1>7 DEF BeginSave
  <2>2. r.at = "whitelist"
    BY <1>1 DEF Calls
  <2> HIDE DEF r
  <2> QED
    BY <2>1, <2>2 DEF Quiet, world
<1>8. CASE CopyWhitelist(t)
  <2> DEFINE c == [thread[t].copy EXCEPT !.auth = mem.auth]
             x == [thread[t] EXCEPT !.at = "copy", !.size = 0, !.field = 1, !.copy = c]
             r == IF Cardinality(mem.auth) # thread[t].size THEN Idle ELSE x
  <2>1. thread[t].at = "whitelist" /\ thread' = [thread EXCEPT ![t] = r] /\ UNCHANGED <<mem, world>>
    BY <1>8 DEF CopyWhitelist
  <2> HIDE DEF c
  <2>2. x.at = "copy"
    BY <1>1 DEF Calls
  <2> HIDE DEF x
  <2>3. r.at # "raw"
    BY <1>2, <2>2
  <2> HIDE DEF r
  <2> QED
    BY <2>1, <2>3 DEF Quiet, world
<1>9. CASE CopyField(t)
  <2> DEFINE f == Fields[thread[t].field]
             c == [thread[t].copy EXCEPT ![f] = mem[f]]
             k == thread[t].field + 1
             l == IF thread[t].field = Len(Fields) THEN "open" ELSE "copy"
             r == [thread[t] EXCEPT !.copy = c, !.field = k, !.at = l]
  <2>1. thread[t].at = "copy" /\ thread' = [thread EXCEPT ![t] = r] /\ UNCHANGED <<mem, world>>
    BY <1>9 DEF CopyField
  <2>2. l # "raw"
    OBVIOUS
  <2> HIDE DEF c, k, l
  <2>3. r.at = l
    BY <1>1 DEF Calls
  <2> HIDE DEF r
  <2> QED
    BY <2>1, <2>2, <2>3 DEF Quiet, world
<1>10. CASE OpenTmp(t)
  <2> DEFINE node == IF names.tmp = 0 THEN Len(inodes) + 1 ELSE names.tmp
             r == [thread[t] EXCEPT !.fd = node, !.at = "write"]
  <2>1. thread[t].at = "open" /\ thread' = [thread EXCEPT ![t] = r] /\ UNCHANGED <<mem, world>>
    BY <1>10 DEF OpenTmp
  <2> HIDE DEF node
  <2>2. r.at = "write"
    BY <1>1 DEF Calls
  <2> HIDE DEF r
  <2> QED
    BY <2>1, <2>2 DEF Quiet, world
<1>11. CASE WriteTmp(t)
  <2> DEFINE r == [Idle EXCEPT !.at = "replace", !.tx = thread[t].tx, !.code = thread[t].code]
  <2>1. thread[t].at = "write" /\ thread' = [thread EXCEPT ![t] = r] /\ UNCHANGED <<mem, world>>
    BY <1>11 DEF WriteTmp
  <2>2. r.at = "replace"
    BY <1>2 DEF Calls
  <2> HIDE DEF r
  <2> QED
    BY <2>1, <2>2 DEF Quiet, world
<1>12. CASE Replace(t)
  <2>1. CASE Goto(t, "log")
    BY <1>12, <2>1, GotoQuiet DEF Replace
  <2>2. CASE thread' = [thread EXCEPT ![t] = Idle]
    BY <1>2, <1>12, <2>2 DEF Replace, Quiet, world
  <2> QED
    BY <1>12, <2>1, <2>2 DEF Replace
<1>13. CASE Answer(t)
  <2> DEFINE es == Append(mem.events, Level(thread[t].code))
  <2>1. /\ thread[t].at = "log" /\ thread' = [thread EXCEPT ![t] = Idle] /\ UNCHANGED world
        /\ mem' = [mem EXCEPT !.events = es]
    BY <1>13 DEF Answer, Logged
  <2> HIDE DEF es
  <2>2. mem'.blocks = mem.blocks /\ mem'.raw = mem.raw
    BY <1>1, <2>1 DEF ChainStates
  <2> QED
    BY <1>2, <2>1, <2>2 DEF Quiet, world
<1> QED
  BY <1>3, <1>4, <1>5, <1>6, <1>7, <1>8, <1>9, <1>10, <1>11, <1>12, <1>13 DEF Submitting

LEMMA AddBlockCounted ==
  ASSUME IInv, Counted, NEW t \in Threads, AddBlock(t)
  PROVE  Counted'
<1> DEFINE own == thread[t]
           bs == Append(mem.blocks, Append(own.prev, own.tx))
           r == [own EXCEPT !.at = "raw", !.prev = GENESIS]
<1>1. /\ own.at = "block" /\ mem' = [mem EXCEPT !.blocks = bs]
      /\ thread' = [thread EXCEPT ![t] = r] /\ UNCHANGED <<overlapped, crashes>>
  BY DEF AddBlock, Sha256, world
<1>2. /\ mem \in ChainStates /\ own \in Calls /\ own.tx \in Txs /\ own.prev \in Seq(Txs)
      /\ mem.blocks \in Seq(Seq(Txs)) /\ mem.raw \in Seq(Txs) /\ thread \in [Threads -> Calls]
  BY StateTypes DEF IInv
<1>3. bs = Append(mem.blocks, Append(own.prev, own.tx)) /\ own = thread[t]
  OBVIOUS
<1>4. thread' = [thread EXCEPT ![t] = r]
  BY <1>1
<1> HIDE DEF bs, own
<1>5. mem'.blocks = bs /\ mem'.raw = mem.raw
  BY <1>1, <1>2 DEF ChainStates
<1>6. r.at = "raw" /\ r.tx = own.tx
  BY <1>2 DEF Calls
<1> HIDE DEF r
<1>9. /\ \A u \in Threads \ {t} : thread'[u] = thread[u]
      /\ \A u \in Threads \ {t} : thread[u] = thread'[u]
  BY <1>2, <1>4
<1>7. ASSUME NEW x \in Txs, Count(Hashed(mem), x) = Count(mem.raw, x) + Cardinality(Raws(thread, x))
      PROVE  Count(Hashed(mem'), x) = Count(mem'.raw, x) + Cardinality(Raws(thread', x))
  <2>1. PICK n \in Nat : n = IF x = own.tx THEN 1 ELSE 0
    OBVIOUS
  <2>2. Count(Hashed(mem'), x) = Count(Hashed(mem), x) + n
    <3>1. mem'.blocks = Append(mem.blocks, Append(own.prev, own.tx))
      BY <1>3, <1>5
    <3>2. Count(Hashed(mem'), x) = Count(Hashed(mem), x) + (IF x = own.tx THEN 1 ELSE 0)
      <4>1. own.prev \in Seq(Txs) /\ own.tx \in Txs /\ mem.blocks \in Seq(Seq(Txs))
        BY <1>2
      <4>2. HashesMore(mem, mem', own.tx)
        BY <3>1, <4>1, HashedMore
      <4> QED
        BY <4>2 DEF HashesMore
    <3> QED
      BY <2>1, <3>2
  <2>3. Count(mem.raw, x) \in Nat /\ Cardinality(Raws(thread, x)) \in Nat
    BY <1>2, <1>9, CountMore, RawsMove
  <2>4. Cardinality(Raws(thread', x)) = Cardinality(Raws(thread, x)) + n
    <3>1. t \notin Raws(thread, x) /\ (t \in Raws(thread', x) <=> x = own.tx)
      BY <1>1, <1>2, <1>3, <1>6 DEF Raws
    <3>2. CASE x = own.tx
      BY <1>9, <2>1, <3>1, <3>2, RawsMove
    <3>3. CASE x # own.tx
      <4>1. Cardinality(Raws(thread', x)) = Cardinality(Raws(thread, x))
        BY <1>9, <3>1, <3>3, RawsMove
      <4> QED
        BY <2>1, <2>3, <3>3, <4>1
    <3> QED
      BY <3>2, <3>3
  <2>5. \A a, b, e \in Nat : (a + b) + e = a + (b + e)
    OBVIOUS
  <2> QED
    BY <1>5, <1>7, <2>1, <2>2, <2>3, <2>4, <2>5
<1> QED
  BY <1>1, <1>7 DEF Counted

LEMMA AddRawCounted ==
  ASSUME IInv, Counted, NEW t \in Threads, AddRaw(t)
  PROVE  Counted'
<1> DEFINE own == thread[t]
           ts == Append(mem.raw, own.tx)
           r == [own EXCEPT !.at = "announce"]
<1>1. /\ own.at = "raw" /\ mem' = [mem EXCEPT !.raw = ts]
      /\ thread' = [thread EXCEPT ![t] = r] /\ UNCHANGED <<overlapped, crashes>>
  BY DEF AddRaw, RawAfter, Goto, world
<1>2. /\ mem \in ChainStates /\ own \in Calls /\ own.tx \in Txs
      /\ mem.raw \in Seq(Txs) /\ thread \in [Threads -> Calls]
  BY StateTypes DEF IInv
<1>3. ts = Append(mem.raw, own.tx) /\ own = thread[t]
  OBVIOUS
<1>4. thread' = [thread EXCEPT ![t] = r]
  BY <1>1
<1> HIDE DEF ts, own
<1>5. mem'.blocks = mem.blocks /\ mem'.raw = ts
  BY <1>1, <1>2 DEF ChainStates
<1>6. r.at = "announce"
  BY <1>2 DEF Calls
<1> HIDE DEF r
<1>7. Hashed(mem') = Hashed(mem)
  BY <1>5 DEF Hashed
<1>9. /\ \A u \in Threads \ {t} : thread'[u] = thread[u]
      /\ \A u \in Threads \ {t} : thread[u] = thread'[u]
  BY <1>2, <1>4
<1>8. ASSUME NEW x \in Txs, Count(Hashed(mem), x) = Count(mem.raw, x) + Cardinality(Raws(thread, x))
      PROVE  Count(Hashed(mem'), x) = Count(mem'.raw, x) + Cardinality(Raws(thread', x))
  <2>1. PICK n \in Nat : n = IF x = own.tx THEN 1 ELSE 0
    OBVIOUS
  <2>2. Count(mem'.raw, x) = Count(mem.raw, x) + n /\ Count(mem.raw, x) \in Nat
    BY <1>2, <1>3, <1>5, <2>1, CountMore
  <2>3. Cardinality(Raws(thread, x)) = Cardinality(Raws(thread', x)) + n
    <3>1. t \notin Raws(thread', x) /\ (t \in Raws(thread, x) <=> x = own.tx)
      BY <1>1, <1>2, <1>3, <1>6 DEF Raws
    <3>2. CASE x = own.tx
      BY <1>9, <2>1, <3>1, <3>2, RawsMove
    <3>3. CASE x # own.tx
      <4>1. /\ Cardinality(Raws(thread', x)) = Cardinality(Raws(thread, x))
            /\ Cardinality(Raws(thread, x)) \in Nat
        BY <1>9, <3>1, <3>3, RawsMove
      <4> QED
        BY <2>1, <3>3, <4>1
    <3> QED
      BY <3>2, <3>3
  <2>4. Cardinality(Raws(thread', x)) \in Nat
    BY <1>9, RawsMove
  <2>5. \A a, b, e \in Nat : a + (b + e) = (a + e) + b
    OBVIOUS
  <2> QED
    BY <1>7, <1>8, <2>1, <2>2, <2>3, <2>4, <2>5
<1> QED
  BY <1>1, <1>8 DEF Counted

\* After a start without overlaps, hashes and transactions are those of one file.
LEMMA BootCounted ==
  ASSUME NEW c \in ChainStates, Sound(c), NEW ts, ts = [u \in Threads |-> Idle]
  PROVE  \A x \in Txs : Count(Hashed(c), x) = Count(c.raw, x) + Cardinality(Raws(ts, x))
<1>1. \A u \in Threads : ts[u].at = "idle"
  BY IdleOK
<1>2. \A x : Raws(ts, x) = {}
  BY <1>1 DEF Raws
<1>3. \A x : Cardinality(Raws(ts, x)) = 0
  BY <1>2, FS_EmptySet
<1>4. c.raw \in Seq(Txs) /\ LinkedChain(c)
  BY DEF ChainStates, Sound
<1>5. ASSUME NEW x \in Txs
      PROVE  Count(Hashed(c), x) = Count(c.raw, x) /\ Count(c.raw, x) \in Nat
  <2>1. Count(c.raw, x) \in Nat
    BY <1>4, CountMore
  <2> QED
    BY <1>4, <2>1, LinkedCounts
<1> QED
  BY <1>3, <1>5

LEMMA IdleSound ==
  ASSUME Serial, ~overlapped, thread = [u \in Threads |-> Idle]
  PROVE  Sound(mem)
<1>1. PICK t \in Threads : Alone(thread[t], mem, inodes, names, answered)
  BY DEF Serial
<1>2. thread[t].at = "idle"
  BY IdleOK
<1> QED
  BY <1>1, <1>2 DEF Alone

LEMMA CrashCounted ==
  ASSUME IInv, Serial, Counted, Crash
  PROVE  Counted'
<1>1. /\ crashes' = crashes + 1 /\ thread' = [u \in Threads |-> Idle] /\ overlapped' = overlapped
  BY DEF Crash
<1>2. crashes' \in Nat /\ crashes' # 0
  BY <1>1 DEF Counted
<1>3. Serial' /\ IInv'
  BY CrashSerial, CrashOK
<1>4. mem' \in ChainStates
  BY <1>3 DEF IInv
<1>5. CASE overlapped
  BY <1>1, <1>2, <1>5 DEF Counted
<1>6. CASE ~overlapped
  <2>1. PICK t \in Threads : Alone(thread'[t], mem', inodes', names', answered')
    BY <1>1, <1>3, <1>6 DEF Serial
  <2>2. thread'[t].at = "idle"
    BY <1>1, IdleOK
  <2>3. Sound(mem')
    BY <2>1, <2>2 DEF Alone
  <2>4. \A x \in Txs : Count(Hashed(mem'), x) = Count(mem'.raw, x) + Cardinality(Raws(thread', x))
    BY <1>1, <1>4, <2>3, BootCounted
  <2> QED
    BY <1>2, <2>4 DEF Counted
<1> QED
  BY <1>5, <1>6

LEMMA InitCounted ==
  ASSUME Init
  PROVE  Counted
<1>1. /\ crashes = 0 /\ thread = [u \in Threads |-> Idle] /\ ~overlapped /\ mem \in ChainStates
  BY InitOK DEF Init, IInv
<1>2. Sound(mem)
  BY <1>1, InitSerial, IdleSound
<1> QED
  BY <1>1, <1>2, BootCounted DEF Counted

LEMMA StepCounted ==
  ASSUME IInv, Serial, Counted, [Next]_vars
  PROVE  Counted'
<1>1. CASE UNCHANGED vars
  <2>1. UNCHANGED <<mem, thread, overlapped, crashes>>
    BY <1>1 DEF vars
  <2> QED
    BY <2>1 DEF Counted, Hashed
<1>2. CASE Crash
  BY <1>2, CrashCounted
<1>3. ASSUME NEW t \in Threads, NEW tx \in Txs, Start(t, tx)
      PROVE  Counted'
  BY <1>3, StartQuiet, QuietCounted
<1>4. ASSUME NEW t \in Threads, Submitting(t)
      PROVE  Counted'
  BY <1>4, SubmittingQuiet, QuietCounted, AddBlockCounted, AddRawCounted
<1> QED
  BY <1>1, <1>2, <1>3, <1>4 DEF Next

-----------------------------------------------------------------------------
(* The theorems about calls that do not overlap, and about what they leave.  *)

LEMMA AllOK == Spec => [](IInv /\ Serial /\ Counted)
<1>1. Init => IInv /\ Serial /\ Counted
  BY InitOK, InitSerial, InitCounted
<1>2. IInv /\ Serial /\ Counted /\ [Next]_vars => IInv' /\ Serial' /\ Counted'
  BY StepOK, StepSerial, StepCounted
<1> QED
  BY <1>1, <1>2, PTL DEF Spec

\* As long as calls do not overlap, the file parses after a crash at any statement, is
\* one hash chain, and has every answered commit as often as it was answered
\* (chain.py:121-123).
THEOREM SerialCallsAlwaysDurable == Spec => []SerialCallsAreDurable
<1>1. IInv /\ Serial => SerialCallsAreDurable
  <2> SUFFICES ASSUME IInv, Serial, ~overlapped
               PROVE  /\ StateFile.kind = "json" /\ LinkedChain(StateFile.c)
                      /\ \A tx \in Txs : Count(answered, tx) <= Count(StateFile.c.raw, tx)
    BY DEF SerialCallsAreDurable
  <2>1. Settled(mem, inodes, names, answered, seen) /\ StateFile = inodes[names.state]
    BY FileTypes DEF Serial
  <2>2. /\ StateFile.kind = "json" /\ Sound(StateFile.c)
        /\ Kept(answered, StateFile.c.raw)
    BY <2>1 DEF Settled
  <2> QED
    BY <2>2 DEF Sound, Kept
<1> QED
  BY <1>1, AllOK, PTL

\* As long as calls do not overlap, a peer can replay the chain that it finds between
\* two of them: it is linked and authorises before it commits (chain.py:185, 220).
THEOREM SerialCallsAlwaysReplay == Spec => []SerialCallsReplay
<1>1. IInv /\ Serial => SerialCallsReplay
  <2> SUFFICES ASSUME Serial, ~overlapped, Active = {} PROVE Sound(mem)
    BY DEF SerialCallsReplay, Sound
  <2>1. PICK t \in Threads : Alone(thread[t], mem, inodes, names, answered)
    BY DEF Serial
  <2>2. thread[t].at = "idle"
    BY DEF Active
  <2> QED
    BY <2>1, <2>2 DEF Alone
<1> QED
  BY <1>1, AllOK, PTL

\* As long as calls do not overlap, a crash takes back at most one commit of those that
\* were announced to peers (chain.py:228).
THEOREM AtMostOneUnsaved == Spec => []OneUnsavedAnnouncement
<1>1. IInv /\ Serial => OneUnsavedAnnouncement
  <2> SUFFICES ASSUME IInv, Serial, ~overlapped
               PROVE  Cardinality(seen \ Range(StateFile.c.raw)) <= 1
    BY DEF OneUnsavedAnnouncement
  <2> DEFINE raw == StateFile.c.raw
  <2>1. raw \in Seq(Txs) /\ StateFile = inodes[names.state]
    BY FileTypes
  <2>2. PICK t \in Threads : Alone(thread[t], mem, inodes, names, answered)
    BY DEF Serial
  <2>3. thread[t].at \in Labels /\ thread[t].tx \in Txs
    BY StateTypes DEF Calls
  <2>4. seen \subseteq Range(mem.raw)
    BY DEF Serial, Settled
  <2>5. mem.raw = raw \/ mem.raw = Append(raw, thread[t].tx)
    BY <2>1, <2>2, <2>3 DEF Alone, Labels
  <2> HIDE DEF raw
  <2>6. seen \ Range(raw) \subseteq {thread[t].tx}
    <3>1. Range(Append(raw, thread[t].tx)) = Range(raw) \cup {thread[t].tx}
      BY <2>1, <2>3, AppendEntry
    <3> QED
      BY <2>4, <2>5, <3>1
  <2>7. seen \ Range(raw) = {} \/ seen \ Range(raw) = {thread[t].tx}
    BY <2>6
  <2>8. Cardinality(seen \ Range(raw)) \in {0, 1}
    BY <2>7, FS_EmptySet, FS_Singleton
  <2> QED
    BY <2>8 DEF raw
<1> QED
  BY <1>1, AllOK, PTL

\* However calls overlap, once all are answered the hashes and the raw transactions are
\* of the same commits, unless an earlier overlap was followed by a restart
\* (chain.py:224, 225).
THEOREM TransactionsAlwaysSame == Spec => []SameTransactions
<1>1. IInv /\ Counted => SameTransactions
  <2> SUFFICES ASSUME IInv, Counted, Active = {}, overlapped => crashes = 0, NEW x \in Txs
               PROVE  Count(Hashed(mem), x) = Count(mem.raw, x)
    BY DEF SameTransactions
  <2>1. Raws(thread, x) = {}
    BY DEF Raws, Active
  <2>2. Cardinality(Raws(thread, x)) = 0
    BY <2>1, FS_EmptySet
  <2>3. Count(mem.raw, x) \in Nat
    BY StateTypes, CountMore
  <2> QED
    BY <2>2, <2>3 DEF Counted
<1> QED
  BY <1>1, AllOK, PTL
=============================================================================
