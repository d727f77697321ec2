--------------------------- MODULE AppChainProofs ---------------------------
(***************************************************************************)
(* Proofs about AppChain for every set of nodes, data and transactions and *)
(* every bound.  The lemmas first say what pruning preserves; the inductive*)
(* invariant then follows action by action.                                *)
(***************************************************************************)
EXTENDS AppChain, TLAPS, SequenceTheorems, FiniteSetTheorems

-----------------------------------------------------------------------------
(* The rules of the chain: what they preserve of the types, the linkage and the *)
(* authority of one chain state.  The proofs about other modules with a chain  *)
(* use these lemmas too. *)

\* The digest of the last block is a history of transactions.
LEMMA TipType ==
  ASSUME NEW c \in ChainStates
  PROVE  Tip(c) \in Seq(Txs)
  BY DEF Tip, ChainStates, GENESIS

\* Appending a block keeps the type and makes tx the last of the history.
LEMMA AppendBlockType ==
  ASSUME NEW c \in ChainStates, NEW tx \in Txs
  PROVE  /\ AppendBlock(c, tx) \in ChainStates
         /\ Tip(AppendBlock(c, tx)) = Append(Tip(c), tx)
         /\ AppendBlock(c, tx).auth = c.auth
         /\ AppendBlock(c, tx).approved = c.approved
         /\ AppendBlock(c, tx).roots = c.roots
         /\ AppendBlock(c, tx).raw = Append(c.raw, tx)
         /\ AppendBlock(c, tx).events = c.events
<1>1. Tip(c) \in Seq(Txs)
  BY TipType
<1>2. Sha256(Tip(c), tx) \in Seq(Txs)
  BY <1>1 DEF Sha256
<1> DEFINE bs == Append(c.blocks, Sha256(Tip(c), tx))
           rs == Append(c.raw, tx)
<1>a. bs \in Seq(Seq(Txs)) /\ rs \in Seq(Txs)
  BY <1>2 DEF ChainStates
<1>b. AppendBlock(c, tx) = [c EXCEPT !.blocks = bs, !.raw = rs]
  BY DEF AppendBlock
<1> HIDE DEF bs, rs
<1>3. /\ AppendBlock(c, tx).blocks = bs
      /\ AppendBlock(c, tx).raw = rs
      /\ AppendBlock(c, tx).auth = c.auth
      /\ AppendBlock(c, tx).approved = c.approved
      /\ AppendBlock(c, tx).roots = c.roots
      /\ AppendBlock(c, tx).events = c.events
      /\ AppendBlock(c, tx) \in ChainStates
  BY <1>a, <1>b DEF ChainStates
<1>4. Tip(AppendBlock(c, tx)) = Sha256(Tip(c), tx)
  BY <1>2, <1>3 DEF Tip, ChainStates, bs
<1> QED
  BY <1>3, <1>4 DEF Sha256, rs

\* Logging an event changes the events only.
LEMMA LoggedType ==
  ASSUME NEW c \in ChainStates, NEW level \in Levels
  PROVE  /\ Logged(c, level) \in ChainStates
         /\ Tip(Logged(c, level)) = Tip(c)
         /\ Logged(c, level).auth = c.auth
         /\ Logged(c, level).approved = c.approved
         /\ Logged(c, level).roots = c.roots
         /\ Logged(c, level).blocks = c.blocks
         /\ Logged(c, level).raw = c.raw
         /\ Logged(c, level).events = Append(c.events, level)
<1> DEFINE es == Append(c.events, level)
<1>1. es \in Seq(Levels)
  BY DEF ChainStates
<1>2. Logged(c, level) = [c EXCEPT !.events = es]
  BY DEF Logged
<1> HIDE DEF es
<1>3. /\ Logged(c, level) \in ChainStates
      /\ Logged(c, level).auth = c.auth
      /\ Logged(c, level).approved = c.approved
      /\ Logged(c, level).roots = c.roots
      /\ Logged(c, level).blocks = c.blocks
      /\ Logged(c, level).raw = c.raw
      /\ Logged(c, level).events = es
  BY <1>1, <1>2 DEF ChainStates
<1> QED
  BY <1>3 DEF Tip, es

LEMMA LevelType ==
  ASSUME NEW code
  PROVE  Level(code) \in Levels
  BY DEF Level, Levels

\* Only a transaction of its sender changes who is authenticated.
LEMMA EffectType ==
  ASSUME NEW c \in ChainStates, NEW tx \in Txs, NEW code
  PROVE  /\ Effect(c, tx, code) \in ChainStates
         /\ Effect(c, tx, code).auth = AuthAfter(c, tx, code)
         /\ Effect(c, tx, code).approved = c.approved
         /\ Effect(c, tx, code).roots = RootsAfter(c, tx, code)
         /\ Effect(c, tx, code).events = c.events
         /\ code \in Committing => /\ Tip(Effect(c, tx, code)) = Append(Tip(c), tx)
                                   /\ Effect(c, tx, code).raw = Append(c.raw, tx)
         /\ code \notin Committing => /\ Tip(Effect(c, tx, code)) = Tip(c)
                                      /\ Effect(c, tx, code).blocks = c.blocks
                                      /\ Effect(c, tx, code).raw = c.raw
<1>1. tx.sender \in Nodes /\ tx.data \in Data
  BY TxsAssumption DEF TxRecords
<1> DEFINE as == AuthAfter(c, tx, code)
           rs == RootsAfter(c, tx, code)
           d == [c EXCEPT !.auth = as, !.roots = rs]
<1>2. as \in SUBSET Nodes
  BY <1>1 DEF AuthAfter, ChainStates
<1>3. rs \in Seq(Data)
  BY <1>1 DEF RootsAfter, ChainStates
<1>4. Effect(c, tx, code) = IF code \in Committing THEN AppendBlock(d, tx) ELSE d
  BY DEF Effect
<1> HIDE DEF as, rs
<1>5. /\ d \in ChainStates
      /\ d.auth = as
      /\ d.approved = c.approved
      /\ d.roots = rs
      /\ d.events = c.events
      /\ d.blocks = c.blocks
      /\ d.raw = c.raw
  BY <1>2, <1>3 DEF ChainStates
<1>6. Tip(d) = Tip(c)
  BY <1>5 DEF Tip
<1> HIDE DEF d
<1>7. CASE code \in Committing
  BY <1>4, <1>5, <1>6, <1>7, AppendBlockType DEF as, rs
<1>8. CASE code \notin Committing
  BY <1>4, <1>5, <1>6, <1>8 DEF as, rs
<1> QED
  BY <1>7, <1>8

-----------------------------------------------------------------------------
(* Linkage of one chain state. *)

LEMMA AppendBlockLinked ==
  ASSUME NEW c \in ChainStates, NEW tx \in Txs, LinkedChain(c)
  PROVE  LinkedChain(AppendBlock(c, tx))
<1> DEFINE d == AppendBlock(c, tx)
<1>1. Tip(c) \in Seq(Txs)
  BY TipType
<1>2. c.blocks \in Seq(Seq(Txs)) /\ c.raw \in Seq(Txs) /\ Len(c.raw) = Len(c.blocks)
  BY DEF ChainStates, LinkedChain
<1> DEFINE h == Sha256(Tip(c), tx)
<1>3. /\ h \in Seq(Txs) /\ h # GENESIS /\ Last(h) = tx
  BY <1>1 DEF Sha256, GENESIS, Last
<1>4. d.blocks = Append(c.blocks, h) /\ d.raw = Append(c.raw, tx)
  BY DEF AppendBlock, ChainStates
<1>5. h = Sha256(Tip(c), tx)
  OBVIOUS
<1> HIDE DEF h, d
<1>6. Len(d.raw) = Len(d.blocks)
  BY <1>2, <1>3, <1>4
<1>7. d.blocks[1] # GENESIS /\ Last(d.blocks[1]) = d.raw[1]
  <2>1. CASE c.blocks = <<>>
    BY <1>2, <1>3, <1>4, <2>1
  <2>2. CASE c.blocks # <<>>
    BY <1>2, <1>3, <1>4, <2>2 DEF LinkedChain
  <2> QED
    BY <2>1, <2>2
<1>8. ASSUME NEW i \in DOMAIN d.blocks, i > 1
      PROVE  d.blocks[i] = Sha256(d.blocks[i - 1], d.raw[i])
  <2>1. i \in 1..(Len(c.blocks) + 1)
    BY <1>2, <1>3, <1>4, <1>8
  <2>2. CASE i = Len(c.blocks) + 1
    <3>1. d.blocks[i] = h /\ d.raw[i] = tx
      BY <1>2, <1>3, <1>4, <2>2
    <3>2. d.blocks[i - 1] = Tip(c)
      BY <1>2, <1>3, <1>4, <1>8, <2>2 DEF Tip
    <3> QED
      BY <1>5, <3>1, <3>2
  <2>3. CASE i <= Len(c.blocks)
    <3>1. i \in DOMAIN c.blocks
      BY <1>2, <2>1, <2>3
    <3>2. c.blocks[i] = Sha256(c.blocks[i - 1], c.raw[i])
      BY <1>8, <3>1 DEF LinkedChain
    <3>3. d.blocks[i] = c.blocks[i] /\ d.blocks[i - 1] = c.blocks[i - 1] /\ d.raw[i] = c.raw[i]
      BY SMTT(30), <1>2, <1>3, <1>4, <1>8, <2>1, <2>3
    <3> QED
      BY <3>2, <3>3
  <2> QED
    BY <1>2, <2>1, <2>2, <2>3
<1> QED
  BY <1>6, <1>7, <1>8 DEF LinkedChain, d

\* Linkage speaks of blocks and raw transactions only.
LEMMA LinkedSame ==
  ASSUME NEW c, NEW d, LinkedChain(c), d.blocks = c.blocks, d.raw = c.raw
  PROVE  LinkedChain(d)
  BY DEF LinkedChain

LEMMA EffectLinked ==
  ASSUME NEW c \in ChainStates, NEW tx \in Txs, NEW code, LinkedChain(c)
  PROVE  LinkedChain(Effect(c, tx, code))
<1>1. tx.sender \in Nodes /\ tx.data \in Data
  BY TxsAssumption DEF TxRecords
<1> DEFINE as == AuthAfter(c, tx, code)
           rs == RootsAfter(c, tx, code)
           d == [c EXCEPT !.auth = as, !.roots = rs]
<1>2. as \in SUBSET Nodes /\ rs \in Seq(Data)
  BY <1>1 DEF AuthAfter, RootsAfter, ChainStates
<1>3. Effect(c, tx, code) = IF code \in Committing THEN AppendBlock(d, tx) ELSE d
  BY DEF Effect
<1> HIDE DEF as, rs
<1>4. d \in ChainStates /\ d.blocks = c.blocks /\ d.raw = c.raw
  BY <1>2 DEF ChainStates
<1>5. LinkedChain(d)
  BY <1>4, LinkedSame
<1> HIDE DEF d
<1> QED
  BY <1>3, <1>4, <1>5, AppendBlockLinked

-----------------------------------------------------------------------------
(* Authority of one chain state. *)

\* A commit is either a permitted NODE_AUTH or comes from a whitelisted sender.
LEMMA CommitsAreAdmissible ==
  ASSUME NEW c, NEW tx, Outcome(c, tx) \in Committing
  PROVE  \/ /\ tx.type = "NODE_AUTH"
            /\ MayAuthenticate(tx)
            /\ Outcome(c, tx) = "node_authenticated"
         \/ /\ tx.type # "NODE_AUTH"
            /\ tx.sender \in c.auth
            /\ Outcome(c, tx) # "node_authenticated"
  BY DEF Outcome, Committing, Whitelisted

\* What a committed transaction was checked for, and whether its root is recorded.
LEMMA CommitsAreChecked ==
  ASSUME NEW c, NEW tx, Outcome(c, tx) \in Committing
  PROVE  /\ tx.type = "APP_SIG_VERIFY" => tx.data \in c.approved
         /\ tx.type = "PAYLOAD_COMMIT" <=> Outcome(c, tx) = "payload_committed"
  BY DEF Outcome, Committing, BinaryApproved

\* An authorisation found in a history is found in every extension of it.
LEMMA IntroducedGrows ==
  ASSUME NEW h \in Seq(Txs), NEW tx \in Txs, NEW n,
         NEW i \in 0..Len(h), NEW j \in i..(Len(h) + 1), Introduced(h, i, n)
  PROVE  Introduced(Append(h, tx), j, n)
<1>1. \A k \in 1..i : Append(h, tx)[k] = h[k] /\ k \in 1..j
  OBVIOUS
<1> QED
  BY <1>1 DEF Introduced

\* A commit under a code that is admissible keeps authority sound: submit's own, and
\* the NODE_AUTH that a node commits for itself.
Admits(c, tx, code) ==
  \/ /\ tx.type = "NODE_AUTH"
     /\ MayAuthenticate(tx)
     /\ code = "node_authenticated"
  \/ /\ tx.type # "NODE_AUTH"
     /\ tx.sender \in c.auth
     /\ code # "node_authenticated"

LEMMA CommitSound ==
  ASSUME NEW c \in ChainStates, NEW tx \in Txs, AuthoritySound(c), NEW code,
         code \in Committing => Admits(c, tx, code)
  PROVE  AuthoritySound(Effect(c, tx, code))
<1> DEFINE d == Effect(c, tx, code)
           h == Tip(c)
<1>1. h \in Seq(Txs) /\ Len(h) \in Nat
  BY TipType
<1>2. /\ d.auth = AuthAfter(c, tx, code)
      /\ code \in Committing => Tip(d) = Append(h, tx)
      /\ code \notin Committing => Tip(d) = h
  BY EffectType
<1>3. \A n \in c.auth : Introduced(h, Len(h), n)
  BY DEF AuthoritySound
<1>4. \A i \in 1..Len(h) : /\ Introduced(h, i, h[i].sender)
                           /\ h[i].type = "NODE_AUTH" => MayAuthenticate(h[i])
  BY DEF AuthoritySound
<1>5. CASE code \notin Committing
  <2>1. d.auth \subseteq c.auth
    BY <1>2, <1>5 DEF AuthAfter, Committing
  <2> QED
    BY <1>2, <1>3, <1>4, <1>5, <2>1 DEF AuthoritySound
<1>6. CASE code \in Committing
  <2> DEFINE g == Append(h, tx)
  <2>1. /\ Tip(d) = g /\ Len(g) = Len(h) + 1 /\ g[Len(h) + 1] = tx
        /\ \A i \in 1..Len(h) : g[i] = h[i]
    BY <1>1, <1>2, <1>6
  <2>2. \A n \in c.auth : Introduced(g, Len(g), n)
    BY <1>1, <1>3, <2>1, IntroducedGrows
  <2>3. \A i \in 1..Len(h) : Introduced(g, i, g[i].sender)
    <3> SUFFICES ASSUME NEW i \in 1..Len(h)
                 PROVE  Introduced(g, i, h[i].sender)
      BY <2>1
    <3>1. i \in 0..Len(h) /\ i \in i..(Len(h) + 1)
      BY <1>1
    <3> QED
      BY <1>1, <1>4, <3>1, IntroducedGrows
  <2>4. \A i \in 1..Len(h) : g[i].type = "NODE_AUTH" => MayAuthenticate(g[i])
    BY <1>4, <2>1
  <2>5. Introduced(g, Len(g), tx.sender) /\ (tx.type = "NODE_AUTH" => MayAuthenticate(tx))
    <3>1. CASE tx.type = "NODE_AUTH" /\ MayAuthenticate(tx)
      <4>1. Len(g) \in 1..Len(g) /\ g[Len(g)] = tx
        BY <1>1, <2>1
      <4> QED
        BY <3>1, <4>1 DEF Introduced
    <3>2. CASE tx.type # "NODE_AUTH" /\ tx.sender \in c.auth
      BY <2>2, <3>2
    <3> QED
      BY <1>6, <3>1, <3>2 DEF Admits
  <2>6. \A n \in d.auth : n \in c.auth \/ n = tx.sender
    BY <1>2 DEF AuthAfter
  <2> HIDE DEF g, d, h
  <2>7. \A i \in 1..Len(g) : /\ Introduced(g, i, g[i].sender)
                             /\ g[i].type = "NODE_AUTH" => MayAuthenticate(g[i])
    <3> TAKE i \in 1..Len(g)
    <3>1. CASE i \in 1..Len(h)
      BY <2>3, <2>4, <3>1
    <3>2. CASE i = Len(g)
      BY <2>1, <2>5, <3>2
    <3> QED
      BY <1>1, <2>1, <3>1, <3>2
  <2> QED
    BY <2>1, <2>2, <2>5, <2>6, <2>7 DEF AuthoritySound, d
<1> QED
  BY <1>5, <1>6

LEMMA EffectSound ==
  ASSUME NEW c \in ChainStates, NEW tx \in Txs, AuthoritySound(c)
  PROVE  AuthoritySound(Effect(c, tx, Outcome(c, tx)))
  BY CommitSound, CommitsAreAdmissible DEF Admits

\* Authority speaks of the whitelist and the history only.
LEMMA SoundSame ==
  ASSUME NEW c, NEW d, AuthoritySound(c), d.auth = c.auth, Tip(d) = Tip(c)
  PROVE  AuthoritySound(d)
  BY DEF AuthoritySound

-----------------------------------------------------------------------------
(* Suffixes, which pruning leaves. *)

\* A suffix, element by element.
LEMMA SuffixElements ==
  ASSUME NEW S, NEW s \in Seq(S), NEW drop \in Nat, drop <= Len(s)
  PROVE  /\ SubSeq(s, drop + 1, Len(s)) \in Seq(S)
         /\ Len(SubSeq(s, drop + 1, Len(s))) = Len(s) - drop
         /\ \A i \in 1..(Len(s) - drop) : SubSeq(s, drop + 1, Len(s))[i] = s[drop + i]
<1> DEFINE m == drop + 1
           n == Len(s)
<1>1. n \in Nat /\ m \in 1..(n + 1) /\ n \in (m - 1)..n /\ n - m + 1 = n - drop
  OBVIOUS
<1>2. \A i \in 1..(n - drop) : m + i - 1 = drop + i
  BY <1>1
<1> HIDE DEF m, n
<1>3. /\ SubSeq(s, m, n) \in Seq(S)
      /\ Len(SubSeq(s, m, n)) = n - m + 1
      /\ \A i \in 1..(n - m + 1) : SubSeq(s, m, n)[i] = s[m + i - 1]
  BY <1>1, SubSeqProperties DEF n
<1>4. \A i \in 1..(n - drop) : SubSeq(s, m, n)[i] = s[drop + i]
  BY <1>1, <1>2, <1>3
<1> QED
  BY <1>1, <1>3, <1>4 DEF m, n

LEMMA SuffixType ==
  ASSUME NEW S, NEW s \in Seq(S), NEW m \in Nat, m > 0
  PROVE  SubSeq(s, m, Len(s)) \in Seq(S)
<1>1. \A i \in m..Len(s) : s[i] \in S
  OBVIOUS
<1>2. m \in Int /\ Len(s) \in Int
  OBVIOUS
<1> QED
  BY <1>1, <1>2, SubSeqProperties

\* Pruning keeps the newest blocks, so the tip and the senders stay.
LEMMA PrunedType ==
  ASSUME NEW c \in ChainStates, NEW keep \in KeepBlocks,
         Len(c.blocks) > keep, LinkedChain(c)
  PROVE  /\ PrunedTo(c, keep) \in ChainStates
         /\ Tip(PrunedTo(c, keep)) = Tip(c)
         /\ PrunedTo(c, keep).auth = c.auth
         /\ PrunedTo(c, keep).approved = c.approved
         /\ PrunedTo(c, keep).roots =
              IF Len(c.roots) > keep
              THEN SubSeq(c.roots, Len(c.roots) - keep + 1, Len(c.roots)) ELSE c.roots
         /\ PrunedTo(c, keep).blocks = SubSeq(c.blocks, Len(c.blocks) - keep + 1, Len(c.blocks))
         /\ PrunedTo(c, keep).raw = SubSeq(c.raw, Len(c.blocks) - keep + 1, Len(c.blocks))
<1>1. keep \in Nat /\ keep > 0
  BY KeepAssumption
<1> DEFINE drop == Len(c.blocks) - keep
           bs == SubSeq(c.blocks, drop + 1, Len(c.blocks))
           ts == SubSeq(c.raw, drop + 1, Len(c.raw))
           es == SubSeq(c.events, 2 * drop + 1, Len(c.events))
           rs == IF Len(c.roots) > keep
                 THEN SubSeq(c.roots, Len(c.roots) - keep + 1, Len(c.roots)) ELSE c.roots
<1>2. PrunedTo(c, keep) = [c EXCEPT !.blocks = bs, !.raw = ts, !.events = es, !.roots = rs]
  BY DEF PrunedTo
<1>3. c.blocks \in Seq(Seq(Txs)) /\ c.raw \in Seq(Txs) /\ c.events \in Seq(Levels)
      /\ c.roots \in Seq(Data)
  BY DEF ChainStates
<1>4. /\ drop \in Nat /\ drop > 0 /\ drop <= Len(c.blocks)
      /\ Len(c.blocks) - drop = keep /\ drop + keep = Len(c.blocks)
      /\ Len(c.raw) = Len(c.blocks)
  <2>1. Len(c.blocks) \in Nat
    BY <1>3
  <2>2. Len(c.raw) = Len(c.blocks)
    BY DEF LinkedChain
  <2> QED
    BY <1>1, <2>1, <2>2
<1> HIDE DEF drop
<1>5. /\ bs \in Seq(Seq(Txs)) /\ Len(bs) = keep
      /\ bs[keep] = c.blocks[Len(c.blocks)]
  <2>1. /\ bs \in Seq(Seq(Txs))
        /\ Len(bs) = Len(c.blocks) - drop
        /\ \A i \in 1..(Len(c.blocks) - drop) : bs[i] = c.blocks[drop + i]
    BY <1>3, <1>4, SuffixElements
  <2> HIDE DEF bs
  <2>2. Len(bs) = keep /\ \A i \in 1..keep : bs[i] = c.blocks[drop + i]
    BY <1>4, <2>1, Zenon
  <2>3. keep \in 1..keep
    BY <1>1
  <2>4. bs[keep] = c.blocks[drop + keep]
    BY <2>2, <2>3
  <2> QED
    BY <1>4, <2>1, <2>2, <2>4
<1>6. ts \in Seq(Txs)
  <2>1. drop + 1 \in Nat /\ drop + 1 > 0
    BY <1>4
  <2> QED
    BY <1>3, <2>1, SuffixType
<1>7. es \in Seq(Levels)
  <2>1. 2 * drop + 1 \in Nat /\ 2 * drop + 1 > 0
    BY <1>4
  <2> QED
    BY <1>3, <2>1, SuffixType
<1>8. rs \in Seq(Data)
  BY <1>1, <1>3, SubSeqProperties
<1> HIDE DEF bs, ts, es, rs
<1>9. /\ PrunedTo(c, keep) \in ChainStates
      /\ PrunedTo(c, keep).auth = c.auth
      /\ PrunedTo(c, keep).approved = c.approved
      /\ PrunedTo(c, keep).roots = rs
      /\ PrunedTo(c, keep).blocks = bs
      /\ PrunedTo(c, keep).raw = ts
  BY <1>2, <1>5, <1>6, <1>7, <1>8 DEF ChainStates
<1>10. Tip(PrunedTo(c, keep)) = Tip(c)
  BY <1>1, <1>3, <1>5, <1>9 DEF Tip
<1> QED
  BY <1>4, <1>9, <1>10 DEF drop, bs, ts, rs

LEMMA PrunedLinked ==
  ASSUME NEW c \in ChainStates, NEW keep \in KeepBlocks,
         Len(c.blocks) > keep, LinkedChain(c)
  PROVE  LinkedChain(PrunedTo(c, keep))
<1> DEFINE d == PrunedTo(c, keep)
           drop == Len(c.blocks) - keep
<1>1. keep \in Nat /\ keep > 0
  BY KeepAssumption
<1>2. c.blocks \in Seq(Seq(Txs)) /\ c.raw \in Seq(Txs) /\ Len(c.raw) = Len(c.blocks)
  BY DEF ChainStates, LinkedChain
<1>3. /\ drop \in Nat /\ drop > 0 /\ drop <= Len(c.blocks)
      /\ Len(c.blocks) - drop = keep /\ drop + keep = Len(c.blocks)
  BY <1>1, <1>2
<1>4. /\ d.blocks = SubSeq(c.blocks, drop + 1, Len(c.blocks))
      /\ d.raw = SubSeq(c.raw, drop + 1, Len(c.blocks))
  BY PrunedType
<1> HIDE DEF d, drop
<1>5. /\ Len(d.blocks) = keep /\ DOMAIN d.blocks = 1..keep
      /\ \A i \in 1..keep : d.blocks[i] = c.blocks[drop + i]
  <2>1. c.blocks \in Seq(Seq(Txs)) /\ drop \in Nat /\ drop <= Len(c.blocks)
    BY <1>2, <1>3
  <2>2. /\ d.blocks \in Seq(Seq(Txs))
        /\ Len(d.blocks) = Len(c.blocks) - drop
        /\ \A i \in 1..(Len(c.blocks) - drop) : d.blocks[i] = c.blocks[drop + i]
    BY <1>4, <2>1, SuffixElements
  <2> QED
    BY <1>3, <2>2
<1>6. /\ Len(d.raw) = keep
      /\ \A i \in 1..keep : d.raw[i] = c.raw[drop + i]
  <2>1. /\ Len(d.raw) = Len(c.raw) - drop
        /\ \A i \in 1..(Len(c.raw) - drop) : d.raw[i] = c.raw[drop + i]
    BY <1>2, <1>3, <1>4, SuffixElements
  <2> QED
    BY <1>2, <1>3, <2>1
<1>7. \A i \in 1..keep : c.blocks[drop + i] = Sha256(c.blocks[(drop + i) - 1], c.raw[drop + i])
  <2>1. ASSUME NEW k \in DOMAIN c.blocks, k > 1
        PROVE  c.blocks[k] = Sha256(c.blocks[k - 1], c.raw[k])
    BY <2>1 DEF LinkedChain
  <2> TAKE i \in 1..keep
  <2> DEFINE k == drop + i
  <2>2. k \in DOMAIN c.blocks /\ k > 1
    BY <1>1, <1>2, <1>3
  <2> HIDE DEF k
  <2>3. c.blocks[k] = Sha256(c.blocks[k - 1], c.raw[k])
    BY <2>1, <2>2
  <2> QED
    BY <2>3 DEF k
<1>8. d.blocks[1] # GENESIS /\ Last(d.blocks[1]) = d.raw[1]
  <2>1. c.blocks[drop] \in Seq(Txs) /\ c.raw[drop + 1] \in Txs
    BY <1>1, <1>2, <1>3
  <2>2. 1 \in 1..keep /\ (drop + 1) - 1 = drop
    BY <1>1, <1>3
  <2>3. d.blocks[1] = Sha256(c.blocks[drop], c.raw[drop + 1]) /\ d.raw[1] = c.raw[drop + 1]
    BY <1>5, <1>6, <1>7, <2>2
  <2> QED
    BY <2>1, <2>3 DEF Sha256, GENESIS, Last
<1>9. ASSUME NEW i \in DOMAIN d.blocks, i > 1
      PROVE  d.blocks[i] = Sha256(d.blocks[i - 1], d.raw[i])
  <2>1. i \in 1..keep /\ i - 1 \in 1..keep /\ drop + (i - 1) = (drop + i) - 1
    BY <1>1, <1>3, <1>5, <1>9
  <2> QED
    BY <1>5, <1>6, <1>7, <2>1
<1> QED
  BY <1>5, <1>6, <1>8, <1>9 DEF LinkedChain, d

-----------------------------------------------------------------------------
(* Approvals, roots and events of one chain state. *)

\* A state whose transactions, roots and approvals are the same is covered too.
LEMMA CoveredSame ==
  ASSUME NEW c, NEW d, RootsCover(c), ApprovalsCover(c),
         d.raw = c.raw, d.roots = c.roots, c.approved \subseteq d.approved
  PROVE  RootsCover(d) /\ ApprovalsCover(d)
  BY DEF RootsCover, ApprovalsCover, CommitsFrom

\* The commits from block i on are finitely many, and include block i if it is one.
LEMMA CommitsFromType ==
  ASSUME NEW c \in ChainStates, NEW i \in 1..Len(c.raw)
  PROVE  /\ IsFiniteSet(CommitsFrom(c, i))
         /\ Cardinality(CommitsFrom(c, i)) \in Nat
         /\ Cardinality(CommitsFrom(c, i)) <= Len(c.raw) - i + 1
         /\ c.raw[i].type = "PAYLOAD_COMMIT" => Cardinality(CommitsFrom(c, i)) >= 1
<1> DEFINE n == Len(c.raw)
<1>1. n \in Nat /\ i \in Int /\ n \in Int /\ i <= n
  BY DEF ChainStates
<1> HIDE DEF n
<1>2. /\ IsFiniteSet(i..n)
      /\ Cardinality(i..n) = n - i + 1
  BY <1>1, FS_Interval
<1>3. CommitsFrom(c, i) \subseteq i..n
  BY DEF CommitsFrom, n
<1>4. /\ IsFiniteSet(CommitsFrom(c, i))
      /\ Cardinality(CommitsFrom(c, i)) <= n - i + 1
  BY ZenonT(60), <1>2, <1>3, FS_Subset
<1>5. Cardinality(CommitsFrom(c, i)) \in Nat
  BY <1>4, FS_CardinalityType
<1>6. ASSUME c.raw[i].type = "PAYLOAD_COMMIT"
      PROVE  Cardinality(CommitsFrom(c, i)) >= 1
  <2>1. i \in CommitsFrom(c, i)
    BY <1>1, <1>6 DEF CommitsFrom, n
  <2>2. Cardinality(CommitsFrom(c, i)) # 0
    BY <1>4, <2>1, FS_EmptySet
  <2> QED
    BY <1>5, <2>2
<1> QED
  BY <1>4, <1>5, <1>6 DEF n

\* A commit adds its own root, and an APP_SIG_VERIFY was approved.
LEMMA EffectCovered ==
  ASSUME NEW c \in ChainStates, NEW tx \in Txs, RootsCover(c), ApprovalsCover(c)
  PROVE  LET d == Effect(c, tx, Outcome(c, tx))
         IN RootsCover(d) /\ ApprovalsCover(d)
<1> DEFINE code == Outcome(c, tx)
           d == Effect(c, tx, code)
           n == Len(c.raw)
<1>1. /\ d.approved = c.approved /\ d.roots = RootsAfter(c, tx, code)
      /\ code \in Committing => d.raw = Append(c.raw, tx)
      /\ code \notin Committing => d.raw = c.raw
      /\ d \in ChainStates
  BY EffectType
<1>2. /\ c.raw \in Seq(Txs) /\ c.roots \in Seq(Data) /\ tx.data \in Data /\ n \in Nat
  BY TxsAssumption DEF ChainStates, TxRecords
<1>3. CASE code \notin Committing
  <2>1. d.roots = c.roots /\ d.raw = c.raw
    BY <1>1, <1>3 DEF RootsAfter, Committing
  <2> QED
    BY <1>1, <2>1, CoveredSame
<1>4. CASE code \in Committing
  <2>1. /\ tx.type = "APP_SIG_VERIFY" => tx.data \in c.approved
        /\ tx.type = "PAYLOAD_COMMIT" <=> code = "payload_committed"
    BY <1>4, CommitsAreChecked
  <2>2. /\ d.raw = Append(c.raw, tx) /\ d.approved = c.approved
        /\ d.roots = IF tx.type = "PAYLOAD_COMMIT" THEN Append(c.roots, tx.data) ELSE c.roots
    BY <1>1, <1>4, <2>1 DEF RootsAfter
  <2> HIDE DEF d, code
  <2>3. /\ DOMAIN d.raw = 1..(n + 1) /\ Len(d.raw) = n + 1 /\ DOMAIN c.raw = 1..n
        /\ d.raw[n + 1] = tx
        /\ \A i \in 1..n : d.raw[i] = c.raw[i]
    BY <1>2, <2>2
  <2> HIDE DEF n
  <2>4. ApprovalsCover(d)
    <3> SUFFICES ASSUME NEW i \in 1..(n + 1), d.raw[i].type = "APP_SIG_VERIFY"
                 PROVE  d.raw[i].data \in d.approved
      BY <2>3 DEF ApprovalsCover
    <3>1. CASE i \in 1..n
      BY <2>2, <2>3, <3>1 DEF ApprovalsCover
    <3>2. CASE i = n + 1
      BY <2>1, <2>2, <2>3, <3>2
    <3> QED
      BY <1>2, <3>1, <3>2
  <2>5. ASSUME NEW i \in 1..n
        PROVE  /\ tx.type = "PAYLOAD_COMMIT" =>
                    Cardinality(CommitsFrom(d, i)) = Cardinality(CommitsFrom(c, i)) + 1
               /\ tx.type # "PAYLOAD_COMMIT" => CommitsFrom(d, i) = CommitsFrom(c, i)
    <3>1. CASE tx.type = "PAYLOAD_COMMIT"
      <4>1. CommitsFrom(d, i) = CommitsFrom(c, i) \cup {n + 1}
        BY <1>2, <2>3, <3>1 DEF CommitsFrom, n
      <4>2. n + 1 \notin CommitsFrom(c, i)
        BY <1>2 DEF CommitsFrom, n
      <4>3. IsFiniteSet(CommitsFrom(c, i))
        BY CommitsFromType DEF n
      <4> QED
        BY <3>1, <4>1, <4>2, <4>3, FS_AddElement
    <3>2. CASE tx.type # "PAYLOAD_COMMIT"
      BY SMTT(30), <1>2, <2>3, <3>2 DEF CommitsFrom, n
    <3> QED
      BY <3>1, <3>2
  <2>6. RootsCover(d)
    <3> SUFFICES ASSUME NEW i \in 1..(n + 1), d.raw[i].type = "PAYLOAD_COMMIT"
                 PROVE  LET k == Cardinality(CommitsFrom(d, i))
                        IN k <= Len(d.roots) /\ d.roots[Len(d.roots) - k + 1] = d.raw[i].data
      BY <2>3 DEF RootsCover
    <3>1. CASE i \in 1..n
      <4> DEFINE k == Cardinality(CommitsFrom(c, i))
                 m == Len(c.roots)
      <4>1. /\ k \in Nat /\ k >= 1 /\ m \in Nat
        BY SMTT(30), <1>2, <2>3, <3>1, CommitsFromType DEF n
      <4>2. k <= m /\ c.roots[m - k + 1] = d.raw[i].data
        BY <2>3, <3>1 DEF RootsCover
      <4>3. Cardinality(CommitsFrom(d, i)) = IF tx.type = "PAYLOAD_COMMIT" THEN k + 1 ELSE k
        BY <2>5, <3>1
      <4> HIDE DEF k
      <4>4. CASE tx.type = "PAYLOAD_COMMIT"
        <5>1. /\ d.roots = Append(c.roots, tx.data) /\ Len(d.roots) = m + 1
              /\ \A j \in 1..m : d.roots[j] = c.roots[j]
          BY <1>2, <2>2, <4>4
        <5>2. (m + 1) - (k + 1) + 1 = m - k + 1 /\ m - k + 1 \in 1..m
          BY <4>1, <4>2
        <5> HIDE DEF m
        <5> QED
          BY <4>1, <4>2, <4>3, <4>4, <5>1, <5>2
      <4>5. CASE tx.type # "PAYLOAD_COMMIT"
        BY <2>2, <4>2, <4>3, <4>5
      <4> QED
        BY <4>4, <4>5
    <3>2. CASE i = n + 1
      <4>1. tx.type = "PAYLOAD_COMMIT" /\ d.raw[i] = tx
        BY <2>3, <3>2
      <4>2. CommitsFrom(d, i) = {n + 1}
        BY <1>2, <2>3, <3>2, <4>1 DEF CommitsFrom
      <4>3. Cardinality(CommitsFrom(d, i)) = 1
        BY <4>2, FS_Singleton
      <4>4. d.roots = Append(c.roots, tx.data)
        BY <2>2, <4>1
      <4>5. Len(d.roots) \in Nat /\ Len(d.roots) >= 1 /\ d.roots[Len(d.roots)] = tx.data
        BY <1>2, <4>4
      <4>6. Len(d.roots) - 1 + 1 = Len(d.roots)
        BY <4>5
      <4> QED
        BY <4>1, <4>3, <4>5, <4>6
    <3> QED
      BY <1>2, <3>1, <3>2
  <2> QED
    BY <2>4, <2>6 DEF d, code
<1> QED
  BY <1>3, <1>4

\* Shifted by the dropped blocks, the commits of the pruned chain are those of the
\* chain.
LEMMA CommitsShift ==
  ASSUME NEW c \in ChainStates, NEW d \in ChainStates, NEW drop \in Nat,
         drop <= Len(c.raw), Len(d.raw) = Len(c.raw) - drop,
         \A j \in 1..Len(d.raw) : d.raw[j] = c.raw[drop + j],
         NEW i \in 1..Len(d.raw)
  PROVE  Cardinality(CommitsFrom(d, i)) = Cardinality(CommitsFrom(c, drop + i))
<1> DEFINE S == CommitsFrom(d, i)
           T == CommitsFrom(c, drop + i)
           f == [j \in S |-> drop + j]
<1>1. Len(d.raw) \in Nat /\ Len(c.raw) \in Nat /\ i \in Nat
  BY DEF ChainStates
<1>2. \A j \in S : j \in i..Len(d.raw) /\ d.raw[j].type = "PAYLOAD_COMMIT"
  BY DEF CommitsFrom
<1>3. \A j \in S : drop + j \in T
  <2> TAKE j \in S
  <2>1. j \in i..Len(d.raw) /\ j \in 1..Len(d.raw)
    BY <1>1, <1>2
  <2>2. c.raw[drop + j].type = "PAYLOAD_COMMIT"
    BY <1>2, <2>1
  <2>3. drop + j \in (drop + i)..Len(c.raw)
    BY <1>1, <2>1
  <2> QED
    BY <2>2, <2>3 DEF CommitsFrom
<1>4. \A m \in T : m - drop \in S /\ f[m - drop] = m
  <2> TAKE m \in T
  <2>1. m \in (drop + i)..Len(c.raw) /\ c.raw[m].type = "PAYLOAD_COMMIT"
    BY DEF CommitsFrom
  <2>2. m - drop \in i..Len(d.raw) /\ m - drop \in 1..Len(d.raw) /\ drop + (m - drop) = m
    BY <1>1, <2>1
  <2>3. m - drop \in S
    BY <2>1, <2>2 DEF CommitsFrom
  <2> QED
    BY <2>2, <2>3
<1>5. f \in [S -> T]
  BY <1>3
<1>6. \A j, k \in S : f[j] = f[k] => j = k
  BY <1>1, <1>2
<1> HIDE DEF f
<1>7. f \in Bijection(S, T)
  <2>1. \A j, k \in S : j # k => f[j] # f[k]
    BY <1>6
  <2>2. \A m \in T : \E j \in S : f[j] = m
    BY <1>4
  <2> QED
    BY <1>5, <1>6, <2>1, <2>2 DEF Bijection, Injection, Surjection, IsInjective
<1>8. IsFiniteSet(S)
  BY CommitsFromType
<1> QED
  BY <1>7, <1>8, FS_Bijection DEF ExistsBijection

\* Pruning drops no root of a retained commit, and no approval.
LEMMA PrunedCovered ==
  ASSUME NEW c \in ChainStates, NEW keep \in KeepBlocks,
         Len(c.blocks) > keep, LinkedChain(c), RootsCover(c), ApprovalsCover(c)
  PROVE  RootsCover(PrunedTo(c, keep)) /\ ApprovalsCover(PrunedTo(c, keep))
<1> DEFINE d == PrunedTo(c, keep)
           drop == Len(c.blocks) - keep
<1>1. keep \in Nat /\ keep > 0
  BY KeepAssumption
<1>2. /\ c.raw \in Seq(Txs) /\ Len(c.raw) = Len(c.blocks) /\ c.roots \in Seq(Data)
      /\ Len(c.blocks) \in Nat
  BY DEF ChainStates, LinkedChain
<1>3. drop \in Nat /\ drop <= Len(c.raw) /\ Len(c.raw) - drop = keep
  BY <1>1, <1>2
<1>4. /\ d \in ChainStates
      /\ d.raw = SubSeq(c.raw, drop + 1, Len(c.raw))
      /\ d.approved = c.approved
      /\ d.roots = IF Len(c.roots) > keep
                   THEN SubSeq(c.roots, Len(c.roots) - keep + 1, Len(c.roots)) ELSE c.roots
  BY <1>2, PrunedType
<1> HIDE DEF d, drop
<1>5. /\ Len(d.raw) = keep /\ DOMAIN d.raw = 1..keep /\ DOMAIN c.raw = 1..Len(c.raw)
      /\ \A j \in 1..keep : d.raw[j] = c.raw[drop + j] /\ drop + j \in 1..Len(c.raw)
  <2>1. /\ d.raw \in Seq(Txs) /\ Len(d.raw) = Len(c.raw) - drop
        /\ \A j \in 1..(Len(c.raw) - drop) : d.raw[j] = c.raw[drop + j]
    BY <1>2, <1>3, <1>4, SuffixElements
  <2> QED
    BY <1>2, <1>3, <2>1
<1>6. ApprovalsCover(d)
  BY <1>4, <1>5 DEF ApprovalsCover
<1>7. ASSUME NEW i \in 1..keep, d.raw[i].type = "PAYLOAD_COMMIT"
      PROVE  LET k == Cardinality(CommitsFrom(d, i))
             IN k <= Len(d.roots) /\ d.roots[Len(d.roots) - k + 1] = d.raw[i].data
  <2> DEFINE k == Cardinality(CommitsFrom(d, i))
             m == Len(c.roots)
  <2>1. k = Cardinality(CommitsFrom(c, drop + i))
    <3>1. /\ drop <= Len(c.raw) /\ Len(d.raw) = Len(c.raw) - drop
          /\ \A j \in 1..Len(d.raw) : d.raw[j] = c.raw[drop + j]
          /\ i \in 1..Len(d.raw)
      BY <1>3, <1>5
    <3> QED
      BY <1>3, <1>4, <3>1, CommitsShift
  <2>2. k \in Nat /\ 1 <= k /\ k <= keep
    <3>1. k \in Nat /\ k <= keep - i + 1 /\ k >= 1
      BY <1>4, <1>5, <1>7, CommitsFromType
    <3> QED
      BY <1>1, <3>1
  <2> HIDE DEF k
  <2>3. k <= m /\ c.roots[m - k + 1] = d.raw[i].data
    BY <1>5, <1>7, <2>1 DEF RootsCover
  <2>4. CASE m > keep
    <3> DEFINE low == m - keep
    <3>1. low \in Nat /\ low <= Len(c.roots) /\ m \in Nat /\ m - low = keep
      BY <1>1, <1>2, <2>4
    <3>2. d.roots = SubSeq(c.roots, low + 1, Len(c.roots))
      BY <1>4, <2>4
    <3> HIDE DEF low
    <3>3. Len(d.roots) = keep /\ \A j \in 1..keep : d.roots[j] = c.roots[low + j]
      <4> DEFINE s == c.roots
      <4>1. s \in Seq(Data) /\ low \in Nat /\ low <= Len(s)
        BY <1>2, <3>1
      <4> HIDE DEF s
      <4>2. /\ Len(SubSeq(s, low + 1, Len(s))) = Len(s) - low
            /\ \A j \in 1..(Len(s) - low) : SubSeq(s, low + 1, Len(s))[j] = s[low + j]
        BY <4>1, SuffixElements
      <4> QED
        BY <3>1, <3>2, <4>2 DEF s
    <3>4. keep - k + 1 \in 1..keep /\ low + (keep - k + 1) = m - k + 1
      BY <1>1, <2>2, <3>1
    <3> QED
      BY <2>2, <2>3, <3>3, <3>4 DEF k
  <2>5. CASE ~(m > keep)
    BY <1>4, <2>3, <2>5 DEF k
  <2> QED
    BY <2>4, <2>5
<1>8. RootsCover(d)
  BY <1>5, <1>7 DEF RootsCover
<1> QED
  BY <1>6, <1>8 DEF d

-----------------------------------------------------------------------------
(* The commit events of one chain state. *)

\* An event more in the log.
LEMMA InfoAppended ==
  ASSUME NEW c \in ChainStates, NEW d, NEW level \in Levels,
         d.events = Append(c.events, level)
  PROVE  /\ InfoEvents(c) \in Nat
         /\ InfoEvents(d) = IF level = "info" THEN InfoEvents(c) + 1 ELSE InfoEvents(c)
<1> DEFINE n == Len(c.events)
           S == {i \in DOMAIN c.events : c.events[i] = "info"}
           T == {i \in DOMAIN d.events : d.events[i] = "info"}
<1>1. c.events \in Seq(Levels) /\ n \in Nat /\ DOMAIN c.events = 1..n
  BY DEF ChainStates
<1>2. /\ DOMAIN d.events = 1..(n + 1) /\ d.events[n + 1] = level
      /\ \A i \in 1..n : d.events[i] = c.events[i]
  BY <1>1
<1> HIDE DEF n
<1>3. IsFiniteSet(S) /\ Cardinality(S) \in Nat
  <2>1. IsFiniteSet(1..n)
    BY <1>1, FS_Interval
  <2>2. S \subseteq 1..n
    BY <1>1
  <2> QED
    BY <2>1, <2>2, FS_Subset, FS_CardinalityType
<1>4. CASE level = "info"
  <2>1. T = S \cup {n + 1} /\ n + 1 \notin S
    BY <1>1, <1>2, <1>4
  <2> QED
    BY <1>3, <1>4, <2>1, FS_AddElement DEF InfoEvents
<1>5. CASE level # "info"
  <2>1. T = S
    BY <1>1, <1>2, <1>5
  <2> QED
    BY <1>3, <1>5, <2>1 DEF InfoEvents
<1> QED
  BY <1>4, <1>5

-----------------------------------------------------------------------------
(* The inductive invariant.  Pruning keeps the type, the linkage and the    *)
(* roots only because blocks and raw transactions have one length, and a    *)
(* restart keeps each part only because the file has it, so all are proved  *)
(* together and of memory and file alike.                                   *)

GoodState(c) ==
  /\ c \in ChainStates
  /\ LinkedChain(c)
  /\ AuthoritySound(c)
  /\ RootsCover(c)
  /\ ApprovalsCover(c)

IInv ==
  /\ TypeOK
  /\ Linked
  /\ AuthorityOnChain
  /\ RootsCoverBlocks
  /\ ApprovalsOutliveRestart

\* What a step writes to memory and file is good, so the invariant holds after it.
LEMMA GoodStep ==
  ASSUME validators' = validators, validators \in SUBSET Nodes,
         GoodState(chain'), GoodState(disk'),
         importing' \in 0..MaxImport, batch' \in BOOLEAN, restarts' \in Nat,
         pruned' \in BOOLEAN, barred' \in SUBSET Nodes
  PROVE  IInv'
<1>1. TypeOK'
  BY DEF TypeOK, GoodState
<1>2. Linked'
  BY DEF Linked, GoodState
<1>3. AuthorityOnChain'
  BY DEF AuthorityOnChain, GoodState, AuthoritySound, Introduced, MayAuthenticate
<1>4. RootsCoverBlocks' /\ ApprovalsOutliveRestart'
  BY DEF RootsCoverBlocks, ApprovalsOutliveRestart, GoodState, RootsCover, ApprovalsCover,
         CommitsFrom
<1> QED
  BY <1>1, <1>2, <1>3, <1>4 DEF IInv

\* A submitted or replayed transaction leaves a good state.
LEMMA GoodSubmit ==
  ASSUME NEW c \in ChainStates, NEW tx \in Txs, GoodState(c)
  PROVE  LET d == Effect(c, tx, Outcome(c, tx))
         IN GoodState(d) /\ GoodState(Logged(d, Level(Outcome(c, tx))))
<1> DEFINE code == Outcome(c, tx)
           d == Effect(c, tx, code)
           e == Logged(d, Level(code))
<1>1. GoodState(d)
  BY EffectType, EffectLinked, EffectSound, EffectCovered DEF GoodState
<1>2. /\ e \in ChainStates /\ e.blocks = d.blocks /\ e.raw = d.raw
      /\ e.auth = d.auth /\ Tip(e) = Tip(d)
      /\ e.roots = d.roots /\ e.approved = d.approved
  BY <1>1, LoggedType, LevelType DEF GoodState
<1> HIDE DEF d, e
<1>3. GoodState(e)
  BY <1>1, <1>2, LinkedSame, SoundSame, CoveredSame DEF GoodState
<1> QED
  BY <1>1, <1>3 DEF d, e

LEMMA InitInv == Init => IInv
<1> SUFFICES ASSUME Init PROVE IInv
  OBVIOUS
<1> DEFINE f == Fresh(validators)
<1>1. f \in ChainStates /\ f.auth = validators /\ f.blocks = <<>> /\ f.raw = <<>>
  BY DEF Init, Fresh, ChainStates
<1>2. Tip(f) = <<>>
  BY <1>1 DEF Tip, GENESIS
<1> HIDE DEF f
<1>3. LinkedChain(f)
  BY <1>1 DEF LinkedChain
<1>4. AuthoritySound(f)
  BY <1>1, <1>2 DEF AuthoritySound, Introduced
<1>5. chain = f /\ disk = f
  BY DEF Init, f
<1>6. MaxImport \in Nat
  BY BoundsAssumption
<1>7. /\ Linked /\ AuthorityOnChain
      /\ RootsCoverBlocks /\ ApprovalsOutliveRestart
  BY <1>1, <1>3, <1>4, <1>5 DEF Linked, AuthorityOnChain, RootsCoverBlocks,
     ApprovalsOutliveRestart, RootsCover, ApprovalsCover
<1>8. importing \in 0..MaxImport /\ restarts \in Nat
  BY <1>6 DEF Init
<1>9. validators \in SUBSET Nodes /\ barred \in SUBSET Nodes
  BY DEF Init
<1>10. batch \in BOOLEAN /\ pruned \in BOOLEAN
  BY DEF Init
<1>11. TypeOK
  BY <1>1, <1>5, <1>8, <1>9, <1>10 DEF TypeOK
<1> QED
  BY <1>7, <1>11 DEF IInv

LEMMA StepInv == IInv /\ [Next]_vars => IInv'
<1> SUFFICES ASSUME IInv, [Next]_vars PROVE IInv'
  OBVIOUS
<1>1. /\ validators \in SUBSET Nodes /\ importing \in 0..MaxImport /\ batch \in BOOLEAN
      /\ restarts \in Nat /\ pruned \in BOOLEAN /\ barred \in SUBSET Nodes
      /\ MaxImport \in Nat
  BY BoundsAssumption DEF IInv, TypeOK
<1>2. /\ GoodState(chain) /\ GoodState(disk)
      /\ chain \in ChainStates /\ disk \in ChainStates
  BY DEF IInv, TypeOK, Linked, AuthorityOnChain, RootsCoverBlocks, ApprovalsOutliveRestart,
         GoodState
<1>3. \A c : GoodState(c) => GoodState(Saved(c))
  BY <1>2 DEF Saved
<1>4. ASSUME NEW tx \in Txs, Submit(tx)
      PROVE  IInv'
  <2> DEFINE d == Effect(chain, tx, Outcome(chain, tx))
  <2>1. GoodState(d) /\ GoodState(Logged(d, Level(Outcome(chain, tx))))
    BY <1>2, GoodSubmit
  <2>2. GoodState(chain') /\ GoodState(disk')
    BY <1>2, <1>3, <1>4, <2>1 DEF Submit
  <2>3. barred' \in SUBSET Nodes
    BY <1>1, <1>4, TxsAssumption DEF Submit, Barred, TxRecords
  <2> QED
    BY <1>1, <1>4, <2>2, <2>3, GoodStep DEF Submit
<1>5. ASSUME NEW n \in 1..MaxImport, ImportBegin(n)
      PROVE  IInv'
  BY <1>1, <1>2, <1>5, GoodStep DEF ImportBegin
<1>6. ASSUME NEW tx \in Txs, ImportNext(tx)
      PROVE  IInv'
  <2> DEFINE d == Effect(chain, tx, Outcome(chain, tx))
  <2>1. GoodState(d) /\ GoodState(Logged(d, Level(Outcome(chain, tx))))
    BY <1>2, GoodSubmit
  <2>2. GoodState(chain') /\ GoodState(disk')
    BY <1>2, <1>3, <1>6, <2>1 DEF ImportNext
  <2>3. barred' \in SUBSET Nodes /\ importing' \in 0..MaxImport /\ batch' \in BOOLEAN
    BY <1>1, <1>6 DEF ImportNext
  <2> QED
    BY <1>1, <1>6, <2>2, <2>3, GoodStep DEF ImportNext
<1>7. CASE ImportEnd
  BY <1>1, <1>2, <1>3, <1>7, GoodStep DEF ImportEnd
<1>8. ASSUME NEW keep \in KeepBlocks, Prune(keep)
      PROVE  IInv'
  <2> DEFINE d == PrunedTo(chain, keep)
  <2>1. /\ d \in ChainStates /\ d.auth = chain.auth /\ Tip(d) = Tip(chain)
        /\ LinkedChain(d) /\ RootsCover(d) /\ ApprovalsCover(d)
    BY <1>2, <1>8, PrunedType, PrunedLinked, PrunedCovered DEF Prune, GoodState
  <2> HIDE DEF d
  <2>2. GoodState(d)
    BY <1>2, <2>1, SoundSame DEF GoodState
  <2>3. GoodState(chain') /\ GoodState(disk')
    BY <1>3, <1>8, <2>2 DEF Prune, d
  <2> QED
    BY <1>1, <1>8, <2>3, GoodStep DEF Prune
<1>9. ASSUME NEW h \in Data, ApproveAppHash(h)
      PROVE  IInv'
  <2> DEFINE d == [chain EXCEPT !.approved = @ \cup {h}]
  <2>1. /\ d \in ChainStates /\ d.auth = chain.auth
        /\ d.blocks = chain.blocks /\ d.raw = chain.raw
        /\ d.roots = chain.roots /\ chain.approved \subseteq d.approved
    BY <1>2 DEF ChainStates
  <2> HIDE DEF d
  <2>2. Tip(d) = Tip(chain)
    BY <2>1 DEF Tip
  <2>3. GoodState(d)
    BY <1>2, <2>1, <2>2, SoundSame, LinkedSame, CoveredSame DEF GoodState
  <2>4. chain' = d
    BY <1>9 DEF ApproveAppHash, d
  <2> QED
    BY <1>1, <1>2, <1>9, <2>3, <2>4, GoodStep DEF ApproveAppHash
<1>10. CASE AlertPiiDetected
  <2> DEFINE d == Logged(chain, "warning")
  <2>1. /\ d \in ChainStates /\ d.auth = chain.auth /\ Tip(d) = Tip(chain)
        /\ d.blocks = chain.blocks /\ d.raw = chain.raw
        /\ d.roots = chain.roots /\ d.approved = chain.approved
    BY <1>2, LoggedType DEF Levels
  <2> HIDE DEF d
  <2>2. GoodState(d)
    BY <1>2, <2>1, SoundSame, LinkedSame, CoveredSame DEF GoodState
  <2>3. GoodState(chain') /\ GoodState(disk')
    BY <1>3, <1>10, <2>2 DEF AlertPiiDetected, d
  <2> QED
    BY <1>1, <1>10, <2>3, GoodStep DEF AlertPiiDetected
<1>11. CASE Restart
  <2>1. chain' = disk /\ disk' = disk
    BY <1>11 DEF Restart, Loaded
  <2>2. importing' \in 0..MaxImport /\ restarts' \in Nat
    BY <1>1, <1>11 DEF Restart
  <2>3. GoodState(chain') /\ GoodState(disk')
    BY <1>2, <2>1
  <2>4. /\ validators' = validators /\ batch' \in BOOLEAN
        /\ pruned' \in BOOLEAN /\ barred' \in SUBSET Nodes
    BY <1>1, <1>11 DEF Restart
  <2> QED
    BY <1>1, <2>2, <2>3, <2>4, GoodStep
<1>12. CASE UNCHANGED vars
  BY <1>1, <1>2, <1>12, GoodStep DEF vars
<1> QED
  BY <1>4, <1>5, <1>6, <1>7, <1>8, <1>9, <1>10, <1>11, <1>12 DEF Next

\* In every behaviour the memory, the file and the import counter keep their types.
THEOREM TypeCorrect == Spec => []TypeOK
<1>1. IInv => TypeOK
  BY DEF IInv
<1> QED
  BY <1>1, InitInv, StepInv, PTL DEF Spec

\* Memory and file always hold one unbroken hash chain over the transactions they
\* keep, whatever is imported, pruned or lost by a restart (chain.py:125, 220).
THEOREM ChainAlwaysLinked == Spec => []Linked
<1>1. IInv => Linked
  BY DEF IInv
<1> QED
  BY <1>1, InitInv, StepInv, PTL DEF Spec

\* No transaction is ever committed by a sender without authority, and no restart
\* resurrects one (chain.py:185, 194).
THEOREM AuthorityAlwaysOnChain == Spec => []AuthorityOnChain
<1>1. IInv => AuthorityOnChain
  BY DEF IInv
<1> QED
  BY <1>1, InitInv, StepInv, PTL DEF Spec

\* The roots of the retained payload commits are retained with them, in their order,
\* through pruning, imports and restarts (chain.py:133).
THEOREM RootsAlwaysCover == Spec => []RootsCoverBlocks
<1>1. IInv => RootsCoverBlocks
  BY DEF IInv
<1> QED
  BY <1>1, InitInv, StepInv, PTL DEF Spec

\* No restart leaves a verified application without its approval (chain.py:155, 203).
THEOREM ApprovalsAlwaysCover == Spec => []ApprovalsOutliveRestart
<1>1. IInv => ApprovalsOutliveRestart
  BY DEF IInv
<1> QED
  BY <1>1, InitInv, StepInv, PTL DEF Spec

-----------------------------------------------------------------------------
(* Exclusions: a sender leaves the whitelist in memory and file together.   *)

\* The whitelist and the barred senders after a transaction that submit decides.
LEMMA SubmitExcludes ==
  ASSUME IInv, ExclusionsSurviveRestart, NEW tx \in Txs,
         NEW d, d = Effect(chain, tx, Outcome(chain, tx))
  PROVE  LET code == Outcome(chain, tx)
         IN /\ Barred(tx, code) \cap d.auth = {}
            /\ (IF code = "node_authenticated" THEN barred \ {tx.sender} ELSE barred) \cap d.auth = {}
            /\ ~Saving(code) => Barred(tx, code) = barred
            /\ Logged(d, Level(code)).auth = d.auth
<1> DEFINE code == Outcome(chain, tx)
<1>1. chain \in ChainStates
  BY DEF IInv, TypeOK
<1>2. d \in ChainStates /\ d.auth = AuthAfter(chain, tx, code)
  BY <1>1, EffectType
<1>3. Logged(d, Level(code)).auth = d.auth
  BY <1>2, LoggedType, LevelType
<1> QED
  BY <1>2, <1>3 DEF ExclusionsSurviveRestart, AuthAfter, Barred, Saving, Committing

LEMMA StepExclusion == IInv /\ ExclusionsSurviveRestart /\ [Next]_vars => ExclusionsSurviveRestart'
<1> SUFFICES ASSUME IInv, ExclusionsSurviveRestart, [Next]_vars
             PROVE  barred' \cap (chain'.auth \cup disk'.auth) = {}
  BY DEF ExclusionsSurviveRestart
<1>1. /\ chain \in ChainStates /\ disk \in ChainStates /\ LinkedChain(chain)
      /\ barred \cap (chain.auth \cup disk.auth) = {}
  BY DEF IInv, TypeOK, Linked, ExclusionsSurviveRestart
<1>2. ASSUME NEW tx \in Txs, Submit(tx)
      PROVE  barred' \cap (chain'.auth \cup disk'.auth) = {}
  <2> DEFINE code == Outcome(chain, tx)
  <2>1. PICK d : d = Effect(chain, tx, code)
    OBVIOUS
  <2>2. /\ Barred(tx, code) \cap d.auth = {}
        /\ ~Saving(code) => Barred(tx, code) = barred
        /\ Logged(d, Level(code)).auth = d.auth
    BY <2>1, SubmitExcludes
  <2>3. /\ ~batch /\ chain' = Logged(d, Level(code)) /\ barred' = Barred(tx, code)
        /\ disk' = IF Saving(code) THEN Saved(d) ELSE disk
    BY <1>2, <2>1 DEF Submit
  <2> HIDE DEF code
  <2> QED
    BY <1>1, <2>2, <2>3 DEF Saved
<1>3. ASSUME NEW tx \in Txs, ImportNext(tx)
      PROVE  barred' \cap (chain'.auth \cup disk'.auth) = {}
  <2> DEFINE code == Outcome(chain, tx)
  <2>1. PICK d : d = Effect(chain, tx, code)
    OBVIOUS
  <2>2. /\ (IF code = "node_authenticated" THEN barred \ {tx.sender} ELSE barred) \cap d.auth = {}
        /\ Logged(d, Level(code)).auth = d.auth
    BY <2>1, SubmitExcludes
  <2>3. /\ chain' = Logged(d, Level(code))
        /\ barred' = IF code = "node_authenticated" THEN barred \ {tx.sender} ELSE barred
        /\ disk' = IF Saving(code) THEN Saved(d) ELSE disk
    BY <1>3, <2>1 DEF ImportNext
  <2>4. disk' = d \/ disk' = disk
    BY <2>3 DEF Saved
  <2>5. barred' \subseteq barred
    BY <2>3
  <2> HIDE DEF code
  <2> QED
    BY <1>1, <2>2, <2>3, <2>4, <2>5
<1>4. ASSUME barred' = barred, chain'.auth = chain.auth \/ chain'.auth = disk.auth,
             disk' = chain' \/ disk' = disk \/ disk' = chain
      PROVE  barred' \cap (chain'.auth \cup disk'.auth) = {}
  BY <1>1, <1>4
<1>5. ASSUME NEW n \in 1..MaxImport, ImportBegin(n)
      PROVE  barred' \cap (chain'.auth \cup disk'.auth) = {}
  BY <1>4, <1>5 DEF ImportBegin
<1>6. CASE ImportEnd
  BY <1>4, <1>6 DEF ImportEnd, Saved
<1>7. ASSUME NEW keep \in KeepBlocks, Prune(keep)
      PROVE  barred' \cap (chain'.auth \cup disk'.auth) = {}
  BY <1>1, <1>4, <1>7, PrunedType DEF Prune, Saved
<1>8. ASSUME NEW h \in Data, ApproveAppHash(h)
      PROVE  barred' \cap (chain'.auth \cup disk'.auth) = {}
  <2>1. chain'.auth = chain.auth
    BY <1>1, <1>8 DEF ApproveAppHash, ChainStates
  <2> QED
    BY <1>4, <1>8, <2>1 DEF ApproveAppHash
<1>9. CASE AlertPiiDetected
  <2>1. chain'.auth = chain.auth
    BY <1>1, <1>9, LoggedType DEF AlertPiiDetected, Levels
  <2> QED
    BY <1>4, <1>9, <2>1 DEF AlertPiiDetected, Saved
<1>10. CASE Restart
  BY <1>4, <1>10 DEF Restart, Loaded
<1>11. CASE UNCHANGED vars
  BY <1>4, <1>11 DEF vars
<1> QED
  BY <1>2, <1>3, <1>5, <1>6, <1>7, <1>8, <1>9, <1>10, <1>11 DEF Next

\* A sender that submit excluded is on no whitelist, in memory or file, until it
\* authenticates again (chain.py:177, 204).
THEOREM ExclusionsAlwaysSurvive == Spec => []ExclusionsSurviveRestart
<1>1. Init => ExclusionsSurviveRestart
  BY DEF Init, ExclusionsSurviveRestart
<1> QED
  BY <1>1, InitInv, StepInv, StepExclusion, PTL DEF Spec

-----------------------------------------------------------------------------
(* The audit trail.  The file may miss the event of the commit it was saved *)
(* for, and a restart makes that the memory's loss.                         *)

EventsKept ==
  ~pruned => /\ InfoEvents(chain) + restarts >= Len(Tip(chain))
             /\ InfoEvents(disk) + (restarts + 1) >= Len(Tip(disk))

LEMMA TrailType ==
  ASSUME NEW c \in ChainStates
  PROVE  InfoEvents(c) \in Nat /\ Len(Tip(c)) \in Nat
<1>1. "info" \in Levels
  BY DEF Levels
<1>2. Logged(c, "info").events = Append(c.events, "info")
  BY <1>1, LoggedType
<1>3. Tip(c) \in Seq(Txs)
  BY TipType
<1> QED
  BY <1>1, <1>2, <1>3, InfoAppended

\* Each block comes with one commit event, but the file is written in between.
LEMMA SubmitTrail ==
  ASSUME NEW c \in ChainStates, NEW tx \in Txs,
         NEW d, d = Effect(c, tx, Outcome(c, tx)),
         NEW e, e = Logged(d, Level(Outcome(c, tx)))
  PROVE  /\ d \in ChainStates /\ e \in ChainStates
         /\ Tip(e) = Tip(d) /\ InfoEvents(d) = InfoEvents(c)
         /\ \/ Len(Tip(d)) = Len(Tip(c)) + 1 /\ InfoEvents(e) = InfoEvents(c) + 1
            \/ Len(Tip(d)) = Len(Tip(c)) /\ InfoEvents(e) = InfoEvents(c)
<1> DEFINE code == Outcome(c, tx)
<1>1. /\ d \in ChainStates /\ d.events = c.events
      /\ code \in Committing => Tip(d) = Append(Tip(c), tx)
      /\ code \notin Committing => Tip(d) = Tip(c)
  BY EffectType
<1>2. /\ e \in ChainStates /\ Tip(e) = Tip(d) /\ e.events = Append(c.events, Level(code))
  BY <1>1, LoggedType, LevelType
<1>3. InfoEvents(d) = InfoEvents(c)
  BY <1>1 DEF InfoEvents
<1>4. InfoEvents(e) = IF Level(code) = "info" THEN InfoEvents(c) + 1 ELSE InfoEvents(c)
  BY <1>2, LevelType, InfoAppended
<1>5. Level(code) = "info" <=> code \in Committing
  BY DEF Level
<1>6. code \in Committing => Len(Tip(d)) = Len(Tip(c)) + 1
  BY <1>1, TipType
<1> QED
  BY <1>1, <1>2, <1>3, <1>4, <1>5, <1>6

LEMMA StepEvents == IInv /\ EventsKept /\ [Next]_vars => EventsKept'
<1> SUFFICES ASSUME IInv, EventsKept, [Next]_vars, ~pruned'
             PROVE  EventsKept'
  BY DEF EventsKept
<1> DEFINE Trail(c, slack) == InfoEvents(c) + slack >= Len(Tip(c))
<1>0. PICK after, file, r : after = chain' /\ file = disk' /\ r = restarts'
  OBVIOUS
<1> DEFINE Goal == Trail(after, r) /\ Trail(file, r + 1)
<1>1. /\ chain \in ChainStates /\ disk \in ChainStates /\ LinkedChain(chain)
      /\ restarts \in Nat
  BY DEF IInv, TypeOK, Linked
<1>2. \A c \in ChainStates : InfoEvents(c) \in Nat /\ Len(Tip(c)) \in Nat
  BY TrailType
<1>3. ~pruned => Trail(chain, restarts) /\ Trail(disk, restarts + 1)
  BY <1>1, <1>2 DEF EventsKept
<1>4. ASSUME NEW tx \in Txs, Submit(tx) \/ ImportNext(tx)
      PROVE  Goal
  <2> DEFINE code == Outcome(chain, tx)
  <2>1. PICK d : d = Effect(chain, tx, code)
    OBVIOUS
  <2>2. PICK e : e = Logged(d, Level(code))
    OBVIOUS
  <2>3. /\ chain' = e /\ restarts' = restarts /\ pruned' = pruned
        /\ disk' = d \/ disk' = disk
    BY <1>4, <2>1, <2>2 DEF Submit, ImportNext, Saved
  <2>4. /\ d \in ChainStates /\ e \in ChainStates
        /\ Tip(e) = Tip(d) /\ InfoEvents(d) = InfoEvents(chain)
        /\ \/ Len(Tip(d)) = Len(Tip(chain)) + 1 /\ InfoEvents(e) = InfoEvents(chain) + 1
           \/ Len(Tip(d)) = Len(Tip(chain)) /\ InfoEvents(e) = InfoEvents(chain)
    BY <1>1, <2>1, <2>2, SubmitTrail
  <2>5. Trail(e, restarts) /\ Trail(d, restarts + 1)
    BY <1>1, <1>2, <1>3, <2>3, <2>4
  <2> HIDE DEF Trail
  <2> QED
    BY <1>0, <1>3, <2>3, <2>5
<1>5. ASSUME NEW n \in 1..MaxImport, ImportBegin(n)
      PROVE  Goal
  BY <1>0, <1>3, <1>5 DEF ImportBegin
<1>6. ASSUME Trail(after, restarts), r = restarts, file = after \/ file = disk,
             pruned' = pruned, after \in ChainStates
      PROVE  Goal
  BY <1>1, <1>2, <1>3, <1>6
<1>7. ASSUME ImportEnd PROVE Goal
  BY <1>0, <1>1, <1>3, <1>6, <1>7 DEF ImportEnd, Saved
<1>8. ASSUME NEW keep \in KeepBlocks, Prune(keep)
      PROVE  Goal
  BY <1>8 DEF Prune
<1>9. ASSUME NEW h \in Data, ApproveAppHash(h)
      PROVE  Goal
  <2>1. after.events = chain.events /\ after.blocks = chain.blocks /\ after \in ChainStates
    BY <1>0, <1>1, <1>9 DEF ApproveAppHash, ChainStates
  <2>2. InfoEvents(after) = InfoEvents(chain) /\ Tip(after) = Tip(chain)
    BY <2>1 DEF InfoEvents, Tip
  <2> QED
    BY <1>0, <1>3, <1>6, <1>9, <2>1, <2>2 DEF ApproveAppHash
<1>10. ASSUME AlertPiiDetected PROVE Goal
  <2>1. "warning" \in Levels
    BY DEF Levels
  <2>2. /\ after = Logged(chain, "warning") /\ after \in ChainStates
        /\ after.events = Append(chain.events, "warning") /\ Tip(after) = Tip(chain)
    BY <1>0, <1>1, <1>10, <2>1, LoggedType DEF AlertPiiDetected
  <2>3. InfoEvents(after) = InfoEvents(chain)
    BY <1>1, <2>1, <2>2, InfoAppended
  <2>4. (file = after \/ file = disk) /\ r = restarts /\ pruned' = pruned
    BY <1>0, <1>10, <2>2 DEF AlertPiiDetected, Saved
  <2> QED
    BY <1>3, <1>6, <2>2, <2>3, <2>4
<1>11. ASSUME Restart PROVE Goal
  <2>1. after = disk /\ file = disk /\ r = restarts + 1 /\ pruned' = pruned
    BY <1>0, <1>11 DEF Restart, Loaded
  <2> QED
    BY <1>1, <1>2, <1>3, <2>1
<1>12. ASSUME UNCHANGED vars PROVE Goal
  BY <1>0, <1>3, <1>12 DEF vars
<1>13. Goal
  <2> HIDE DEF Goal
  <2> QED
    BY <1>4, <1>5, <1>7, <1>8, <1>9, <1>10, <1>11, <1>12 DEF Next
<1> QED
  BY <1>0, <1>13 DEF EventsKept

\* Until pruning, memory lacks at most one commit event for each restart
\* (chain.py:199, 200).
THEOREM EventsAlmostAllKept == Spec => []OneEventLostPerRestart
<1>1. Init => EventsKept
  <2> SUFFICES ASSUME Init PROVE EventsKept
    OBVIOUS
  <2>1. /\ chain.blocks = <<>> /\ chain.events = <<>> /\ disk = chain /\ restarts = 0
    BY DEF Init, Fresh
  <2>2. InfoEvents(chain) = 0 /\ Tip(chain) = <<>>
    <3>1. {i \in DOMAIN chain.events : chain.events[i] = "info"} = {}
      BY <2>1
    <3> QED
      BY <2>1, <3>1, FS_EmptySet DEF InfoEvents, Tip, GENESIS
  <2> QED
    BY <2>1, <2>2 DEF EventsKept
<1>2. EventsKept => OneEventLostPerRestart
  BY DEF EventsKept, OneEventLostPerRestart
<1> QED
  BY <1>1, <1>2, InitInv, StepInv, StepEvents, PTL DEF Spec

-----------------------------------------------------------------------------
(* The chain implements the ledger. *)

\* A whitelisted sender is one the ledger authorises.
LEMMA WhitelistedIsAuthorised ==
  ASSUME NEW c \in ChainStates, AuthoritySound(c), NEW n \in c.auth
  PROVE  n \in L!Authorised(Tip(c))
<1> DEFINE h == Tip(c)
<1>1. h \in Seq(Txs) /\ DOMAIN h = 1..Len(h)
  BY TipType
<1>2. Introduced(h, Len(h), n)
  BY DEF AuthoritySound
<1> QED
  BY <1>1, <1>2 DEF Introduced, L!Authorised

\* Replaying or submitting tx commits an admissible transaction or leaves the log.
LEMMA EffectIsLedgerStep ==
  ASSUME NEW c \in ChainStates, NEW tx \in Txs, AuthoritySound(c),
         NEW e, e = Logged(Effect(c, tx, Outcome(c, tx)), Level(Outcome(c, tx)))
  PROVE  IF Outcome(c, tx) \in Committing
         THEN L!Admissible(Tip(c), tx) /\ Tip(e) = Append(Tip(c), tx)
         ELSE Tip(e) = Tip(c)
<1> DEFINE code == Outcome(c, tx)
           d == Effect(c, tx, code)
<1>1. /\ d \in ChainStates
      /\ code \in Committing => Tip(d) = Append(Tip(c), tx)
      /\ code \notin Committing => Tip(d) = Tip(c)
  BY EffectType
<1>2. Tip(e) = Tip(d)
  BY <1>1, LoggedType, LevelType
<1>3. ASSUME code \in Committing
      PROVE  L!Admissible(Tip(c), tx)
  <2>1. CASE tx.type = "NODE_AUTH" /\ MayAuthenticate(tx)
    BY <2>1 DEF L!Admissible, MayAuthenticate
  <2>2. CASE tx.type # "NODE_AUTH" /\ tx.sender \in c.auth
    BY <2>2, WhitelistedIsAuthorised DEF L!Admissible
  <2> QED
    BY <1>3, <2>1, <2>2, CommitsAreAdmissible
<1> QED
  BY <1>1, <1>2, <1>3

LEMMA InitIsLedgerInit == Init => L!LInit
<1> SUFFICES ASSUME Init PROVE L!LInit
  OBVIOUS
<1>1. chain.blocks = <<>> /\ disk.blocks = <<>>
  BY DEF Init, Fresh
<1> QED
  BY <1>1 DEF L!LInit, Tip, GENESIS

\* submit() is one ledger step in either mode: a save outside batch mode writes the
\* log with the commit, in batch mode the file is left as it was.
LEMMA SubmitIsLedgerStep ==
  ASSUME IInv, NEW tx \in Txs, validators' = validators,
         chain' = Logged(Effect(chain, tx, Outcome(chain, tx)), Level(Outcome(chain, tx))),
         disk' = IF Saving(Outcome(chain, tx))
                 THEN Saved(Effect(chain, tx, Outcome(chain, tx))) ELSE disk
  PROVE  L!LNext \/ UNCHANGED L!lvars
<1> DEFINE code == Outcome(chain, tx)
           d == Effect(chain, tx, code)
<1>1. chain \in ChainStates /\ AuthoritySound(chain)
  BY DEF IInv, TypeOK, AuthorityOnChain
<1>2. IF code \in Committing
      THEN L!Admissible(Tip(chain), tx) /\ Tip(chain') = Append(Tip(chain), tx)
      ELSE Tip(chain') = Tip(chain)
  BY <1>1, EffectIsLedgerStep
<1>3. Tip(d) = Tip(chain')
  BY <1>1, <1>2, EffectType
<1>4. disk' = IF Saving(code) /\ ~batch THEN d ELSE disk
  BY DEF Saved
<1>5. Tip(disk') = IF Saving(code) /\ ~batch THEN Tip(chain') ELSE Tip(disk)
  BY <1>3, <1>4
<1>6. Tip(chain)' = Tip(chain') /\ Tip(disk)' = Tip(disk')
  BY DEF Tip, GENESIS
<1> HIDE DEF d, code
<1>7. CASE code \in Committing /\ ~batch
  <2>1. L!CommitSaved(tx)
    BY <1>2, <1>5, <1>6, <1>7 DEF L!CommitSaved, Saving
  <2> QED
    BY <2>1 DEF L!LNext
<1>8. CASE code \in Committing /\ batch
  <2>1. L!CommitVolatile(tx)
    BY <1>2, <1>5, <1>6, <1>8 DEF L!CommitVolatile
  <2> QED
    BY <2>1 DEF L!LNext
<1>9. CASE code \notin Committing /\ Saving(code) /\ ~batch
  <2>1. L!Flush
    BY <1>2, <1>5, <1>6, <1>9 DEF L!Flush
  <2> QED
    BY <2>1 DEF L!LNext
<1>10. CASE code \notin Committing /\ (~Saving(code) \/ batch)
  BY <1>2, <1>5, <1>6, <1>10 DEF L!lvars
<1> QED
  BY <1>7, <1>8, <1>9, <1>10

\* A call that keeps the tip and may save it is a flush or nothing at all.
LEMMA SaveIsLedgerStep ==
  ASSUME validators' = validators, Tip(chain') = Tip(chain),
         disk' = Saved(chain') \/ disk' = disk
  PROVE  L!LNext \/ UNCHANGED L!lvars
<1>1. Tip(chain)' = Tip(chain') /\ Tip(disk)' = Tip(disk')
  BY DEF Tip, GENESIS
<1>2. CASE disk' = disk
  BY <1>1, <1>2 DEF L!lvars
<1>3. CASE disk' = chain'
  <2>1. L!Flush
    BY <1>1, <1>3 DEF L!Flush
  <2> QED
    BY <2>1 DEF L!LNext
<1> QED
  BY <1>2, <1>3 DEF Saved

\* Every step of the chain is a ledger step or leaves the ledger as it is.
LEMMA StepIsLedgerStep == IInv /\ [Next]_vars => [L!LNext]_(L!lvars)
<1> SUFFICES ASSUME IInv, [Next]_vars PROVE L!LNext \/ UNCHANGED L!lvars
  OBVIOUS
<1>1. chain \in ChainStates /\ LinkedChain(chain)
  BY DEF IInv, TypeOK, Linked
<1>2. ASSUME NEW tx \in Txs, Submit(tx) \/ ImportNext(tx)
      PROVE  L!LNext \/ UNCHANGED L!lvars
  BY <1>2, SubmitIsLedgerStep DEF Submit, ImportNext
<1>3. ASSUME NEW n \in 1..MaxImport, ImportBegin(n)
      PROVE  L!LNext \/ UNCHANGED L!lvars
  BY <1>3, SaveIsLedgerStep DEF ImportBegin
<1>4. CASE ImportEnd
  BY <1>4, SaveIsLedgerStep DEF ImportEnd
<1>5. ASSUME NEW keep \in KeepBlocks, Prune(keep)
      PROVE  L!LNext \/ UNCHANGED L!lvars
  <2>1. Tip(chain') = Tip(chain)
    BY <1>1, <1>5, PrunedType DEF Prune
  <2> QED
    BY <1>5, <2>1, SaveIsLedgerStep DEF Prune
<1>6. ASSUME NEW h \in Data, ApproveAppHash(h)
      PROVE  L!LNext \/ UNCHANGED L!lvars
  <2>1. chain'.blocks = chain.blocks
    BY <1>1, <1>6 DEF ApproveAppHash, ChainStates
  <2>2. Tip(chain') = Tip(chain)
    BY <2>1 DEF Tip
  <2> QED
    BY <1>6, <2>2, SaveIsLedgerStep DEF ApproveAppHash
<1>7. CASE AlertPiiDetected
  <2>1. Tip(chain') = Tip(chain)
    BY <1>1, <1>7, LoggedType DEF AlertPiiDetected, Levels
  <2> QED
    BY <1>7, <2>1, SaveIsLedgerStep DEF AlertPiiDetected
<1>8. CASE Restart
  <2>1. chain' = disk /\ disk' = disk /\ validators' = validators
    BY <1>8 DEF Restart, Loaded
  <2>2. L!Lose
    BY <2>1 DEF L!Lose, Tip, GENESIS
  <2> QED
    BY <2>2 DEF L!LNext
<1>9. CASE UNCHANGED vars
  BY <1>9, SaveIsLedgerStep DEF vars
<1> QED
  BY <1>2, <1>3, <1>4, <1>5, <1>6, <1>7, <1>8, <1>9 DEF Next

\* The chain keeps the ledger's promises in every behaviour: only authorised senders
\* extend the log, and a restart falls back to exactly what was saved.
THEOREM ChainImplementsLedger == Spec => ImplementsLedger
  BY InitInv, StepInv, InitIsLedgerInit, StepIsLedgerStep, PTL
  DEF Spec, ImplementsLedger, L!LSpec
=============================================================================
