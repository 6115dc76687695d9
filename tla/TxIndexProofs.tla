--------------------------- MODULE TxIndexProofs ----------------------------
(***************************************************************************)
(* Proofs about TxIndex, for every block tree, every contents of its       *)
(* blocks and every maturity: the index is that of the transactions which  *)
(* the batch has connected so far, so that what is committed is the index  *)
(* of the best chain.                                                      *)
(***************************************************************************)
EXTENDS TxIndex, BlockTreeProofs

(* The index of any set P of places, of which a chain is one example and a   *)
(* chain with the first transactions of one more block another.              *)
SpentIn(P, o) ==
    LET s == {p \in P : o \in Ins[TxAt(p)]} IN
    IF s = {} THEN NoTx ELSE TxAt(CHOOSE p \in s : TRUE)
RecIn(P, t) ==
    LET ps == {p \in P : TxAt(p) = t} IN
    IF ps = {} THEN NoRecord
    ELSE [block |-> (CHOOSE p \in ps : TRUE)[1],
          vSpent |-> [n \in 1..nOuts[t] |-> SpentIn(P, <<t, n>>)]]
IndexOf(P) == [t \in Txs |-> RecIn(P, t)]

AllPlaces == UNION {{c} \X DOMAIN vtx[c] : c \in Blocks \ {Genesis}}

(* Every transaction of P occurs once, spends outputs that stand before it   *)
(* in P and are ripe, and shares none of them with another.                  *)
Funded(P, p, o) ==
    \E q \in P : /\ TxAt(q) = o[1] /\ Before(q, p) /\ o[2] <= nOuts[o[1]]
                 /\ o[1] \in Generated => Height[p[1]] - Height[q[1]] >= Maturity
Sound(P) ==
    /\ P \subseteq AllPlaces
    /\ \A p, q \in P : TxAt(p) = TxAt(q) => p = q
    /\ \A p \in P : \A o \in Ins[TxAt(p)] : Funded(P, p, o)
    /\ \A p, q \in P : p # q => Ins[TxAt(p)] \cap Ins[TxAt(q)] = {}

(* The chain below b, with the first k transactions of b.                    *)
Upto(b, k) == Places(Parent[b]) \cup ({b} \X (1..k))

-----------------------------------------------------------------------------
(* Contents of blocks.                                                       *)

LEMMA PlaceFacts ==
    ASSUME NEW p \in AllPlaces
    PROVE  /\ p[1] \in Blocks \ {Genesis} /\ p[2] \in 1..Len(vtx[p[1]])
           /\ p = <<p[1], p[2]>>
           /\ TxAt(p) \in Txs
           /\ Ins[TxAt(p)] \subseteq Txs \X (Nat \ {0})
           /\ nOuts[TxAt(p)] \in Nat
           /\ Height[p[1]] \in Nat
  <1>1. PICK c \in Blocks \ {Genesis} : p \in {c} \X DOMAIN vtx[c]
    BY DEF AllPlaces
  <1>2. p[1] = c /\ p[2] \in DOMAIN vtx[c] /\ p = <<p[1], p[2]>>
    BY <1>1
  <1>3. vtx[c] \in Seq(Txs)
    BY ContentsAssumption
  <1>4. TxAt(p) \in Txs /\ p[2] \in 1..Len(vtx[c])
    BY <1>2, <1>3 DEF TxAt
  <1>5. Height[c] \in Nat
    BY TreeAssumption
  <1> QED BY <1>2, <1>4, <1>5, ContentsAssumption

LEMMA UptoFacts ==
    ASSUME NEW b \in Blocks \ {Genesis}
    PROVE  /\ Upto(b, Len(vtx[b])) = Places(b)
           /\ Upto(b, 0) = Places(Parent[b])
           /\ b \notin Chain[Parent[b]]
           /\ \A k \in 0..Len(vtx[b]) : Upto(b, k) \subseteq AllPlaces
           /\ \A k \in 1..Len(vtx[b]) :
                 /\ Upto(b, k) = Upto(b, k - 1) \cup {<<b, k>>}
                 /\ <<b, k>> \notin Upto(b, k - 1)
                 /\ \A q \in Upto(b, k - 1) : Before(q, <<b, k>>) /\ ~Before(<<b, k>>, q)
  <1>1. /\ Parent[b] \in Blocks /\ Chain[b] = {b} \cup Chain[Parent[b]]
        /\ Height[b] \in Nat /\ Height[Parent[b]] \in Nat /\ Height[b] = Height[Parent[b]] + 1
    BY ChainStep, TreeAssumption
  <1>2. Chain[Parent[b]] \subseteq Blocks
    BY <1>1, ChainBasics
  <1>3. \A c \in Chain[Parent[b]] : Height[c] \in Nat /\ Height[c] < Height[b]
    <2> TAKE c \in Chain[Parent[b]]
    <2>1. Height[c] \in Nat
      BY <1>2, TreeAssumption
    <2>2. c = Parent[b] \/ Height[c] < Height[Parent[b]]
      BY <1>1, ChainBelow
    <2> QED BY <1>1, <2>1, <2>2
  <1>4. b \notin Chain[Parent[b]]
    BY <1>1, <1>3
  <1>5. vtx[b] \in Seq(Txs) /\ DOMAIN vtx[b] = 1..Len(vtx[b]) /\ Len(vtx[b]) \in Nat
    BY ContentsAssumption
  <1>6. Ledgered(b) = {b} \cup Ledgered(Parent[b])
    BY <1>1 DEF Ledgered
  <1>7. Places(b) = Places(Parent[b]) \cup ({b} \X DOMAIN vtx[b])
    BY <1>6 DEF Places
  <1>8. \A q \in Places(Parent[b]) : q[1] \in Chain[Parent[b]] /\ q[1] \in Blocks \ {Genesis} /\ q \in AllPlaces
    BY <1>2 DEF Places, Ledgered, AllPlaces
  <1>9. ASSUME NEW k \in 0..Len(vtx[b]) PROVE Upto(b, k) \subseteq AllPlaces
    <2>1. 1..k \subseteq DOMAIN vtx[b]
      BY <1>5
    <2>2. {b} \X (1..k) \subseteq {b} \X DOMAIN vtx[b]
      BY <2>1
    <2>3. {b} \X DOMAIN vtx[b] \subseteq AllPlaces
      BY DEF AllPlaces
    <2> QED BY <1>8, <2>2, <2>3 DEF Upto
  <1>10. ASSUME NEW k \in 1..Len(vtx[b])
         PROVE  /\ Upto(b, k) = Upto(b, k - 1) \cup {<<b, k>>}
                /\ <<b, k>> \notin Upto(b, k - 1)
                /\ \A q \in Upto(b, k - 1) : Before(q, <<b, k>>) /\ ~Before(<<b, k>>, q)
    <2>1. k \in Nat /\ 1..k = (1..(k - 1)) \cup {k}
      BY <1>5
    <2>2. {b} \X (1..k) = ({b} \X (1..(k - 1))) \cup {<<b, k>>}
      BY <2>1
    <2>3. \A q \in Upto(b, k - 1) : \/ q[1] \in Chain[Parent[b]]
                                    \/ q[1] = b /\ q[2] \in 1..(k - 1)
      BY <1>8 DEF Upto
    <2>4. <<b, k>> \notin Upto(b, k - 1)
      BY <1>4, <2>1, <2>3
    <2>5. \A q \in Upto(b, k - 1) : Before(q, <<b, k>>) /\ ~Before(<<b, k>>, q)
      BY <1>1, <1>3, <1>4, <2>1, <2>3 DEF Before
    <2> QED BY <2>2, <2>4, <2>5 DEF Upto
  <1>11. Upto(b, 0) = Places(Parent[b])
    <2>1. 1..0 = {}
      OBVIOUS
    <2> QED BY <2>1 DEF Upto
  <1> QED BY <1>4, <1>5, <1>7, <1>9, <1>10, <1>11 DEF Upto

-----------------------------------------------------------------------------
(* Records.                                                                  *)

(* What SpentIn and RecIn are for a sound set of places.                     *)
LEMMA SpentFacts ==
    ASSUME NEW P, Sound(P), NEW o
    PROVE  /\ \A q \in P : o \in Ins[TxAt(q)] => SpentIn(P, o) = TxAt(q) /\ SpentIn(P, o) # NoTx
           /\ (\A q \in P : o \notin Ins[TxAt(q)]) => SpentIn(P, o) = NoTx
  <1>1. ASSUME NEW q \in P, o \in Ins[TxAt(q)]
        PROVE  SpentIn(P, o) = TxAt(q) /\ SpentIn(P, o) # NoTx
    <2>1. \A p \in P : o \in Ins[TxAt(p)] => p = q
      BY <1>1 DEF Sound
    <2>2. {p \in P : o \in Ins[TxAt(p)]} = {q}
      BY <1>1, <2>1
    <2>3. SpentIn(P, o) = TxAt(q)
      BY <2>2 DEF SpentIn
    <2>4. TxAt(q) # NoTx
      BY PlaceFacts, TxIndexAssumption DEF Sound
    <2> QED BY <2>3, <2>4
  <1>2. ASSUME \A q \in P : o \notin Ins[TxAt(q)] PROVE SpentIn(P, o) = NoTx
    BY <1>2 DEF SpentIn
  <1> QED BY <1>1, <1>2

LEMMA RecFacts ==
    ASSUME NEW P, Sound(P), NEW t
    PROVE  /\ \A q \in P : TxAt(q) = t =>
                 RecIn(P, t) = [block |-> q[1], vSpent |-> [n \in 1..nOuts[t] |-> SpentIn(P, <<t, n>>)]]
           /\ (\A q \in P : TxAt(q) # t) => RecIn(P, t) = NoRecord
  <1>1. ASSUME NEW q \in P, TxAt(q) = t
        PROVE  RecIn(P, t) = [block |-> q[1], vSpent |-> [n \in 1..nOuts[t] |-> SpentIn(P, <<t, n>>)]]
    <2>1. {p \in P : TxAt(p) = t} = {q}
      BY <1>1 DEF Sound
    <2>2. (CHOOSE p \in {q} : TRUE) = q
      OBVIOUS
    <2> QED BY <2>1, <2>2 DEF RecIn
  <1>2. ASSUME \A q \in P : TxAt(q) # t PROVE RecIn(P, t) = NoRecord
    BY <1>2 DEF RecIn
  <1> QED BY <1>1, <1>2

LEMMA NoRecordFacts ==
    /\ DOMAIN NoRecord.vSpent = {} /\ NoRecord.block = NoBlock
    /\ \A u, outs, t : SetSpender(NoRecord, u, outs, t) = NoRecord
  <1>1. NoRecord.vSpent = <<>> /\ DOMAIN <<>> = {} /\ NoRecord.block = NoBlock
    BY DEF NoRecord
  <1>2. ASSUME NEW u, NEW outs, NEW t PROVE SetSpender(NoRecord, u, outs, t) = NoRecord
    <2>1. [n \in {} |-> IF <<u, n>> \in outs THEN t ELSE NoRecord.vSpent[n]] = <<>>
      OBVIOUS
    <2> QED BY <1>1, <2>1 DEF SetSpender, NoRecord
  <1> QED BY <1>1, <1>2

LEMMA SetSpenderFacts ==
    ASSUME NEW b, NEW f, NEW u, NEW outs, NEW t
    PROVE  SetSpender([block |-> b, vSpent |-> f], u, outs, t) =
             [block |-> b, vSpent |-> [n \in DOMAIN f |-> IF <<u, n>> \in outs THEN t ELSE f[n]]]
  <1> DEFINE r == [block |-> b, vSpent |-> f]
             g == [n \in DOMAIN f |-> IF <<u, n>> \in outs THEN t ELSE f[n]]
  <1>1. r.vSpent = f
    OBVIOUS
  <1>2. SetSpender(r, u, outs, t) = [r EXCEPT !.vSpent = g]
    BY <1>1 DEF SetSpender
  <1> HIDE DEF g
  <1>3. [r EXCEPT !.vSpent = g] = [block |-> b, vSpent |-> g]
    OBVIOUS
  <1> QED BY <1>2, <1>3 DEF g

-----------------------------------------------------------------------------
(* One place more, or one less.                                              *)

(* A transaction that nothing in P is, and that only finds its inputs in P   *)
(* unspent and ripe, may be added.                                           *)
LEMMA SoundAdd ==
    ASSUME NEW P, Sound(P), NEW p \in AllPlaces,
           \A q \in P : TxAt(q) # TxAt(p) /\ Ins[TxAt(q)] \cap Ins[TxAt(p)] = {},
           \A o \in Ins[TxAt(p)] : Funded(P, p, o)
    PROVE  Sound(P \cup {p})
  <1>1. \A q, o : Funded(P, q, o) => Funded(P \cup {p}, q, o)
    BY DEF Funded
  <1>2. \A q \in P \cup {p} : \A o \in Ins[TxAt(q)] : Funded(P \cup {p}, q, o)
    BY <1>1 DEF Sound
  <1>3. \A q, r \in P \cup {p} : TxAt(q) = TxAt(r) => q = r
    BY DEF Sound
  <1>4. \A q, r \in P \cup {p} : q # r => Ins[TxAt(q)] \cap Ins[TxAt(r)] = {}
    BY DEF Sound
  <1> QED BY <1>2, <1>3, <1>4 DEF Sound

(* The last place may be taken away.                                         *)
LEMMA SoundRemove ==
    ASSUME NEW P, NEW p, Sound(P \cup {p}), p \notin P, \A q \in P : ~Before(p, q)
    PROVE  Sound(P)
  <1>1. ASSUME NEW q \in P, NEW o \in Ins[TxAt(q)] PROVE Funded(P, q, o)
    <2>1. Funded(P \cup {p}, q, o)
      BY DEF Sound
    <2> QED BY <2>1 DEF Funded
  <1> QED BY <1>1 DEF Sound

LEMMA RecAdd ==
    ASSUME NEW P, NEW p, Sound(P), Sound(P \cup {p}), p \notin P, NEW u
    PROVE  RecIn(P \cup {p}, u) = IF u = TxAt(p) THEN NewRecord(p[1], u)
                                  ELSE SetSpender(RecIn(P, u), u, Ins[TxAt(p)], TxAt(p))
  <1> DEFINE Q == P \cup {p}
             t == TxAt(p)
  <1>1. \A q \in P : TxAt(q) # t
    BY DEF Sound
  <1>2. CASE u = t
    <2>1. ASSUME NEW n PROVE SpentIn(Q, <<t, n>>) = NoTx
      <3>1. \A q \in Q : <<t, n>> \notin Ins[TxAt(q)]
        <4> SUFFICES ASSUME NEW q \in Q, <<t, n>> \in Ins[TxAt(q)] PROVE FALSE
          OBVIOUS
        <4>1. q \in AllPlaces
          BY DEF Sound
        <4>2. CASE q \in P
          <5>1. Funded(P, q, <<t, n>>)
            BY <4>2 DEF Sound
          <5> QED BY <1>1, <5>1 DEF Funded
        <4>3. CASE q = p
          <5>1. Funded(Q, p, <<t, n>>)
            BY <4>3 DEF Sound
          <5>2. Before(p, p)
            BY <1>1, <5>1 DEF Funded
          <5>3. Height[p[1]] \in Nat /\ p[2] \in Nat
            BY <4>1, <4>3, PlaceFacts
          <5> QED BY <5>2, <5>3 DEF Before
        <4> QED BY <4>2, <4>3
      <3> QED BY <3>1, SpentFacts
    <2>2. RecIn(Q, t) = [block |-> p[1], vSpent |-> [n \in 1..nOuts[t] |-> SpentIn(Q, <<t, n>>)]]
      BY RecFacts
    <2> QED BY <1>2, <2>1, <2>2 DEF NewRecord
  <1>3. CASE u # t /\ \E q \in P : TxAt(q) = u
    <2>1. PICK q \in P : TxAt(q) = u
      BY <1>3
    <2>2. /\ RecIn(P, u) = [block |-> q[1], vSpent |-> [n \in 1..nOuts[u] |-> SpentIn(P, <<u, n>>)]]
          /\ RecIn(Q, u) = [block |-> q[1], vSpent |-> [n \in 1..nOuts[u] |-> SpentIn(Q, <<u, n>>)]]
      BY <2>1, RecFacts
    <2>3. ASSUME NEW n
          PROVE  SpentIn(Q, <<u, n>>) = IF <<u, n>> \in Ins[t] THEN t ELSE SpentIn(P, <<u, n>>)
      <3>1. CASE <<u, n>> \in Ins[t]
        BY <3>1, SpentFacts
      <3>2. CASE <<u, n>> \notin Ins[t] /\ \E r \in P : <<u, n>> \in Ins[TxAt(r)]
        <4>1. PICK r \in P : <<u, n>> \in Ins[TxAt(r)]
          BY <3>2
        <4>2. SpentIn(Q, <<u, n>>) = TxAt(r)
          BY <4>1, SpentFacts
        <4>3. SpentIn(P, <<u, n>>) = TxAt(r)
          BY <4>1, SpentFacts
        <4> QED BY <3>2, <4>2, <4>3
      <3>3. CASE <<u, n>> \notin Ins[t] /\ \A r \in P : <<u, n>> \notin Ins[TxAt(r)]
        <4>1. SpentIn(Q, <<u, n>>) = NoTx
          BY <3>3, SpentFacts
        <4>2. SpentIn(P, <<u, n>>) = NoTx
          BY <3>3, SpentFacts
        <4> QED BY <3>3, <4>1, <4>2
      <3> QED BY <3>1, <3>2, <3>3
    <2> DEFINE f == [n \in 1..nOuts[u] |-> SpentIn(P, <<u, n>>)]
               g == [n \in DOMAIN f |-> IF <<u, n>> \in Ins[t] THEN t ELSE f[n]]
    <2>4. [n \in 1..nOuts[u] |-> SpentIn(Q, <<u, n>>)] = g
      BY <2>3
    <2>5. RecIn(P, u) = [block |-> q[1], vSpent |-> f]
      BY <2>2
    <2> HIDE DEF f
    <2>6. SetSpender([block |-> q[1], vSpent |-> f], u, Ins[t], t) = [block |-> q[1], vSpent |-> g]
      BY SetSpenderFacts
    <2> HIDE DEF g
    <2> QED BY <1>3, <2>2, <2>4, <2>5, <2>6
  <1>4. CASE u # t /\ \A q \in P : TxAt(q) # u
    <2>1. RecIn(Q, u) = NoRecord /\ RecIn(P, u) = NoRecord
      BY <1>4, RecFacts
    <2> QED BY <1>4, <2>1, NoRecordFacts
  <1> QED BY <1>2, <1>3, <1>4

LEMMA RecRemove ==
    ASSUME NEW P, NEW p, Sound(P), Sound(P \cup {p}), p \notin P, NEW u
    PROVE  RecIn(P, u) = IF u = TxAt(p) THEN NoRecord
                         ELSE SetSpender(RecIn(P \cup {p}, u), u, Ins[TxAt(p)], NoTx)
  <1> DEFINE t == TxAt(p)
             r == RecIn(P, u)
  <1>1. CASE u = t
    <2>1. \A q \in P : TxAt(q) # t
      BY DEF Sound
    <2> QED BY <1>1, <2>1, RecFacts
  <1>2. CASE u # t /\ \E q \in P : TxAt(q) = u
    <2>1. PICK q \in P : TxAt(q) = u
      BY <1>2
    <2>2. r = [block |-> q[1], vSpent |-> [n \in 1..nOuts[u] |-> SpentIn(P, <<u, n>>)]]
      BY <2>1, RecFacts
    <2>3. RecIn(P \cup {p}, u) = SetSpender(r, u, Ins[t], t)
      BY <1>2, RecAdd
    <2>4. ASSUME NEW n, <<u, n>> \in Ins[t] PROVE SpentIn(P, <<u, n>>) = NoTx
      <3>1. \A s \in P : <<u, n>> \notin Ins[TxAt(s)]
        BY <2>4 DEF Sound
      <3> QED BY <3>1, SpentFacts
    <2> DEFINE f == [n \in 1..nOuts[u] |-> SpentIn(P, <<u, n>>)]
               g == [n \in DOMAIN f |-> IF <<u, n>> \in Ins[t] THEN t ELSE f[n]]
               back == [n \in DOMAIN g |-> IF <<u, n>> \in Ins[t] THEN NoTx ELSE g[n]]
    <2>5. f = back
      BY <2>4
    <2>6. r = [block |-> q[1], vSpent |-> f]
      BY <2>2
    <2> HIDE DEF f, r
    <2>7. SetSpender([block |-> q[1], vSpent |-> f], u, Ins[t], t) = [block |-> q[1], vSpent |-> g]
      BY SetSpenderFacts
    <2> HIDE DEF g
    <2>8. SetSpender([block |-> q[1], vSpent |-> g], u, Ins[t], NoTx) = [block |-> q[1], vSpent |-> back]
      BY SetSpenderFacts
    <2> HIDE DEF back
    <2> QED BY <1>2, <2>3, <2>5, <2>6, <2>7, <2>8 DEF r
  <1>3. CASE u # t /\ \A q \in P : TxAt(q) # u
    <2>1. RecIn(P \cup {p}, u) = NoRecord /\ RecIn(P, u) = NoRecord
      BY <1>3, RecFacts
    <2> QED BY <1>3, <2>1, NoRecordFacts
  <1> QED BY <1>1, <1>2, <1>3

(* A record none of whose outputs are in outs stays.                         *)
LEMMA RecUntouched ==
    ASSUME NEW P, Sound(P), NEW u, NEW outs, NEW t, \A n : <<u, n>> \notin outs
    PROVE  SetSpender(RecIn(P, u), u, outs, t) = RecIn(P, u)
  <1>1. CASE \E q \in P : TxAt(q) = u
    <2>1. PICK q \in P : TxAt(q) = u
      BY <1>1
    <2> DEFINE f == [n \in 1..nOuts[u] |-> SpentIn(P, <<u, n>>)]
               g == [n \in DOMAIN f |-> IF <<u, n>> \in outs THEN t ELSE f[n]]
    <2>2. RecIn(P, u) = [block |-> q[1], vSpent |-> f]
      BY <2>1, RecFacts
    <2>3. g = f
      OBVIOUS
    <2> HIDE DEF f
    <2>4. SetSpender([block |-> q[1], vSpent |-> f], u, outs, t) = [block |-> q[1], vSpent |-> g]
      BY SetSpenderFacts
    <2> HIDE DEF g
    <2> QED BY <2>2, <2>3, <2>4
  <1>2. CASE \A q \in P : TxAt(q) # u
    BY <1>2, RecFacts, NoRecordFacts
  <1> QED BY <1>1, <1>2

-----------------------------------------------------------------------------
(* The inductive invariant.                                                  *)

DbPart == Sound(Places(dbBest)) /\ dbIndex = IndexOf(Places(dbBest))

Disconnecting ==
    /\ pc = "disconnect" /\ target \in Blocks
    /\ at \in Blocks \ Chain[target] /\ i \in 0..Len(vtx[at])
    /\ Sound(Upto(at, i)) /\ index = IndexOf(Upto(at, i))

Connecting ==
    /\ pc = "connect" /\ target \in Blocks
    /\ at \in Chain[target] \ {Genesis} /\ i \in 1..(Len(vtx[at]) + 1)
    /\ Sound(Places(Parent[at])) /\ index = IndexOf(Places(Parent[at]))
    /\ Sound(Upto(at, i - 1))
    /\ DOMAIN queued \subseteq Txs
    /\ \A t \in Txs : Fetch(t) = RecIn(Upto(at, i - 1), t)

Committing ==
    /\ pc = "commit" /\ target \in Blocks
    /\ Sound(Places(target)) /\ index = IndexOf(Places(target))

(* What the index holds at each stage of a batch.                            *)
StagePart == pc = "idle" \/ Disconnecting \/ Connecting \/ Committing

(* How far the call is, whatever the index holds.                            *)
CallPart ==
    /\ dbBest \in Blocks /\ pindexBest \in Blocks /\ strayed \in BOOLEAN
    /\ pc = "idle" => first = TRUE /\ index = dbIndex
    /\ pc # "connect" => queued = Empty
    /\ pc # "idle" =>
          /\ pindexNew \in Blocks /\ target \in Chain[pindexNew]
          /\ first = TRUE => target # pindexBest
          /\ first # TRUE => target # Genesis /\ Parent[target] = dbBest

IndexInv ==
    /\ CallPart
    /\ ~strayed => DbPart
    /\ Grounded => StagePart

-----------------------------------------------------------------------------
(* DisconnectBlock finds what it looks for.                                  *)
LEMMA CanDisconnectSound ==
    ASSUME Disconnecting, i > 0
    PROVE  CanDisconnect(DisconnectNext)
  <1>1. /\ at \in Blocks \ {Genesis} /\ i \in 1..Len(vtx[at]) /\ Sound(Upto(at, i))
        /\ index = IndexOf(Upto(at, i))
    BY GenesisOnChain, ContentsAssumption DEF Disconnecting
  <1>2. <<at, i>> \in Upto(at, i) /\ TxAt(<<at, i>>) = DisconnectNext
    BY <1>1 DEF Upto, TxAt, DisconnectNext
  <1> SUFFICES ASSUME NEW o \in Ins[DisconnectNext] PROVE HasOutput(index[o[1]], o)
    BY DEF CanDisconnect
  <1>3. PICK q \in Upto(at, i) : TxAt(q) = o[1] /\ o[2] <= nOuts[o[1]]
    BY <1>1, <1>2 DEF Sound, Funded
  <1>4. q \in AllPlaces /\ <<at, i>> \in AllPlaces
    BY <1>1, <1>2 DEF Sound
  <1>5. o[1] \in Txs /\ o[2] \in 1..nOuts[o[1]] /\ q[1] # NoBlock
    BY <1>2, <1>3, <1>4, PlaceFacts, TxIndexAssumption
  <1>6. index[o[1]] = [block |-> q[1],
                       vSpent |-> [n \in 1..nOuts[o[1]] |-> SpentIn(Upto(at, i), <<o[1], n>>)]]
    BY <1>1, <1>3, <1>5, RecFacts DEF IndexOf
  <1> QED BY <1>5, <1>6 DEF HasOutput

(* What CanConnect says of the transaction at the next place.                *)
LEMMA ConnectFacts ==
    ASSUME Connecting, i <= Len(vtx[at])
    PROVE  /\ at \in Blocks \ {Genesis} /\ i \in 1..Len(vtx[at])
           /\ <<at, i>> \in AllPlaces /\ TxAt(<<at, i>>) = vtx[at][i] /\ vtx[at][i] \in Txs
           /\ Upto(at, i) = Upto(at, i - 1) \cup {<<at, i>>} /\ <<at, i>> \notin Upto(at, i - 1)
           /\ \A q \in Upto(at, i - 1) : q \in AllPlaces /\ Before(q, <<at, i>>) /\ q[1] \in Chain[at]
           /\ \A q \in Upto(at, i - 1) : TxAt(q) = vtx[at][i] => Ins[vtx[at][i]] # {}
  <1>1. at \in Blocks \ {Genesis} /\ i \in 1..Len(vtx[at]) /\ vtx[at] \in Seq(Txs)
    BY ChainBasics, ContentsAssumption DEF Connecting
  <1>2. vtx[at][i] \in Txs /\ TxAt(<<at, i>>) = vtx[at][i] /\ DOMAIN vtx[at] = 1..Len(vtx[at])
    BY <1>1 DEF TxAt
  <1>3. /\ Upto(at, i) = Upto(at, i - 1) \cup {<<at, i>>} /\ <<at, i>> \notin Upto(at, i - 1)
        /\ \A q \in Upto(at, i - 1) : Before(q, <<at, i>>)
    BY <1>1, UptoFacts
  <1>4. Upto(at, i) \subseteq AllPlaces
    BY <1>1, UptoFacts
  <1>5. Chain[at] = {at} \cup Chain[Parent[at]]
    BY <1>1, ChainStep
  <1>6. ASSUME NEW q \in Upto(at, i - 1)
        PROVE  \/ q[1] \in Chain[Parent[at]] /\ q[1] # at
               \/ q[1] = at /\ q[2] \in 1..Len(vtx[at]) /\ q[2] # i
    <2>1. at \notin Chain[Parent[at]]
      BY <1>1, UptoFacts
    <2> QED BY <1>1, <2>1 DEF Upto, Places, Ledgered
  <1>7. ASSUME NEW q \in Upto(at, i - 1), TxAt(q) = vtx[at][i], Ins[vtx[at][i]] = {} PROVE FALSE
    <2>1. vtx[at][i] \in CoinBase
      BY <1>2, <1>7 DEF CoinBase
    <2>2. q \in AllPlaces /\ q[1] \in Blocks /\ q[2] \in DOMAIN vtx[q[1]]
      <3>1. q \in AllPlaces
        BY <1>3, <1>4
      <3>2. q[1] \in Blocks /\ q[2] \in 1..Len(vtx[q[1]])
        BY <3>1, PlaceFacts
      <3>3. vtx[q[1]] \in Seq(Txs)
        BY <3>2, ContentsAssumption
      <3> QED BY <3>1, <3>2, <3>3
    <2>3. CASE q[1] = at
      <3>1. vtx[at][q[2]] = vtx[at][i] /\ q[2] \in DOMAIN vtx[at] /\ i \in DOMAIN vtx[at]
        BY <1>1, <1>2, <1>7, <2>2, <2>3 DEF TxAt
      <3>2. q[2] = i
        BY <1>1, <3>1, ContentsAssumption
      <3> QED BY <1>1, <1>6, <2>3, <3>2, UptoFacts
    <2>4. CASE q[1] # at
      <3>1. vtx[at][i] \in TxsOf(q[1]) \cap TxsOf(at) \cap CoinBase
        BY <1>1, <1>2, <1>7, <2>1, <2>2 DEF TxsOf, TxAt
      <3>2. Height[q[1]] = Height[at]
        BY <1>1, <2>2, <3>1, ContentsAssumption
      <3>3. q[1] \in Chain[at]
        BY <1>5, <1>6, <2>4
      <3>4. Height[q[1]] < Height[at] /\ Height[at] \in Nat
        BY <1>1, <2>4, <3>3, ChainBelow, TreeAssumption
      <3> QED BY <3>2, <3>4
    <2> QED BY <2>3, <2>4
  <1> QED BY <1>1, <1>2, <1>3, <1>4, <1>5, <1>6, <1>7

(* A transaction that ConnectBlock lets in is not on the chain yet, and      *)
(* spends what is there and open.                                            *)
LEMMA ConnectSound ==
    ASSUME Connecting, i <= Len(vtx[at]), CanConnect(vtx[at][i])
    PROVE  Sound(Upto(at, i))
  <1> DEFINE P == Upto(at, i - 1)
             p == <<at, i>>
             t == vtx[at][i]
  <1>1. /\ at \in Blocks \ {Genesis} /\ p \in AllPlaces /\ TxAt(p) = t /\ t \in Txs
        /\ Upto(at, i) = P \cup {p} /\ Sound(P) /\ Height[at] \in Nat
        /\ \A q \in P : q \in AllPlaces /\ Before(q, p) /\ q[1] \in Chain[at]
        /\ \A q \in P : TxAt(q) = t => Ins[t] # {}
    BY ConnectFacts, TreeAssumption DEF Connecting
  <1>2. ASSUME NEW o \in Ins[t]
        PROVE  Funded(P, p, o) /\ \A q \in P : o \notin Ins[TxAt(q)]
    <2>1. o[1] \in Txs /\ o[2] \in Nat \ {0} /\ o = <<o[1], o[2]>>
      BY <1>1, ContentsAssumption
    <2>2. HasOutput(Fetch(o[1]), o) /\ ~Unripe(o[1]) /\ Fetch(o[1]).vSpent[o[2]] = NoTx
      BY DEF CanConnect
    <2>3. Fetch(o[1]) = RecIn(P, o[1])
      BY <2>1 DEF Connecting
    <2>4. PICK q \in P : TxAt(q) = o[1]
      BY <1>1, <2>2, <2>3, RecFacts, NoRecordFacts DEF HasOutput
    <2>5. Fetch(o[1]) = [block |-> q[1],
                         vSpent |-> [n \in 1..nOuts[o[1]] |-> SpentIn(P, <<o[1], n>>)]]
      BY <1>1, <2>3, <2>4, RecFacts
    <2>6. o[2] \in 1..nOuts[o[1]] /\ SpentIn(P, o) = NoTx /\ Fetch(o[1]).block = q[1]
      BY <2>1, <2>2, <2>5 DEF HasOutput
    <2>7. nOuts[o[1]] \in Nat /\ Height[q[1]] \in Nat /\ Maturity \in Nat
      BY <1>1, <2>4, PlaceFacts, ContentsAssumption
    <2>8. o[1] \in Generated => Height[at] - Height[q[1]] >= Maturity
      BY <1>1, <2>2, <2>4, <2>6, <2>7 DEF Unripe
    <2>9. Funded(P, p, o)
      <3>1. p[1] = at /\ Before(q, p) /\ o[2] <= nOuts[o[1]]
        BY <1>1, <2>4, <2>6, <2>7
      <3> HIDE DEF P, p
      <3> QED BY <2>4, <2>8, <3>1 DEF Funded
    <2>10. \A r \in P : o \notin Ins[TxAt(r)]
      BY <1>1, <2>6, SpentFacts
    <2> QED BY <2>9, <2>10
  <1>3. \A q \in P : TxAt(q) # t /\ Ins[TxAt(q)] \cap Ins[t] = {}
    BY <1>1, <1>2
  <1> HIDE DEF P, p, t
  <1> QED BY <1>1, <1>2, <1>3, SoundAdd

(* A chain that is a ledger connects.                                        *)
LEMMA LedgerCanConnect ==
    ASSUME Connecting, i <= Len(vtx[at]), IsLedger(at)
    PROVE  CanConnect(vtx[at][i])
  <1> DEFINE P == Upto(at, i - 1)
             p == <<at, i>>
             t == vtx[at][i]
  <1>1. /\ at \in Blocks \ {Genesis} /\ p \in AllPlaces /\ TxAt(p) = t /\ t \in Txs
        /\ i \in 1..Len(vtx[at])
        /\ Upto(at, i) = P \cup {p} /\ p \notin P /\ Sound(P) /\ Height[at] \in Nat
        /\ \A q \in P : q \in AllPlaces /\ Before(q, p) /\ q[1] \in Chain[at]
        /\ \A q \in P : TxAt(q) = t => Ins[t] # {}
    BY ConnectFacts, TreeAssumption DEF Connecting
  <1>2. /\ Places(at) = Upto(at, Len(vtx[at])) /\ P \cup {p} \subseteq Places(at)
        /\ Places(Parent[at]) \subseteq P
    <2>1. Places(at) = Upto(at, Len(vtx[at]))
      BY <1>1, UptoFacts
    <2>2. 1..i \subseteq 1..Len(vtx[at])
      BY <1>1
    <2> QED BY <1>1, <2>1, <2>2 DEF Upto
  <1>3. \A q \in P : TxAt(q) # t
    BY <1>1, <1>2 DEF IsLedger
  <1>4. ~Overwrites(t)
    <2>1. Sound(Places(Parent[at])) /\ index[t] = RecIn(Places(Parent[at]), t)
      BY <1>1 DEF Connecting, IndexOf
    <2>2. index[t] = NoRecord
      BY <1>2, <1>3, <2>1, RecFacts
    <2> QED BY <2>2, NoRecordFacts DEF Overwrites
  <1>5. ASSUME NEW o \in Ins[t]
        PROVE  HasOutput(Fetch(o[1]), o) /\ ~Unripe(o[1]) /\ Fetch(o[1]).vSpent[o[2]] = NoTx
    <2>1. o[1] \in Txs /\ o[2] \in Nat \ {0} /\ o = <<o[1], o[2]>> /\ nOuts[o[1]] \in Nat
      BY <1>1, ContentsAssumption
    <2>2. /\ Spendable(at, p, o)
          /\ \A q \in Places(at) \ {p} : o \notin Ins[TxAt(q)]
      BY <1>1, <1>2 DEF IsLedger
    <2>3. PICK q \in Places(at) :
              /\ TxAt(q) = o[1] /\ Before(q, p) /\ o[2] <= nOuts[o[1]]
              /\ o[1] \in Generated => Height[p[1]] - Height[q[1]] >= Maturity
      BY <2>2 DEF Spendable
    <2>4. q \in P
      <3>1. /\ \/ q \in Places(Parent[at])
               \/ q[1] = at /\ q[2] \in 1..Len(vtx[at]) /\ q = <<at, q[2]>>
        BY <1>2 DEF Upto
      <3>2. q[1] = at => q[2] < i
        BY <1>1, <2>3 DEF Before
      <3>3. q[1] = at /\ q[2] \in 1..Len(vtx[at]) /\ q = <<at, q[2]>> => q \in {at} \X (1..(i - 1))
        <4> SUFFICES ASSUME q[1] = at, q[2] \in 1..Len(vtx[at]), q = <<at, q[2]>>
                     PROVE  q[2] \in 1..(i - 1)
          OBVIOUS
        <4>1. i \in Nat /\ q[2] \in Nat /\ q[2] < i /\ q[2] >= 1
          BY <1>1, <3>2, ContentsAssumption
        <4> QED BY <4>1
      <3> QED BY <3>1, <3>3 DEF Upto
    <2>5. Fetch(o[1]) = [block |-> q[1],
                         vSpent |-> [n \in 1..nOuts[o[1]] |-> SpentIn(P, <<o[1], n>>)]]
      BY <1>1, <2>1, <2>3, <2>4, RecFacts DEF Connecting
    <2>6. SpentIn(P, o) = NoTx
      BY <1>1, <1>2, <2>2, SpentFacts
    <2>7. q[1] # NoBlock /\ Height[q[1]] \in Nat /\ Maturity \in Nat
      BY <1>1, <2>4, PlaceFacts, TxIndexAssumption, ContentsAssumption
    <2>8. o[2] \in 1..nOuts[o[1]]
      BY <2>1, <2>3
    <2>9. Fetch(o[1]).block = q[1] /\ o[2] \in DOMAIN Fetch(o[1]).vSpent
          /\ Fetch(o[1]).vSpent[o[2]] = NoTx
      BY <2>1, <2>5, <2>6, <2>8
    <2>10. ~Unripe(o[1])
      BY <1>1, <2>3, <2>7, <2>9 DEF Unripe
    <2> QED BY <2>7, <2>9, <2>10 DEF HasOutput
  <1> HIDE DEF t
  <1>6. CanConnect(t)
    BY <1>4, <1>5 DEF CanConnect
  <1> QED BY <1>6 DEF t

-----------------------------------------------------------------------------
(* The steps of a batch.                                                     *)

LEMMA IndexInit == Init => IndexInv
  <1> SUFFICES ASSUME Init PROVE IndexInv
    OBVIOUS
  <1>1. Genesis \in Blocks /\ Chain[Genesis] = {Genesis}
    <2>1. Genesis \in Blocks /\ ParentClosed({Genesis})
      BY TreeAssumption DEF ParentClosed
    <2> QED BY <2>1, ChainBasics, ChainLeast
  <1>2. Places(Genesis) = {}
    BY <1>1 DEF Places, Ledgered
  <1>3. Sound({})
    BY DEF Sound
  <1>4. IndexOf({}) = [t \in Txs |-> NoRecord]
    BY DEF IndexOf, RecIn
  <1>5. CallPart
    BY <1>1 DEF Init, CallPart
  <1>6. DbPart
    BY <1>2, <1>3, <1>4 DEF Init, DbPart
  <1> QED BY <1>5, <1>6 DEF Init, IndexInv, StagePart

LEMMA EmptyFetch ==
    ASSUME queued' = Empty
    PROVE  \A t : Fetch(t)' = index'[t]
  <1>1. DOMAIN Empty = {}
    BY DEF Empty
  <1> QED BY <1>1 DEF Fetch

(* The batch stands at block b of the chain of its target.                   *)
LEMMA GoOnKeeps ==
    ASSUME NEW c \in Blocks, NEW b \in Chain[c], GoOn(b, c),
           target' = c, Sound(Places(b)), index' = IndexOf(Places(b)), queued' = Empty
    PROVE  StagePart'
  <1>1. CASE b = c
    BY <1>1 DEF GoOn, StagePart, Committing
  <1>2. CASE b # c
    <2> DEFINE d == Towards(b, c)
    <2>1. d \in Chain[c] \ {Genesis} /\ Parent[d] = b
      BY <1>2, ChildOnChain DEF Towards
    <2>2. d \in Blocks \ {Genesis}
      BY <2>1, ChainBasics
    <2>3. pc' = "connect" /\ at' = d /\ i' = 1
      BY <1>2 DEF GoOn
    <2> HIDE DEF d
    <2>4. Upto(d, 0) = Places(b) /\ Len(vtx[d]) \in Nat
      BY <2>1, <2>2, UptoFacts, ContentsAssumption
    <2>5. \A t \in Txs : Fetch(t)' = RecIn(Upto(d, 0), t)
      BY <2>4, EmptyFetch DEF IndexOf
    <2>6. DOMAIN queued' \subseteq Txs
      BY DEF Empty
    <2>7. /\ i' - 1 = 0 /\ i' \in 1..(Len(vtx[d]) + 1)
          /\ Upto(at', i' - 1) = Upto(d, 0)
      BY <2>3, <2>4
    <2>8. Connecting'
      BY <2>1, <2>3, <2>4, <2>5, <2>6, <2>7 DEF Connecting
    <2> QED BY <2>8 DEF StagePart
  <1> QED BY <1>1, <1>2

(* The batch stands at block b of the old chain.                             *)
LEMMA GoBackKeeps ==
    ASSUME NEW c \in Blocks, NEW b \in Blocks \ Chain[c], GoBack(b),
           target' = c, Sound(Places(b)), index' = IndexOf(Places(b))
    PROVE  StagePart'
  <1>1. b \in Blocks \ {Genesis}
    BY GenesisOnChain
  <1>2. Upto(b, Len(vtx[b])) = Places(b) /\ Len(vtx[b]) \in Nat
    BY <1>1, UptoFacts, ContentsAssumption
  <1>3. pc' = "disconnect" /\ at' = b /\ i' = Len(vtx[b])
    BY DEF GoBack
  <1>4. Disconnecting'
    BY <1>1, <1>2, <1>3 DEF Disconnecting
  <1> QED BY <1>4 DEF StagePart

(* The intermediate block of a call is not the best block.                   *)
LEMMA IntermediateMoves ==
    ASSUME NEW b \in Blocks, NEW c \in Blocks, pindexBest \in Blocks, b # pindexBest,
           Intermediate(b, c)
    PROVE  c # pindexBest /\ c \in Chain[b]
  <1> SUFFICES ASSUME c = pindexBest PROVE FALSE
    BY DEF Intermediate
  <1>1. pindexBest \in Chain[b]
    BY DEF Intermediate
  <1>2. PICK d \in Chain[b] \ {Genesis} : Parent[d] = pindexBest
    BY <1>1, ChildOnChain
  <1>3. d \in Blocks /\ Trust[d] \in Nat /\ Trust[pindexBest] \in Nat /\ Trust[d] > Trust[pindexBest]
    BY <1>2, ChainBasics, TreeAssumption
  <1>4. d \notin Postponed(b)
    BY <1>2, <1>3 DEF Postponed
  <1>5. d \in Chain[pindexBest]
    BY <1>2, <1>4 DEF Intermediate
  <1> QED BY <1>3, <1>5, ChainBelow

LEMMA SetBestChainKeeps ==
    ASSUME IndexInv, Grounded, NEW b \in Blocks, NEW c \in Blocks, SetBestChain(b, c)
    PROVE  StagePart'
  <1>1. DbPart /\ index = dbIndex /\ queued = Empty /\ first = TRUE /\ pindexBest = dbBest
    BY DEF IndexInv, CallPart, SetBestChain, Grounded
  <1>2. /\ target' = c /\ queued' = Empty /\ pindexBest \in Blocks
        /\ Sound(Places(pindexBest)) /\ index' = IndexOf(Places(pindexBest))
    BY <1>1 DEF SetBestChain, DbPart, IndexInv, CallPart
  <1>3. CASE pindexBest \in Chain[c]
    BY <1>2, <1>3, GoOnKeeps DEF SetBestChain
  <1>4. CASE pindexBest \notin Chain[c]
    BY <1>2, <1>4, GoBackKeeps DEF SetBestChain
  <1> QED BY <1>3, <1>4

LEMMA DisconnectInputsKeeps ==
    ASSUME IndexInv, Grounded, DisconnectInputs
    PROVE  StagePart'
  <1>1. Disconnecting
    BY DEF IndexInv, DisconnectInputs, StagePart, Disconnecting, Connecting, Committing
  <1>2. at \in Blocks \ {Genesis} /\ i \in 1..Len(vtx[at]) /\ Len(vtx[at]) \in Nat
    BY <1>1, GenesisOnChain, ContentsAssumption DEF Disconnecting, DisconnectInputs, call
  <1> DEFINE P == Upto(at, i - 1)
             p == <<at, i>>
  <1>3. Upto(at, i) = P \cup {p} /\ p \notin P /\ \A q \in P : ~Before(p, q)
    BY <1>2, UptoFacts
  <1>4. Sound(P \cup {p}) /\ index = IndexOf(P \cup {p})
    BY <1>1, <1>3 DEF Disconnecting
  <1>5. TxAt(p) = DisconnectNext
    BY DEF TxAt, DisconnectNext
  <1> HIDE DEF P, p
  <1>6. Sound(P)
    BY <1>3, <1>4, SoundRemove
  <1>7. \A u : RecIn(P, u) = IF u = TxAt(p) THEN NoRecord
                             ELSE SetSpender(RecIn(P \cup {p}, u), u, Ins[TxAt(p)], NoTx)
    BY <1>3, <1>4, <1>6, RecRemove
  <1>8. index' = IndexOf(P)
    <2>1. \A u \in Txs : index[u] = RecIn(P \cup {p}, u)
      BY <1>4 DEF IndexOf
    <2>2. index' = [u \in Txs |-> IF u = TxAt(p) THEN NoRecord
                                  ELSE SetSpender(index[u], u, Ins[TxAt(p)], NoTx)]
      BY <1>5 DEF DisconnectInputs
    <2> QED BY <1>7, <2>1, <2>2 DEF IndexOf
  <1>9. /\ i' = i - 1 /\ i' \in 0..Len(vtx[at]) /\ Upto(at', i') = P
    BY <1>2 DEF DisconnectInputs, P
  <1>10. Disconnecting'
    BY <1>1, <1>6, <1>8, <1>9 DEF Disconnecting, DisconnectInputs, call
  <1> QED BY <1>10 DEF StagePart

LEMMA DisconnectBlockKeeps ==
    ASSUME IndexInv, Grounded, DisconnectBlock
    PROVE  StagePart'
  <1>1. Disconnecting /\ i = 0 /\ queued = Empty
    BY DEF IndexInv, CallPart, DisconnectBlock, StagePart, Disconnecting, Connecting, Committing
  <1>2. at \in Blocks \ {Genesis} /\ target \in Blocks /\ Parent[at] \in Blocks
    BY <1>1, GenesisOnChain, TreeAssumption DEF Disconnecting
  <1>3. Upto(at, 0) = Places(Parent[at])
    BY <1>2, UptoFacts
  <1>4. /\ target' = target /\ queued' = Empty
        /\ Sound(Places(Parent[at])) /\ index' = IndexOf(Places(Parent[at]))
    BY <1>1, <1>2, <1>3 DEF DisconnectBlock, Disconnecting, call
  <1>5. CASE Parent[at] \in Chain[target]
    BY <1>2, <1>4, <1>5, GoOnKeeps DEF DisconnectBlock
  <1>6. CASE Parent[at] \notin Chain[target]
    BY <1>2, <1>4, <1>6, GoBackKeeps DEF DisconnectBlock
  <1> QED BY <1>5, <1>6

LEMMA ConnectInputsKeeps ==
    ASSUME IndexInv, Grounded, ConnectInputs
    PROVE  StagePart'
  <1>1. Connecting /\ i <= Len(vtx[at]) /\ CanConnect(vtx[at][i])
    BY DEF IndexInv, ConnectInputs, StagePart, Disconnecting, Connecting, Committing
  <1> DEFINE P == Upto(at, i - 1)
             p == <<at, i>>
             t == vtx[at][i]
  <1>2. /\ at \in Blocks \ {Genesis} /\ i \in 1..Len(vtx[at]) /\ Len(vtx[at]) \in Nat
        /\ TxAt(p) = t /\ t \in Txs /\ Ins[t] \subseteq Txs \X (Nat \ {0})
        /\ Upto(at, i) = P \cup {p} /\ p \notin P
    BY <1>1, ConnectFacts, ContentsAssumption
  <1>3. Sound(P) /\ Sound(P \cup {p})
    BY <1>1, <1>2, ConnectSound DEF Connecting
  <1>4. \A u \in Txs : Fetch(u) = RecIn(P, u)
    BY <1>1 DEF Connecting
  <1>5. DOMAIN queued \subseteq Txs
    BY <1>1 DEF Connecting
  <1>6. Connect(t) /\ i' = i + 1 /\ UNCHANGED <<index, pc, target, at>>
    BY DEF ConnectInputs, call
  <1>7. p[1] = at
    OBVIOUS
  <1> DEFINE changed == DOMAIN queued \cup {o[1] : o \in Ins[t]} \cup {t}
  <1>8. DOMAIN queued' = changed /\ changed \subseteq Txs
    BY <1>2, <1>5, <1>6 DEF Connect
  <1>9. i' \in 1..(Len(vtx[at]) + 1) /\ i' - 1 = i /\ Upto(at', i' - 1) = P \cup {p}
    BY <1>2, <1>6
  <1> HIDE DEF P, p, t
  <1>10. ASSUME NEW u \in Txs PROVE Fetch(u)' = RecIn(P \cup {p}, u)
    <2>1. RecIn(P \cup {p}, u) = IF u = t THEN NewRecord(at, t)
                                 ELSE SetSpender(RecIn(P, u), u, Ins[t], t)
      BY <1>2, <1>3, <1>7, RecAdd
    <2>2. CASE u \in changed
      <3>1. Fetch(u)' = IF u = t THEN NewRecord(at, t) ELSE SetSpender(Fetch(u), u, Ins[t], t)
        BY <1>6, <1>8, <2>2 DEF Connect, Fetch
      <3> QED BY <1>4, <2>1, <3>1
    <2>3. CASE u \notin changed
      <3>1. u # t /\ (\A n : <<u, n>> \notin Ins[t]) /\ u \notin DOMAIN queued
        BY <2>3
      <3>2. Fetch(u)' = Fetch(u)
        BY <1>6, <1>8, <2>3, <3>1 DEF Fetch
      <3> QED BY <1>3, <1>4, <2>1, <3>1, <3>2, RecUntouched
    <2> QED BY <2>2, <2>3
  <1>11. Connecting'
    BY <1>1, <1>3, <1>6, <1>8, <1>9, <1>10 DEF Connecting
  <1> QED BY <1>11 DEF StagePart

LEMMA ConnectBlockKeeps ==
    ASSUME IndexInv, Grounded, ConnectBlock
    PROVE  StagePart'
  <1>1. Connecting /\ i > Len(vtx[at])
    BY DEF IndexInv, ConnectBlock, StagePart, Disconnecting, Connecting, Committing
  <1>2. /\ target \in Blocks /\ at \in Chain[target] /\ at \in Blocks \ {Genesis}
        /\ Len(vtx[at]) \in Nat /\ i \in 1..(Len(vtx[at]) + 1)
    BY <1>1, ChainBasics, ContentsAssumption DEF Connecting
  <1>3. i - 1 = Len(vtx[at])
    BY <1>1, <1>2
  <1>4. Upto(at, i - 1) = Places(at)
    BY <1>2, <1>3, UptoFacts
  <1>5. Sound(Places(at)) /\ \A t \in Txs : Fetch(t) = RecIn(Places(at), t)
    BY <1>1, <1>4 DEF Connecting
  <1>6. index' = IndexOf(Places(at))
    BY <1>5 DEF ConnectBlock, IndexOf
  <1>7. target' = target /\ queued' = Empty /\ GoOn(at, target)
    BY DEF ConnectBlock, call
  <1> QED BY <1>2, <1>5, <1>6, <1>7, GoOnKeeps

LEMMA CommitKeeps ==
    ASSUME IndexInv, Grounded, Commit
    PROVE  DbPart' /\ StagePart'
  <1>1. Committing /\ queued = Empty /\ pindexNew \in Blocks /\ target \in Chain[pindexNew]
    BY DEF IndexInv, CallPart, Commit, StagePart, Disconnecting, Connecting, Committing
  <1>2. DbPart'
    BY <1>1 DEF Commit, Committing, DbPart
  <1>3. CASE target = pindexNew
    BY <1>2, <1>3 DEF Commit, Return, StagePart
  <1>4. CASE target # pindexNew
    <2> DEFINE d == Towards(target, pindexNew)
    <2>1. d \in Chain[pindexNew] \ {Genesis} /\ Parent[d] = target
      BY <1>1, <1>4, ChildOnChain DEF Towards
    <2>2. d \in Blocks /\ target \in Chain[d]
      BY <1>1, <2>1, ChainBasics, ChainStep
    <2>3. target' = d /\ GoOn(target, d) /\ index' = IndexOf(Places(target)) /\ queued' = Empty
      BY <1>1, <1>4 DEF Commit, Committing
    <2> HIDE DEF d
    <2>4. StagePart'
      BY <1>1, <2>2, <2>3, GoOnKeeps DEF Committing
    <2> QED BY <1>2, <2>4
  <1> QED BY <1>3, <1>4

LEMMA GoOnCall ==
    ASSUME NEW b, NEW c, GoOn(b, c) \/ GoBack(b)
    PROVE  pc' \in {"disconnect", "connect", "commit"}
  BY DEF GoOn, GoBack

LEMMA CallStep == CallPart /\ [Next]_vars => CallPart'
  <1> SUFFICES ASSUME CallPart, [Next]_vars PROVE CallPart'
    OBVIOUS
  <1>1. CASE UNCHANGED vars
    BY <1>1 DEF vars, committed, call, CallPart
  <1>2. ASSUME NEW b \in Blocks, NEW c \in Blocks, SetBestChain(b, c) PROVE CallPart'
    <2>1. first = TRUE /\ queued = Empty /\ c # pindexBest /\ c \in Chain[b]
      BY <1>2, IntermediateMoves DEF SetBestChain, CallPart
    <2>2. pc' \in {"disconnect", "connect", "commit"}
      BY <1>2, GoOnCall DEF SetBestChain
    <2> QED BY <1>2, <2>1, <2>2 DEF SetBestChain, CallPart, committed
  <1>3. ASSUME Abort, pc # "idle" PROVE CallPart'
    BY <1>3 DEF Abort, Return, CallPart, committed
  <1>4. CASE Restart
    BY <1>4 DEF Restart, Return, CallPart, committed
  <1>5. CASE DisconnectInputs
    BY <1>5 DEF DisconnectInputs, CallPart, committed, call
  <1>6. CASE DisconnectBlock
    <2>1. pc' \in {"disconnect", "connect", "commit"}
      BY <1>6, GoOnCall DEF DisconnectBlock
    <2> QED BY <1>6, <2>1 DEF DisconnectBlock, CallPart, committed, call
  <1>7. CASE ConnectInputs
    BY <1>7 DEF ConnectInputs, CallPart, committed, call
  <1>8. CASE ConnectBlock
    <2>1. pc' \in {"disconnect", "connect", "commit"}
      BY <1>8, GoOnCall DEF ConnectBlock
    <2> QED BY <1>8, <2>1 DEF ConnectBlock, CallPart, committed, call
  <1>9. CASE Commit
    <2>1. pindexNew \in Blocks /\ target \in Chain[pindexNew] /\ queued = Empty
      BY <1>9 DEF Commit, CallPart
    <2>2. target \in Blocks
      BY <2>1, ChainBasics
    <2>3. strayed' \in BOOLEAN
      BY <1>9 DEF Commit
    <2>4. CASE target = pindexNew
      BY <1>9, <2>1, <2>2, <2>3, <2>4 DEF Commit, Return, CallPart
    <2>5. CASE target # pindexNew
      <3> DEFINE d == Towards(target, pindexNew)
      <3>1. d \in Chain[pindexNew] \ {Genesis} /\ Parent[d] = target
        BY <2>1, <2>5, ChildOnChain DEF Towards
      <3>2. /\ target' = d /\ first' = FALSE /\ GoOn(target, d) /\ dbBest' = target
            /\ pindexBest' = pindexBest /\ pindexNew' = pindexNew /\ queued' = queued
        BY <1>9, <2>5 DEF Commit
      <3> HIDE DEF d
      <3>3. pc' \in {"disconnect", "connect", "commit"}
        BY <3>2, GoOnCall
      <3> QED BY <2>1, <2>2, <2>3, <3>1, <3>2, <3>3 DEF CallPart
    <2> QED BY <2>4, <2>5
  <1> QED BY <1>1, <1>2, <1>3, <1>4, <1>5, <1>6, <1>7, <1>8, <1>9
          DEF Next, Step, DisconnectFails, ConnectFails, Lose

LEMMA IndexStep == IndexInv /\ [Next]_vars => IndexInv'
  <1> SUFFICES ASSUME IndexInv, [Next]_vars PROVE IndexInv'
    OBVIOUS
  <1>1. CallPart'
    BY CallStep DEF IndexInv
  <1>2. CASE Commit
    <2>1. Grounded' \/ ~strayed' => Grounded
      BY <1>2 DEF Commit, Grounded
    <2> QED BY <1>1, <1>2, <2>1, CommitKeeps DEF IndexInv
  <1>3. CASE ~Commit
    <2>1. UNCHANGED committed
      BY <1>3 DEF Next, vars, Step, Lose, Restart, Abort, SetBestChain, DisconnectInputs,
                  DisconnectFails, DisconnectBlock, ConnectInputs, ConnectFails, ConnectBlock
    <2>2. ~strayed' => DbPart'
      BY <2>1 DEF committed, IndexInv, DbPart
    <2>3. ASSUME Grounded' PROVE StagePart'
      <3>1. CASE Abort \/ Restart
        BY <3>1 DEF Abort, Restart, Return, StagePart
      <3>2. CASE ~(Abort \/ Restart)
        <4>1. Grounded
          BY <1>3, <2>1, <2>3, <3>2
             DEF Next, vars, committed, call, Step, Lose, SetBestChain, DisconnectInputs,
                 DisconnectFails, DisconnectBlock, ConnectInputs, ConnectFails, ConnectBlock, Grounded
        <4>2. CASE UNCHANGED vars
          <5>1. \A t : Fetch(t)' = Fetch(t)
            BY <4>2 DEF vars, Fetch
          <5>2. CASE pc = "idle"
            BY <4>2, <5>2 DEF vars, StagePart
          <5>3. CASE Disconnecting
            BY <4>2, <5>3 DEF vars, call, StagePart, Disconnecting
          <5>4. CASE Connecting
            BY <4>2, <5>1, <5>4 DEF vars, call, StagePart, Connecting
          <5>5. CASE Committing
            BY <4>2, <5>5 DEF vars, call, StagePart, Committing
          <5> QED BY <4>1, <5>2, <5>3, <5>4, <5>5 DEF IndexInv, StagePart
        <4> QED BY <1>3, <3>2, <4>1, <4>2, SetBestChainKeeps, DisconnectInputsKeeps,
                   DisconnectBlockKeeps, ConnectInputsKeeps, ConnectBlockKeeps
                DEF Next, Step, DisconnectFails, ConnectFails, Lose
      <3> QED BY <3>1, <3>2
    <2> QED BY <1>1, <2>2, <2>3 DEF IndexInv
  <1> QED BY <1>2, <1>3

(* The inductive invariant: as long as no batch was committed that started   *)
(* from an unconnected best block the index on disk is that of the committed *)
(* chain, and at every stage of a batch that starts from there the index is  *)
(* that of the transactions connected so far, and these are sound.           *)
THEOREM IndexInvariant == Spec => []IndexInv
  BY IndexInit, IndexStep, PTL DEF Spec

-----------------------------------------------------------------------------
(* The properties.                                                           *)

(* The committed index is the one of the best chain on disk, for every       *)
(* history of ConnectBlock, DisconnectBlock, TxnAbort, postponed blocks that *)
(* failed and crashes, until SetBestChain commits a batch that started from  *)
(* a best block in memory which had not been connected.                      *)
THEOREM IndexIsThatOfTheChain == Spec => []IndexMatchesChain
  <1>1. DbPart => \A t \in Txs : dbIndex[t] = RecordOf(dbBest, t)
    BY DEF DbPart, IndexOf, RecIn, SpentIn, RecordOf, Spender
  <1>2. IndexInv => IndexMatchesChain
    BY <1>1 DEF IndexInv, IndexMatchesChain
  <1> QED BY <1>2, IndexInvariant, PTL

(* What ConnectBlock wrote DisconnectBlock can take back, in a call that     *)
(* starts from the connected best block.                                     *)
THEOREM DisconnectAlwaysSucceeds == Spec => []DisconnectSucceeds
  <1>1. IndexInv => DisconnectSucceeds
    <2> SUFFICES ASSUME IndexInv, Grounded, pc = "disconnect", i > 0
                 PROVE  CanDisconnect(DisconnectNext)
      BY DEF DisconnectSucceeds
    <2>1. Disconnecting
      BY DEF IndexInv, StagePart, Connecting, Committing
    <2> QED BY <2>1, CanDisconnectSound
  <1> QED BY <1>1, IndexInvariant, PTL

(* ConnectBlock refuses no ledger in such a call: FetchInputs and            *)
(* ConnectInputs see just what the chain below has, its own block included.  *)
THEOREM LedgerAlwaysConnects == Spec => []LedgerConnects
  <1>1. IndexInv => LedgerConnects
    <2> SUFFICES ASSUME IndexInv, Grounded, pc = "connect", i <= Len(vtx[at]), IsLedger(at)
                 PROVE  CanConnect(vtx[at][i])
      BY DEF LedgerConnects
    <2>1. Connecting
      BY DEF IndexInv, StagePart, Disconnecting, Committing
    <2> QED BY <2>1, LedgerCanConnect
  <1> QED BY <1>1, IndexInvariant, PTL

-----------------------------------------------------------------------------
(* The refinement of CoinView.                                               *)

OpenCoins(idx) == UNION {{t} \X {n \in DOMAIN idx[t].vSpent : idx[t].vSpent[n] = NoTx} : t \in Txs}

LEMMA CoinsOfChain ==
    ASSUME NEW b \in Blocks, Sound(Places(b))
    PROVE  OpenCoins(IndexOf(Places(b))) = Unspent(b)
  <1> DEFINE P == Places(b)
             idx == IndexOf(P)
  <1>1. ASSUME NEW p \in P
        PROVE  /\ TxAt(p) \in Txs /\ nOuts[TxAt(p)] \in Nat
               /\ idx[TxAt(p)].vSpent = [n \in 1..nOuts[TxAt(p)] |-> SpentIn(P, <<TxAt(p), n>>)]
    <2>1. TxAt(p) \in Txs /\ nOuts[TxAt(p)] \in Nat
      BY PlaceFacts DEF Sound
    <2>2. idx[TxAt(p)] =
            [block |-> p[1], vSpent |-> [n \in 1..nOuts[TxAt(p)] |-> SpentIn(P, <<TxAt(p), n>>)]]
      BY <2>1, RecFacts DEF IndexOf
    <2> QED BY <2>1, <2>2
  <1>2. ASSUME NEW t \in Txs, \A q \in P : TxAt(q) # t PROVE DOMAIN idx[t].vSpent = {}
    <2>1. idx[t] = NoRecord
      BY <1>2, RecFacts DEF IndexOf
    <2> QED BY <2>1, NoRecordFacts
  <1>3. \A o : SpentIn(P, o) = NoTx <=> o \notin Spent(b)
    BY SpentFacts DEF Spent
  <1> HIDE DEF idx, P
  <1>4. ASSUME NEW o \in OpenCoins(idx) PROVE o \in Unspent(b)
    <2>1. PICK t \in Txs : o \in {t} \X {n \in DOMAIN idx[t].vSpent : idx[t].vSpent[n] = NoTx}
      BY DEF OpenCoins
    <2>2. o = <<t, o[2]>> /\ o[2] \in DOMAIN idx[t].vSpent /\ idx[t].vSpent[o[2]] = NoTx
      BY <2>1
    <2>3. PICK q \in P : TxAt(q) = t
      BY <1>2, <2>2
    <2>4. o[2] \in 1..nOuts[t] /\ SpentIn(P, o) = NoTx
      <3>1. idx[t].vSpent = [n \in 1..nOuts[t] |-> SpentIn(P, <<t, n>>)]
        BY <1>1, <2>3
      <3>2. o[2] \in 1..nOuts[t] /\ idx[t].vSpent[o[2]] = SpentIn(P, <<t, o[2]>>)
        BY <2>2, <3>1
      <3> QED BY <2>2, <3>2
    <2>5. o \in {TxAt(q)} \X (1..nOuts[TxAt(q)]) /\ q \in Places(b)
      BY <2>2, <2>3, <2>4 DEF P
    <2>6. o \notin Spent(b)
      BY <1>3, <2>4
    <2> QED BY <2>5, <2>6 DEF Unspent
  <1>5. ASSUME NEW o \in Unspent(b) PROVE o \in OpenCoins(idx)
    <2>1. PICK q \in P : o \in {TxAt(q)} \X (1..nOuts[TxAt(q)])
      BY DEF Unspent, P
    <2>2. o = <<TxAt(q), o[2]>> /\ o[2] \in 1..nOuts[TxAt(q)] /\ SpentIn(P, o) = NoTx
      <3>1. o \notin Spent(b)
        BY DEF Unspent
      <3>2. SpentIn(P, o) = NoTx
        BY <1>3, <3>1
      <3> QED BY <2>1, <3>2
    <2>3. TxAt(q) \in Txs /\ o[2] \in DOMAIN idx[TxAt(q)].vSpent /\ idx[TxAt(q)].vSpent[o[2]] = NoTx
      <3>1. /\ TxAt(q) \in Txs
            /\ idx[TxAt(q)].vSpent = [n \in 1..nOuts[TxAt(q)] |-> SpentIn(P, <<TxAt(q), n>>)]
        BY <1>1
      <3>2. idx[TxAt(q)].vSpent[o[2]] = SpentIn(P, <<TxAt(q), o[2]>>)
        BY <2>2, <3>1
      <3> QED BY <2>2, <3>1, <3>2
    <2> DEFINE t == TxAt(q)
    <2>4. t \in Txs /\ o \in {t} \X {n \in DOMAIN idx[t].vSpent : idx[t].vSpent[n] = NoTx}
      BY <2>2, <2>3
    <2> HIDE DEF t
    <2> QED BY <2>4 DEF OpenCoins
  <1>6. OpenCoins(idx) = Unspent(b)
    BY <1>4, <1>5
  <1> QED BY <1>6 DEF idx, P

LEMMA SoundIsLedger ==
    ASSUME NEW b \in Blocks, Sound(Places(b))
    PROVE  IsLedger(b)
  <1> SUFFICES ASSUME NEW p \in Places(b), NEW o \in Ins[TxAt(p)]
               PROVE  /\ Spendable(b, p, o)
                      /\ \A q \in Places(b) \ {p} : o \notin Ins[TxAt(q)]
    BY DEF IsLedger
  <1>1. Spendable(b, p, o)
    BY DEF Sound, Funded, Spendable
  <1> QED BY <1>1 DEF Sound

(* The instance reads the same blocks.                                       *)
LEMMA SameView ==
    /\ View!Chain = Chain
    /\ \A b : View!IsLedger(b) <=> IsLedger(b)
    /\ \A b : View!Unspent(b) = Unspent(b)
  <1>1. View!Chain = Chain
    BY DEF View!Chain, Chain, View!ParentClosed, ParentClosed
  <1>2. \A b : View!Places(b) = Places(b)
    BY <1>1 DEF View!Places, Places, View!Ledgered, Ledgered
  <1>3. /\ \A p : View!TxAt(p) = TxAt(p)
        /\ \A p, q : View!Before(p, q) <=> Before(p, q)
    BY DEF View!TxAt, TxAt, View!Before, Before
  <1>4. \A b, p, o : View!Spendable(b, p, o) <=> Spendable(b, p, o)
    BY <1>2, <1>3 DEF View!Spendable, Spendable
  <1>5. \A b : View!Spent(b) = Spent(b)
    BY <1>2, <1>3 DEF View!Spent, Spent
  <1>6. \A b : View!Unspent(b) = Unspent(b)
    BY <1>2, <1>3, <1>5 DEF View!Unspent, Unspent
  <1>7. \A b : View!IsLedger(b) <=> IsLedger(b)
    BY <1>2, <1>3, <1>4 DEF View!IsLedger, IsLedger
  <1> QED BY <1>1, <1>6, <1>7

LEMMA ViewInit == Init => View!Init
  <1> SUFFICES ASSUME Init PROVE View!Init
    OBVIOUS
  <1>1. \A t \in Txs : DOMAIN dbIndex[t].vSpent = {}
    BY NoRecordFacts DEF Init
  <1> QED BY <1>1 DEF Init, View!Init

Base == IF first THEN pindexBest ELSE dbBest

LEMMA ViewStep ==
    IndexInv /\ [Next]_vars => [View!Next]_<<dbBest, OpenCoins(dbIndex), Base, ~strayed>>
  <1> SUFFICES ASSUME IndexInv, [Next]_vars,
                      ~UNCHANGED <<dbBest, OpenCoins(dbIndex), Base, strayed>>
               PROVE  View!Next
    BY DEF Base
  <1>1. CASE strayed
    <2>1. strayed' = TRUE
      BY <1>1 DEF Next, vars, committed, Step, Lose, Restart, Abort, SetBestChain, DisconnectInputs,
                  DisconnectFails, DisconnectBlock, ConnectInputs, ConnectFails, ConnectBlock, Commit
    <2> QED BY <1>1, <2>1 DEF View!Next, View!Stray
  <1>2. CASE ~strayed /\ Commit /\ first = TRUE /\ pindexBest # dbBest
    BY <1>2 DEF Commit, View!Next, View!Stray
  <1>3. CASE ~strayed /\ Commit /\ (first # TRUE \/ pindexBest = dbBest)
    <2>1. Grounded
      BY <1>3 DEF Grounded
    <2>2. /\ target \in Blocks /\ Sound(Places(target)) /\ index = IndexOf(Places(target))
          /\ dbIndex' = index /\ dbBest' = target
      BY <1>3, <2>1 DEF IndexInv, Commit, StagePart, Disconnecting, Connecting, Committing
    <2>3. View!IsLedger(target) /\ OpenCoins(dbIndex)' = View!Unspent(target)
      <3>1. OpenCoins(dbIndex)' = OpenCoins(IndexOf(Places(target)))
        BY <2>2 DEF OpenCoins
      <3> QED BY <2>2, <3>1, CoinsOfChain, SoundIsLedger, SameView
    <2>4. target # dbBest
      <3>1. CASE first = TRUE
        BY <1>3, <3>1 DEF IndexInv, CallPart, Commit
      <3>2. CASE first # TRUE
        <4>1. target # Genesis /\ Parent[target] = dbBest
          BY <1>3, <3>2 DEF IndexInv, CallPart, Commit
        <4>2. Height[target] = Height[dbBest] + 1 /\ Height[target] \in Nat
          BY <2>2, <4>1, TreeAssumption
        <4> QED BY <2>2, <4>2
      <3> QED BY <3>1, <3>2
    <2>5. Base = dbBest /\ Base' = target /\ strayed' = strayed
      <3>1. Base = dbBest
        BY <1>3 DEF Base
      <3>2. Base' = target
        BY <1>3, <2>2 DEF Commit, Return, Base
      <3>3. strayed = FALSE
        BY <1>3 DEF IndexInv, CallPart
      <3>4. strayed' = FALSE
        BY <1>3, <3>3, Zenon DEF Commit
      <3> QED BY <3>1, <3>2, <3>3, <3>4
    <2>6. PICK c \in Blocks : c = target
      BY <2>2
    <2>7. View!Move(c)
      BY <1>3, <2>2, <2>3, <2>4, <2>5, <2>6 DEF View!Move, OpenCoins, Base
    <2> QED BY <2>7 DEF View!Next
  <1>4. CASE ~strayed /\ ~Commit
    <2>1. UNCHANGED <<dbBest, dbIndex, strayed>> /\ UNCHANGED OpenCoins(dbIndex)
      BY <1>4 DEF Next, vars, committed, Step, Lose, Restart, Abort, SetBestChain, DisconnectInputs,
                  DisconnectFails, DisconnectBlock, ConnectInputs, ConnectFails, ConnectBlock, OpenCoins
    <2>2. CASE Restart
      <3>1. Base' = dbBest /\ Base # dbBest
        BY <2>1, <2>2 DEF Restart, Return, Base
      <3> QED BY <2>1, <3>1 DEF View!Next, View!Return, Base, OpenCoins
    <2>3. CASE Abort /\ pc # "idle"
      <3>1. first # TRUE /\ Base = dbBest /\ Base' = pindexNew
        BY <2>1, <2>3 DEF Abort, Return, Base
      <3>2. /\ pindexNew \in Blocks /\ target \in Chain[pindexNew]
            /\ target # Genesis /\ Parent[target] = dbBest
        BY <2>3, <3>1 DEF IndexInv, CallPart
      <3>3. dbBest \in Chain[pindexNew]
        BY <3>2, ChainBasics DEF ParentClosed
      <3>4. PICK c \in Blocks : c = pindexNew
        BY <3>2
      <3>5. c # dbBest /\ dbBest \in View!Chain[c]
        BY <2>1, <3>1, <3>3, <3>4, SameView
      <3>6. View!RunAhead(c)
        BY <2>1, <3>1, <3>4, <3>5 DEF View!RunAhead, Base, OpenCoins
      <3> QED BY <3>6 DEF View!Next
    <2>4. CASE ~Restart /\ ~(Abort /\ pc # "idle")
      <3>1. UNCHANGED <<pindexBest, first>>
        BY <1>4, <2>4 DEF Next, vars, call, Step, Lose, SetBestChain, DisconnectInputs,
                  DisconnectFails, DisconnectBlock, ConnectInputs, ConnectFails, ConnectBlock
      <3> QED BY <2>1, <3>1 DEF Base
    <2> QED BY <2>2, <2>3, <2>4
  <1> QED BY <1>1, <1>2, <1>3, <1>4

(* The index implements the abstract view of the coins: to its readers the   *)
(* best chain moves at once from one ledger to another, with exactly the     *)
(* unspent outputs of that ledger, until a call builds on a block that was   *)
(* never connected and commits.                                              *)
THEOREM IndexImplementsView == Spec => ImplementsView
  <1>1. [View!Next]_<<dbBest, OpenCoins(dbIndex), Base, ~strayed>> <=>
            [View!Next]_<<dbBest, UNION {{t} \X {n \in DOMAIN dbIndex[t].vSpent :
                                                    dbIndex[t].vSpent[n] = NoTx} : t \in Txs},
                          IF first THEN pindexBest ELSE dbBest, ~strayed>>
    BY DEF OpenCoins, Base
  <1> QED BY <1>1, ViewInit, ViewStep, IndexInvariant, PTL DEF Spec, ImplementsView, View!Spec

=============================================================================
