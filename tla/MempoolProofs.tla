--------------------------- MODULE MempoolProofs ----------------------------
(***************************************************************************)
(* Proofs about Mempool and BlockAssembler, for every block tree and every *)
(* set of transactions: the pool's index of spent outputs and the index of *)
(* the orphans are exact, the pool holds nothing that is confirmed and     *)
(* misses no input but a lost one, the orphans of a transaction follow it, *)
(* and the staking thread assembles blocks that connect.                   *)
(***************************************************************************)
EXTENDS BlockAssembler, BlockTreeProofs, SequenceTheorems, FiniteSetTheorems, TLAPS

-----------------------------------------------------------------------------
(* Sequences.                                                                *)

(* The elements of a concatenation.                                          *)
LEMMA ConcatSet ==
    ASSUME NEW X, NEW s \in Seq(X), NEW t \in Seq(X)
    PROVE  s \o t \in Seq(X) /\ ToSet(s \o t) = ToSet(s) \cup ToSet(t)
  <1>1. /\ s \o t \in Seq(X) /\ DOMAIN (s \o t) = 1..(Len(s) + Len(t))
        /\ DOMAIN s = 1..Len(s) /\ DOMAIN t = 1..Len(t) /\ Len(s) \in Nat /\ Len(t) \in Nat
    OBVIOUS
  <1>2. /\ \A i \in 1..Len(s) : i \in 1..(Len(s) + Len(t)) /\ (s \o t)[i] = s[i]
        /\ \A i \in 1..Len(t) : Len(s) + i \in 1..(Len(s) + Len(t)) /\ (s \o t)[Len(s) + i] = t[i]
    BY <1>1, ConcatProperties
  <1>3. ASSUME NEW i \in 1..(Len(s) + Len(t)), i \notin 1..Len(s)
        PROVE  i - Len(s) \in 1..Len(t) /\ (s \o t)[i] = t[i - Len(s)]
    <2>1. i - Len(s) \in 1..Len(t) /\ Len(s) + (i - Len(s)) = i
      BY <1>1, <1>3
    <2> QED BY <1>2, <2>1
  <1> HIDE DEF ToSet
  <1>4. ASSUME NEW x \in ToSet(s \o t) PROVE x \in ToSet(s) \cup ToSet(t)
    BY <1>1, <1>2, <1>3 DEF ToSet
  <1>5. ASSUME NEW x \in ToSet(s) \cup ToSet(t) PROVE x \in ToSet(s \o t)
    BY <1>1, <1>2 DEF ToSet
  <1> QED BY <1>1, <1>4, <1>5

(* The function by which FlattenSeq is defined exists.                       *)
Flattens(X, ss, n) ==
    \E g \in [1..n -> Seq(X)] :
        \A i \in 1..n : g[i] = IF i = 1 THEN ss[i] ELSE g[i - 1] \o ss[i]

LEMMA FlattenExists ==
    ASSUME NEW X, NEW ss \in Seq(Seq(X)), NEW n \in Nat, n <= Len(ss)
    PROVE  Flattens(X, ss, n)
  <1> USE DEF Flattens
  <1> DEFINE Good(k) == Flattens(X, ss, k)
             T == {k \in Nat : k <= Len(ss) /\ ~Good(k)}
  <1> SUFFICES ASSUME T # {} PROVE FALSE
    OBVIOUS
  <1>0. Len(ss) \in Nat /\ \A i \in 1..Len(ss) : ss[i] \in Seq(X)
    OBVIOUS
  <1>1. PICK k \in T : \A j \in T : k <= j
    BY LeastNat
  <1>2. k \in Nat /\ k <= Len(ss) /\ ~Good(k)
    OBVIOUS
  <1>3. k # 0
    <2>1. [i \in 1..0 |-> <<>>] \in [1..0 -> Seq(X)]
      OBVIOUS
    <2>2. \A i \in 1..0 : FALSE
      OBVIOUS
    <2>3. Good(0)
      BY <2>1, <2>2
    <2> QED BY <1>2, <2>3
  <1>4. Good(k - 1)
    <2>1. k - 1 \in Nat /\ k - 1 < k /\ k - 1 <= Len(ss)
      BY <1>0, <1>2, <1>3
    <2> HIDE DEF Good
    <2> QED BY <1>1, <1>2, <2>1
  <1>5. PICK g \in [1..(k - 1) -> Seq(X)] : \A i \in 1..(k - 1) : g[i] = IF i = 1 THEN ss[i] ELSE g[i - 1] \o ss[i]
    BY <1>4
  <1> DEFINE h == [i \in 1..k |-> IF i < k THEN g[i] ELSE IF k = 1 THEN ss[k] ELSE g[k - 1] \o ss[k]]
  <1>6. h \in [1..k -> Seq(X)]
    <2>1. ss[k] \in Seq(X)
      BY <1>0, <1>2, <1>3
    <2>2. k # 1 => g[k - 1] \o ss[k] \in Seq(X)
      BY <1>2, <1>3, <1>5, <2>1
    <2> QED BY <1>2, <1>5, <2>1, <2>2
  <1>7. ASSUME NEW i \in 1..k PROVE h[i] = IF i = 1 THEN ss[i] ELSE h[i - 1] \o ss[i]
    <2>1. k \in Nat /\ i \in Nat /\ i >= 1 /\ i <= k
      BY <1>2
    <2>2. i # 1 => i - 1 \in 1..k /\ i - 1 < k /\ h[i - 1] = g[i - 1]
      BY <2>1
    <2>3. CASE i < k
      <3>1. h[i] = g[i] /\ i \in 1..(k - 1)
        BY <2>1, <2>3
      <3>2. g[i] = IF i = 1 THEN ss[i] ELSE g[i - 1] \o ss[i]
        BY <1>5, <3>1
      <3> HIDE DEF h
      <3> QED BY <2>2, <3>1, <3>2
    <2>4. CASE i = k
      <3>1. h[k] = IF k = 1 THEN ss[k] ELSE g[k - 1] \o ss[k]
        BY <2>1, <2>4
      <3> HIDE DEF h
      <3> QED BY <2>2, <2>4, <3>1
    <2> QED BY <2>1, <2>3, <2>4
  <1> QED BY <1>2, <1>6, <1>7

(* The elements of FlattenSeq are those of the sequences it is given.        *)
LEMMA FlattenFacts ==
    ASSUME NEW X, NEW ss \in Seq(Seq(X))
    PROVE  /\ FlattenSeq(ss) \in Seq(X)
           /\ ToSet(FlattenSeq(ss)) = UNION {ToSet(ss[i]) : i \in 1..Len(ss)}
  <1>1. CASE Len(ss) = 0
    <2>1. FlattenSeq(ss) = ss /\ ss = <<>> /\ 1..Len(ss) = {}
      BY <1>1 DEF FlattenSeq
    <2> QED BY <2>1 DEF ToSet
  <1>2. CASE Len(ss) # 0
    <2> DEFINE n == Len(ss)
               Eq(g) == g = [i \in 1..n |-> IF i = 1 THEN ss[i] ELSE g[i - 1] \o ss[i]]
               f == CHOOSE g : Eq(g)
    <2>1. n \in Nat /\ n <= n /\ n # 0 /\ \A i \in 1..n : ss[i] \in Seq(X)
      BY <1>2
    <2>2. PICK g \in [1..n -> Seq(X)] :
             \A i \in 1..n : g[i] = IF i = 1 THEN ss[i] ELSE g[i - 1] \o ss[i]
      <3>1. Flattens(X, ss, n)
        BY <2>1, FlattenExists
      <3> QED BY <3>1 DEF Flattens
    <2>3. Eq(g)
      BY <2>2
    <2>4. Eq(f)
      BY <2>3
    <2>5. FlattenSeq(ss) = f[n]
      BY <1>2 DEF FlattenSeq
    <2> HIDE DEF f
    <2>6. \A i \in 1..n : f[i] = IF i = 1 THEN ss[i] ELSE f[i - 1] \o ss[i]
      BY <2>4
    <2> HIDE DEF n, Eq
    <2> DEFINE Good(k) == f[k] \in Seq(X) /\ ToSet(f[k]) = UNION {ToSet(ss[i]) : i \in 1..k}
               T == {k \in 1..n : ~Good(k)}
    <2>7. T = {}
      <3> SUFFICES ASSUME T # {} PROVE FALSE
        OBVIOUS
      <3>1. PICK k \in T : \A j \in T : k <= j
        <4>1. T \subseteq Nat
          BY <2>1
        <4> QED BY <4>1, LeastNat
      <3>2. k \in 1..n /\ ~Good(k) /\ k \in Nat /\ ss[k] \in Seq(X)
        BY <2>1
      <3>3. k # 1
        <4>1. 1..1 = {1} /\ 1 \in 1..n
          BY <2>1
        <4>2. f[1] = ss[1] /\ ss[1] \in Seq(X)
          BY <2>1, <2>6, <4>1
        <4>3. ToSet(ss[1]) = UNION {ToSet(ss[i]) : i \in 1..1}
          BY <4>1
        <4> QED BY <3>2, <4>2, <4>3
      <3>4. k - 1 \in 1..n /\ Good(k - 1)
        <4>1. k - 1 \in 1..n /\ k - 1 \in Nat /\ k - 1 < k
          BY <2>1, <3>2, <3>3
        <4> HIDE DEF Good
        <4> QED BY <3>1, <3>2, <4>1
      <3>5. f[k] = f[k - 1] \o ss[k] /\ f[k - 1] \in Seq(X)
        BY <2>6, <3>2, <3>3, <3>4
      <3>6. f[k] \in Seq(X) /\ ToSet(f[k]) = ToSet(f[k - 1]) \cup ToSet(ss[k])
        BY <3>2, <3>5, ConcatSet
      <3>7. 1..k = (1..(k - 1)) \cup {k}
        BY <3>2
      <3>8. UNION {ToSet(ss[i]) : i \in 1..k} = (UNION {ToSet(ss[i]) : i \in 1..(k - 1)}) \cup ToSet(ss[k])
        BY <3>7
      <3> QED BY <3>2, <3>4, <3>6, <3>8
    <2>8. Good(n)
      <3>1. n \in 1..n
        BY <2>1
      <3> HIDE DEF Good
      <3> QED BY <2>7, <3>1
    <2> QED BY <2>5, <2>8 DEF n
  <1> QED BY <1>1, <1>2

(* A function on 1..n is a sequence, the empty one when there is no 1..n.    *)
LEMMA IntervalSeq ==
    ASSUME NEW S, NEW n \in Int, NEW f \in [1..n -> S]
    PROVE  f \in Seq(S) /\ 1..Len(f) = 1..n
  <1> DEFINE m == IF n > 0 THEN n ELSE 0
  <1>1. m \in Nat /\ 1..n = 1..m
    OBVIOUS
  <1> HIDE DEF m
  <1>2. f = [i \in 1..m |-> f[i]] /\ \A i \in 1..m : f[i] \in S
    BY <1>1
  <1>3. [i \in 1..m |-> f[i]] \in Seq(S)
    BY <1>1, <1>2, IsASeq
  <1>4. f \in Seq(S) /\ DOMAIN f = 1..m
    BY <1>2, <1>3
  <1>5. DOMAIN f = 1..Len(f)
    BY <1>4, LenProperties
  <1> QED BY <1>1, <1>4, <1>5

(* Taking the head off a sequence.                                           *)
LEMMA HeadTailSet ==
    ASSUME NEW S, NEW s \in Seq(S), s # <<>>
    PROVE  Tail(s) \in Seq(S) /\ Head(s) \in S /\ ToSet(s) = {Head(s)} \cup ToSet(Tail(s))
  <1>1. Len(s) \in Nat \ {0} /\ Head(s) = s[1] /\ DOMAIN s = 1..Len(s)
    BY EmptySeq
  <1>2. /\ Tail(s) \in Seq(S) /\ Head(s) \in S /\ Len(Tail(s)) = Len(s) - 1
        /\ \A i \in 1..Len(Tail(s)) : Tail(s)[i] = s[i + 1]
    BY HeadTailProperties
  <1>3. DOMAIN Tail(s) = 1..(Len(s) - 1)
    BY <1>2, LenProperties
  <1>4. ASSUME NEW x \in ToSet(s) PROVE x = Head(s) \/ x \in ToSet(Tail(s))
    <2>1. PICK i \in 1..Len(s) : s[i] = x
      BY <1>1, <1>4 DEF ToSet
    <2>2. CASE i = 1
      BY <1>1, <2>1, <2>2
    <2>3. CASE i # 1
      <3>1. i - 1 \in 1..(Len(s) - 1) /\ (i - 1) + 1 = i
        BY <1>1, <2>1, <2>3
      <3>2. Tail(s)[i - 1] = x
        BY <1>2, <2>1, <3>1
      <3> QED BY <1>3, <3>1, <3>2 DEF ToSet
    <2> QED BY <2>2, <2>3
  <1>5. Head(s) \in ToSet(s)
    BY <1>1 DEF ToSet
  <1>6. ASSUME NEW x \in ToSet(Tail(s)) PROVE x \in ToSet(s)
    <2>1. PICK i \in 1..(Len(s) - 1) : Tail(s)[i] = x
      BY <1>3, <1>6 DEF ToSet
    <2>2. i + 1 \in 1..Len(s) /\ s[i + 1] = x
      BY <1>1, <1>2, <2>1
    <2> QED BY <1>1, <2>2 DEF ToSet
  <1> QED BY <1>2, <1>4, <1>5, <1>6

-----------------------------------------------------------------------------
(* Where two chains part.                                                    *)

LEMMA GenesisLowest ==
    ASSUME NEW b \in Blocks
    PROVE  Height[b] \in Nat /\ Height[Genesis] \in Nat /\ Height[Genesis] <= Height[b]
  <1>1. Height[b] \in Nat /\ Height[Genesis] \in Nat
    BY TreeAssumption
  <1> QED BY <1>1, GenesisOnChain, ChainBelow

(* A chain has one block at every height up to its own.                      *)
LEMMA BlockAtFacts ==
    ASSUME NEW b \in Blocks, NEW h \in Int, Height[Genesis] <= h, h <= Height[b]
    PROVE  BlockAt(b, h) \in Chain[b] /\ Height[BlockAt(b, h)] = h
  <1> DEFINE T == {Height[c] : c \in {d \in Chain[b] : Height[d] >= h}}
  <1>1. T \subseteq Nat /\ T # {} /\ Height[Genesis] \in Nat
    BY ChainBasics, TreeAssumption
  <1>2. PICK k \in T : \A j \in T : k <= j
    BY <1>1, LeastNat
  <1>3. PICK c \in Chain[b] : Height[c] = k /\ k >= h
    OBVIOUS
  <1>4. CASE k = h
    BY <1>3, <1>4 DEF BlockAt
  <1>5. CASE k # h
    <2>1. c \in Blocks \ {Genesis} /\ k \in Nat
      BY <1>1, <1>3, <1>5, ChainBasics
    <2>2. Parent[c] \in Chain[b] /\ Height[Parent[c]] \in Nat /\ k = Height[Parent[c]] + 1
      BY <1>3, <2>1, ChainBasics, TreeAssumption DEF ParentClosed
    <2>3. Height[Parent[c]] \in T
      BY <1>3, <1>5, <2>1, <2>2
    <2>4. k <= Height[Parent[c]]
      BY <1>2, <2>3
    <2> QED BY <2>1, <2>2, <2>4
  <1> QED BY <1>4, <1>5

LEMMA SameHeight ==
    ASSUME NEW b \in Blocks, NEW c \in Chain[b], NEW d \in Chain[b], Height[c] = Height[d]
    PROVE  c = d
  <1>1. c \in Blocks /\ d \in Blocks /\ Height[c] \in Nat /\ Height[d] \in Nat
    BY ChainBasics, TreeAssumption
  <1> QED BY <1>1, ChainLinear, ChainBelow

(* BodyAbove lists the transactions of exactly the blocks above the height.  *)
LEMMA BodyAboveFacts ==
    ASSUME NEW b \in Blocks, NEW low \in Int, Height[Genesis] <= low
    PROVE  /\ BodyAbove(b, low) \in Seq(Txs)
           /\ ToSet(BodyAbove(b, low)) =
                 UNION {ToSet(Body[c]) : c \in {d \in Chain[b] : Height[d] > low}}
  <1> DEFINE n == Height[b] - low
             ss == [k \in 1..n |-> Body[BlockAt(b, low + k)]]
             high == {d \in Chain[b] : Height[d] > low}
  <1>1. Height[b] \in Nat /\ n \in Int /\ Height[Genesis] \in Nat
    BY TreeAssumption
  <1>2. ASSUME NEW k \in 1..n
        PROVE  BlockAt(b, low + k) \in Chain[b] /\ Height[BlockAt(b, low + k)] = low + k
    <2>1. low + k \in Int /\ Height[Genesis] <= low + k /\ low + k <= Height[b]
      BY <1>1
    <2> QED BY <2>1, BlockAtFacts
  <1>3. ss \in [1..n -> Seq(Txs)]
    BY <1>2, ChainBasics, TxAssumption
  <1> HIDE DEF n
  <1>4. ss \in Seq(Seq(Txs)) /\ 1..Len(ss) = 1..n
    <2> HIDE DEF ss
    <2> QED BY <1>1, <1>3, IntervalSeq
  <1>5. /\ FlattenSeq(ss) \in Seq(Txs)
        /\ ToSet(FlattenSeq(ss)) = UNION {ToSet(ss[i]) : i \in 1..Len(ss)}
    <2> HIDE DEF ss
    <2> QED BY <1>4, FlattenFacts
  <1>6. FlattenSeq(ss) = BodyAbove(b, low)
    BY DEF BodyAbove, n
  <1>7. \A i \in 1..n : ss[i] = Body[BlockAt(b, low + i)]
    OBVIOUS
  <1> HIDE DEF ss
  <1>8. ASSUME NEW i \in 1..n PROVE \E c \in high : ss[i] = Body[c]
    <2>1. low + i > low
      OBVIOUS
    <2> QED BY <1>2, <1>7, <2>1
  <1>9. ASSUME NEW c \in high PROVE \E i \in 1..n : ss[i] = Body[c]
    <2>1. Height[c] \in Nat /\ Height[c] <= Height[b] /\ c \in Blocks
      BY <1>1, ChainBasics, ChainBelow, TreeAssumption
    <2>2. Height[c] - low \in 1..n /\ low + (Height[c] - low) = Height[c]
      BY <1>1, <2>1 DEF n
    <2>3. BlockAt(b, Height[c]) = c
      BY <1>2, <2>2, SameHeight
    <2> QED BY <1>7, <2>2, <2>3
  <1>10. UNION {ToSet(ss[i]) : i \in 1..n} = UNION {ToSet(Body[c]) : c \in high}
    <2> HIDE DEF high
    <2> QED BY <1>8, <1>9
  <1> QED BY <1>4, <1>5, <1>6, <1>10

(* The chains of a and b share a block at ForkHeight, and nothing above it.  *)
LEMMA ForkFacts ==
    ASSUME NEW a \in Blocks, NEW b \in Blocks
    PROVE  /\ ForkHeight(a, b) \in Nat /\ Height[Genesis] <= ForkHeight(a, b)
           /\ \A c \in Chain[b] \ Chain[a] : Height[c] > ForkHeight(a, b)
  <1> DEFINE H == {Height[c] : c \in Chain[a] \cap Chain[b]}
             T == {Height[a] - h : h \in H}
  <1>1. /\ H \subseteq Nat /\ Height[Genesis] \in H /\ Height[a] \in Nat
        /\ \A h \in H : h <= Height[a]
    <2>1. ASSUME NEW c \in Chain[a] PROVE Height[c] \in Nat /\ Height[c] <= Height[a]
      BY ChainBasics, ChainBelow, TreeAssumption
    <2> QED BY <2>1, GenesisOnChain, TreeAssumption
  <1>2. T \subseteq Nat /\ T # {}
    <2>1. ASSUME NEW h \in H PROVE Height[a] - h \in Nat
      <3>1. h \in Nat /\ h <= Height[a]
        BY <1>1
      <3> QED BY <1>1, <3>1
    <2> HIDE DEF H
    <2> QED BY <1>1, <2>1
  <1>3. PICK k \in T : \A j \in T : k <= j
    BY <1>2, LeastNat
  <1>4. PICK h \in H : k = Height[a] - h
    OBVIOUS
  <1> HIDE DEF H
  <1>5. \A g \in H : h >= g
    BY <1>1, <1>3, <1>4
  <1>6. ForkHeight(a, b) = Max(H)
    BY DEF ForkHeight, H
  <1>7. ForkHeight(a, b) \in H /\ \A g \in H : ForkHeight(a, b) >= g
    BY <1>5, <1>6 DEF Max
  <1>8. ASSUME NEW c \in Chain[b] \ Chain[a] PROVE Height[c] > ForkHeight(a, b)
    <2>1. PICK x \in Chain[a] \cap Chain[b] : Height[x] = ForkHeight(a, b)
      BY <1>7 DEF H
    <2>2. c \notin Chain[x]
      BY <2>1, ChainTransitive
    <2>3. x \in Chain[c] /\ x # c /\ c \in Blocks
      BY <2>1, <2>2, ChainLinear, ChainBasics
    <2> QED BY <2>1, <2>3, ChainBelow, TreeAssumption
  <1> QED BY <1>1, <1>7, <1>8

(* What Reorganize plans: every transaction that the new chain adds is       *)
(* removed from the pool, and nothing is removed that is not on that chain.  *)
LEMMA RedundantFacts ==
    ASSUME pindexBest \in Blocks, NEW b \in Blocks
    PROVE  /\ Redundant(b) \in Seq(OpNames \X Txs)
           /\ \A t \in ChainTxs[b] \ ChainTxs[pindexBest] : <<"remove", t>> \in ToSet(Redundant(b))
           /\ \A t : <<"remove", t>> \in ToSet(Redundant(b)) => t \in ChainTxs[b]
  <1> DEFINE s == BodyAbove(b, ForkHeight(pindexBest, b))
             ss == [i \in 1..Len(s) |-> <<<<"remove", s[i]>>, <<"conflicts", s[i]>>>>]
  <1>1. /\ s \in Seq(Txs)
        /\ ToSet(s) = UNION {ToSet(Body[c]) : c \in {d \in Chain[b] : Height[d] > ForkHeight(pindexBest, b)}}
    BY ForkFacts, BodyAboveFacts
  <1>2. FlattenSeq(ss) = Redundant(b)
    BY DEF Redundant
  <1>3. ChainTxs[b] \ ChainTxs[pindexBest] \subseteq ToSet(s) /\ ToSet(s) \subseteq ChainTxs[b]
    BY <1>1, ForkFacts DEF ChainTxs
  <1> HIDE DEF s
  <1>4. Len(s) \in Nat /\ DOMAIN s = 1..Len(s) /\ \A i \in 1..Len(s) : s[i] \in Txs
    BY <1>1
  <1>5. ASSUME NEW i \in 1..Len(s)
        PROVE  /\ ss[i] \in Seq(OpNames \X Txs)
               /\ ToSet(ss[i]) = {<<"remove", s[i]>>, <<"conflicts", s[i]>>}
    <2>1. /\ ss[i] = <<<<"remove", s[i]>>, <<"conflicts", s[i]>>>> /\ s[i] \in Txs
          /\ "remove" \in OpNames /\ "conflicts" \in OpNames
      BY <1>4 DEF OpNames
    <2>2. ASSUME NEW x \in OpNames \X Txs, NEW y \in OpNames \X Txs
          PROVE  <<x, y>> \in Seq(OpNames \X Txs) /\ ToSet(<<x, y>>) = {x, y}
      BY DEF ToSet
    <2> HIDE DEF ss
    <2> QED BY <2>1, <2>2
  <1>6. ss \in [1..Len(s) -> Seq(OpNames \X Txs)]
    BY <1>5
  <1> HIDE DEF ss
  <1>7. ss \in Seq(Seq(OpNames \X Txs)) /\ 1..Len(ss) = 1..Len(s)
    BY <1>4, <1>6, IntervalSeq
  <1>8. /\ Redundant(b) \in Seq(OpNames \X Txs)
        /\ ToSet(Redundant(b)) = UNION {ToSet(ss[i]) : i \in 1..Len(s)}
    BY <1>2, <1>7, FlattenFacts
  <1>9. ASSUME NEW t \in ToSet(s) PROVE <<"remove", t>> \in ToSet(Redundant(b))
    <2>1. PICK i \in 1..Len(s) : s[i] = t
      BY <1>4, <1>9 DEF ToSet
    <2> QED BY <1>5, <1>8, <2>1
  <1>10. ASSUME NEW t, <<"remove", t>> \in ToSet(Redundant(b)) PROVE t \in ToSet(s)
    <2>1. PICK i \in 1..Len(s) : <<"remove", t>> \in ToSet(ss[i])
      BY <1>8, <1>10
    <2>2. t = s[i]
      BY <1>5, <2>1
    <2> QED BY <1>4, <2>2 DEF ToSet
  <1> QED BY <1>3, <1>8, <1>9, <1>10

LEMMA ResurrectFacts ==
    ASSUME pindexBest \in Blocks, NEW b \in Blocks
    PROVE  /\ Resurrect(b) \in Seq(OpNames \X Txs)
           /\ \A t : <<"remove", t>> \notin ToSet(Resurrect(b))
  <1> DEFINE low == Max({ForkHeight(pindexBest, b), LastCheckpoint})
             s == BodyAbove(pindexBest, low)
             ss == [i \in 1..Len(s) |->
                       IF s[i] \in Generated THEN <<>> ELSE <<<<"accept", s[i]>>>>]
  <1>0. low \in Int /\ Height[Genesis] <= low
    <2>1. ASSUME NEW x \in Int, NEW y \in Int PROVE Max({x, y}) \in Int /\ Max({x, y}) >= x
      <3>1. (\A z \in {x, y} : x >= z) \/ (\A z \in {x, y} : y >= z)
        OBVIOUS
      <3>2. Max({x, y}) \in {x, y} /\ \A z \in {x, y} : Max({x, y}) >= z
        BY <3>1 DEF Max
      <3> QED BY <3>2
    <2>2. ForkHeight(pindexBest, b) \in Int /\ LastCheckpoint \in Int
      BY ForkFacts, TxAssumption
    <2>3. low \in Int /\ low >= ForkHeight(pindexBest, b)
      BY <2>1, <2>2
    <2> HIDE DEF low
    <2> QED BY <2>3, ForkFacts, GenesisLowest
  <1>1. s \in Seq(Txs)
    <2> HIDE DEF low
    <2> QED BY <1>0, BodyAboveFacts
  <1>2. FlattenSeq(ss) = Resurrect(b)
    BY DEF Resurrect
  <1> HIDE DEF s
  <1>4. Len(s) \in Nat /\ DOMAIN s = 1..Len(s) /\ \A i \in 1..Len(s) : s[i] \in Txs
    BY <1>1
  <1>5. ASSUME NEW i \in 1..Len(s)
        PROVE  /\ ss[i] \in Seq(OpNames \X Txs)
               /\ \A t : <<"remove", t>> \notin ToSet(ss[i])
    <2>1. /\ ss[i] = <<>> \/ ss[i] = <<<<"accept", s[i]>>>>
          /\ s[i] \in Txs /\ "accept" \in OpNames
      BY <1>4 DEF OpNames
    <2>2. ASSUME NEW x \in OpNames \X Txs
          PROVE  <<x>> \in Seq(OpNames \X Txs) /\ ToSet(<<x>>) = {x}
      BY DEF ToSet
    <2>3. <<>> \in Seq(OpNames \X Txs) /\ ToSet(<<>>) = {}
      BY DEF ToSet
    <2> HIDE DEF ss
    <2>4. CASE ss[i] = <<>>
      BY <2>3, <2>4
    <2>5. CASE ss[i] = <<<<"accept", s[i]>>>>
      <3>1. \A t : <<"remove", t>> # <<"accept", s[i]>>
        OBVIOUS
      <3> QED BY <2>1, <2>2, <2>5, <3>1
    <2> QED BY <2>1, <2>4, <2>5
  <1>6. ss \in [1..Len(s) -> Seq(OpNames \X Txs)]
    BY <1>5
  <1> HIDE DEF ss
  <1>7. ss \in Seq(Seq(OpNames \X Txs)) /\ 1..Len(ss) = 1..Len(s)
    BY <1>4, <1>6, IntervalSeq
  <1>8. /\ Resurrect(b) \in Seq(OpNames \X Txs)
        /\ ToSet(Resurrect(b)) = UNION {ToSet(ss[i]) : i \in 1..Len(s)}
    BY <1>2, <1>7, FlattenFacts
  <1> QED BY <1>5, <1>8

-----------------------------------------------------------------------------
(* The index of what the pool spends.                                        *)

(* The part of TypeOK that the pool needs.                                   *)
PoolTypes ==
    /\ mapTx \subseteq Txs
    /\ mapNextTx \in [Outpoints -> Txs \cup {NoTx}]

PoolInv == PoolTypes /\ PoolIndexExact

LEMMA OutpointFacts ==
    ASSUME NEW t \in Txs
    PROVE  Ins[t] \subseteq Outpoints
  BY DEF Outpoints

(* AcceptToMemoryPool stores a transaction only when nothing in the pool     *)
(* spends its inputs.                                                        *)
LEMMA AddStep ==
    ASSUME PoolInv, NEW t \in Txs, Acceptable(t), addUnchecked(t)
    PROVE  PoolInv'
  <1>1. t \notin mapTx /\ \A o \in Ins[t] : mapNextTx[o] = NoTx
    BY DEF Acceptable, NotKnown
  <1>2. PoolTypes'
    BY DEF PoolInv, PoolTypes, addUnchecked
  <1>3. ASSUME NEW o \in Outpoints, NEW u \in Txs
        PROVE  mapNextTx'[o] = u <=> u \in mapTx' /\ o \in Ins[u]
    <2>1. mapNextTx[o] = u <=> u \in mapTx /\ o \in Ins[u]
      BY DEF PoolInv, PoolIndexExact
    <2>2. CASE o \in Ins[t]
      <3>1. mapNextTx'[o] = t /\ mapNextTx[o] = NoTx
        BY <1>1, <2>2 DEF addUnchecked
      <3>2. u \notin mapTx \/ o \notin Ins[u]
        BY <2>1, <3>1, TxAssumption
      <3> QED BY <2>2, <3>1, <3>2 DEF addUnchecked
    <2>3. CASE o \notin Ins[t]
      BY <2>1, <2>3 DEF addUnchecked
    <2> QED BY <2>2, <2>3
  <1> QED BY <1>2, <1>3 DEF PoolInv, PoolIndexExact

(* Taking any set of pool transactions out keeps the index exact.            *)
LEMMA WithoutStep ==
    ASSUME PoolInv, NEW S \in SUBSET mapTx, Without(S)
    PROVE  PoolInv'
  <1>1. PoolTypes'
    BY DEF PoolInv, PoolTypes, Without
  <1>2. ASSUME NEW o \in Outpoints, NEW u \in Txs
        PROVE  mapNextTx'[o] = u <=> u \in mapTx' /\ o \in Ins[u]
    <2>1. \A v \in Txs : mapNextTx[o] = v <=> v \in mapTx /\ o \in Ins[v]
      BY DEF PoolInv, PoolIndexExact
    <2>2. CASE o \in SpentBy(S)
      <3>1. PICK s \in S : o \in Ins[s]
        BY <2>2 DEF SpentBy
      <3>2. s \in Txs /\ mapNextTx[o] = s
        BY <2>1, <3>1 DEF PoolInv, PoolTypes
      <3>3. mapNextTx'[o] = NoTx
        BY <2>2 DEF Without
      <3>4. ~(u \in mapTx' /\ o \in Ins[u])
        BY <2>1, <3>1, <3>2 DEF Without
      <3> QED BY <3>3, <3>4, TxAssumption
    <2>3. CASE o \notin SpentBy(S)
      <3>1. o \in Ins[u] => u \notin S
        BY <2>3 DEF SpentBy
      <3> QED BY <2>1, <2>3, <3>1 DEF Without
    <2> QED BY <2>2, <2>3
  <1> QED BY <1>1, <1>2 DEF PoolInv, PoolIndexExact

LEMMA PoolInit == Init => PoolInv
  BY TxAssumption DEF Init, PoolInv, PoolTypes, PoolIndexExact

LEMMA PoolStep == PoolInv /\ [Next]_vars => PoolInv'
  <1> SUFFICES ASSUME PoolInv, [Next]_vars PROVE PoolInv'
    OBVIOUS
  <1>1. ASSUME NEW t \in Txs, Acceptable(t), addUnchecked(t) PROVE PoolInv'
    BY <1>1, AddStep
  <1>2. ASSUME NEW t \in Txs, remove(t) PROVE PoolInv'
    BY <1>2, WithoutStep DEF remove
  <1>3. ASSUME NEW t \in Txs, removeConflicts(t) PROVE PoolInv'
    <2>1. UNION {WithDependents(u) : u \in Conflicting(t)} \subseteq mapTx
      BY DEF WithDependents
    <2> QED BY <1>3, <2>1, WithoutStep DEF removeConflicts
  <1>4. CASE UNCHANGED pool
    BY <1>4 DEF pool, PoolInv, PoolTypes, PoolIndexExact
  <1>5. ASSUME NEW t \in Txs, NEW evicted, AddOrphanTx(t, evicted) PROVE UNCHANGED pool
    BY <1>5 DEF AddOrphanTx
  <1> QED BY <1>1, <1>2, <1>3, <1>4, <1>5
          DEF Next, vars, ReceiveTx, ResurrectTx, ResurrectFails, RemoveTx, RemoveConflicts,
              AcceptOrphan, RefuseOrphan, EndOfTx, ConnectInner, ConnectTip, ConnectFurther,
              Reorganize, NewBestBlock

(* mapNextTx is the exact index of what the pool spends, in every state.     *)
THEOREM PoolIndexAlwaysExact == Spec => []PoolIndexExact
  <1>1. PoolInv => PoolIndexExact
    BY DEF PoolInv
  <1> QED BY <1>1, PoolInit, PoolStep, PTL DEF Spec

(* The pool never holds two transactions that spend the same output, however *)
(* blocks, reorganizations and orphans interleave.                           *)
THEOREM PoolNeverDoubleSpends == Spec => []Disjoint(mapTx)
  <1>1. PoolInv => Disjoint(mapTx)
    BY OutpointFacts DEF PoolInv, PoolTypes, PoolIndexExact, Disjoint
  <1> QED BY <1>1, PoolInit, PoolStep, PTL DEF Spec

-----------------------------------------------------------------------------
(* The inductive invariant of the pool.                                      *)

(* Only the handler of a "tx" message has orphans to try or to erase, and it *)
(* runs while the chain is settled: cs_main is held.                         *)
BusyPart ==
    /\ current = NoTx => work = {} /\ erase = {}
    /\ current # NoTx => todo = <<>> /\ pindexBest = dbBest

(* In the middle of a change of the chain: what is confirmed is about to     *)
(* leave the pool, only what is confirmed leaves it alone, and no pool       *)
(* transaction misses an input that is not lost.                             *)
ChainPart ==
    /\ \A t \in Txs : <<"remove", t>> \in ToSet(todo) => t \in InChain
    /\ \A t \in mapTx \cap InChain : <<"remove", t>> \in ToSet(todo)
    /\ \A t \in mapTx : \A o \in Ins[t] : o[1] \in InChain \cup mapTx \cup lost

OrphanPart ==
    /\ \A p \in Txs : orphansByPrev[p] = {t \in orphans : \E o \in Ins[t] : o[1] = p}
    /\ IsFiniteSet(orphans) /\ Cardinality(orphans) <= MaxOrphans

(* An orphan that spends a transaction the message has announced is still to *)
(* be tried, or will be erased, or cannot be accepted yet.                   *)
FollowPart ==
    current # NoTx =>
        \A t \in orphans : (\E o \in Ins[t] : o[1] \in relayed) =>
            \/ t \in erase
            \/ \E q \in Txs : <<q, t>> \in work
            \/ t \notin mapTx /\ ~InputsFound(t)

MempoolInv == TypeOK /\ PoolIndexExact /\ BusyPart /\ ChainPart /\ OrphanPart /\ FollowPart

LEMMA ChainTxsFacts ==
    ASSUME NEW b \in Blocks
    PROVE  /\ ChainTxs[b] \subseteq Txs
           /\ b # Genesis => /\ Parent[b] \in Blocks
                             /\ ChainTxs[b] = ChainTxs[Parent[b]] \cup ToSet(Body[b])
  <1>1. ASSUME NEW c \in Blocks PROVE ToSet(Body[c]) \subseteq Txs
    <2>1. Body[c] \in Seq(Txs)
      BY TxAssumption
    <2> QED BY <2>1 DEF ToSet
  <1>2. ChainTxs[b] = UNION {ToSet(Body[c]) : c \in Chain[b]}
    BY DEF ChainTxs
  <1>3. ChainTxs[b] \subseteq Txs
    BY <1>1, <1>2, ChainBasics
  <1>4. ASSUME b # Genesis
        PROVE  Parent[b] \in Blocks /\ ChainTxs[b] = ChainTxs[Parent[b]] \cup ToSet(Body[b])
    <2>1. Parent[b] \in Blocks /\ Chain[b] = {b} \cup Chain[Parent[b]]
      BY <1>4, ChainStep
    <2>2. ChainTxs[Parent[b]] = UNION {ToSet(Body[c]) : c \in Chain[Parent[b]]}
      BY <2>1 DEF ChainTxs
    <2> QED BY <1>2, <2>1, <2>2
  <1> QED BY <1>3, <1>4

(* The list that SetBestChainInner works through for one new block.          *)
LEMMA TipFacts ==
    ASSUME NEW b \in Blocks
    PROVE  LET s == [i \in 1..Len(Body[b]) |-> <<"remove", Body[b][i]>>] IN
           /\ s \in Seq(OpNames \X Txs)
           /\ \A t : <<"remove", t>> \in ToSet(s) <=> t \in ToSet(Body[b])
  <1> DEFINE s == [i \in 1..Len(Body[b]) |-> <<"remove", Body[b][i]>>]
  <1>1. /\ Body[b] \in Seq(Txs) /\ Len(Body[b]) \in Nat /\ DOMAIN Body[b] = 1..Len(Body[b])
        /\ \A i \in 1..Len(Body[b]) : Body[b][i] \in Txs
    BY TxAssumption
  <1>2. s \in [1..Len(Body[b]) -> OpNames \X Txs]
    BY <1>1 DEF OpNames
  <1>3. s \in Seq(OpNames \X Txs)
    <2> HIDE DEF s
    <2> QED BY <1>1, <1>2, IntervalSeq
  <1>4. \A t : <<"remove", t>> \in ToSet(s) <=> t \in ToSet(Body[b])
    <2>1. DOMAIN s = 1..Len(Body[b]) /\ \A i \in 1..Len(Body[b]) : s[i] = <<"remove", Body[b][i]>>
      OBVIOUS
    <2> HIDE DEF s
    <2> QED BY <1>1, <2>1 DEF ToSet
  <1> QED BY <1>3, <1>4

LEMMA MempoolInit == Init => MempoolInv
  <1> SUFFICES ASSUME Init PROVE MempoolInv
    OBVIOUS
  <1> USE DEF Init
  <1>1. TypeOK
    BY TxAssumption, TreeAssumption, EmptySeq DEF TypeOK
  <1>2. PoolIndexExact
    BY TxAssumption DEF PoolIndexExact
  <1>3. BusyPart /\ FollowPart
    BY DEF BusyPart, FollowPart
  <1>4. ChainPart
    <2>1. ToSet(<<>>) = {}
      BY DEF ToSet
    <2> QED BY <2>1 DEF ChainPart
  <1>5. OrphanPart
    BY FS_EmptySet, TxAssumption DEF OrphanPart
  <1> QED BY <1>1, <1>2, <1>3, <1>4, <1>5 DEF MempoolInv

LEMMA TypeStep == MempoolInv /\ [Next]_vars => TypeOK'
  <1> SUFFICES ASSUME MempoolInv, [Next]_vars PROVE TypeOK'
    OBVIOUS
  <1> USE DEF MempoolInv, chain
  <1>1. ASSUME NEW t \in Txs, ReceiveTx(t) PROVE TypeOK'
    BY <1>1 DEF TypeOK, ReceiveTx, addUnchecked, orphanVars
  <1>2. ASSUME NEW p \in Txs, NEW t \in Txs, AcceptOrphan(p, t) PROVE TypeOK'
    <2>1. current \in Txs
      BY <1>2 DEF AcceptOrphan, BusyPart, TypeOK
    <2> QED BY <1>2, <2>1 DEF TypeOK, AcceptOrphan, addUnchecked, orphanVars
  <1>3. ASSUME NEW p \in Txs, NEW t \in Txs, RefuseOrphan(p, t) PROVE TypeOK'
    BY <1>3 DEF TypeOK, RefuseOrphan, pool, orphanVars
  <1>4. CASE EndOfTx
    BY <1>4 DEF TypeOK, EndOfTx, EraseOrphanTx, pool
  <1>5. ASSUME NEW t \in Txs, NEW evicted \in SUBSET (orphans \cup {t}), AddOrphanTx(t, evicted)
        PROVE  TypeOK'
    BY <1>5 DEF TypeOK, AddOrphanTx, pool
  <1>6. ASSUME NEW b \in Blocks, ConnectTip(b) \/ ConnectFurther(b) PROVE TypeOK'
    BY <1>6, TipFacts DEF TypeOK, ConnectInner, ConnectTip, ConnectFurther, pool, orphanVars
  <1>7. ASSUME NEW b \in Blocks, NEW i \in Blocks, Reorganize(b, i) PROVE TypeOK'
    <2>1. pindexBest \in Blocks
      BY DEF TypeOK
    <2>2. todo' \in Seq(OpNames \X Txs)
      BY <1>7, <2>1, RedundantFacts, ResurrectFacts, ConcatProperties DEF Reorganize
    <2>3. ChainTxs[pindexBest] \subseteq Txs
      BY <2>1, ChainTxsFacts
    <2>4. forced' \in 0..MaxForced
      <3>1. forced' = forced \/ (forced < MaxForced /\ forced' = forced + 1)
        BY <1>7 DEF Reorganize
      <3>2. forced \in 0..MaxForced /\ MaxForced \in Nat
        BY TxAssumption DEF TypeOK
      <3> QED BY <3>1, <3>2
    <2> QED BY <1>7, <2>2, <2>3, <2>4 DEF TypeOK, Reorganize, pool, orphanVars
  <1>8. ASSUME NEW t \in Txs, NEW op, Do(op, t) PROVE todo' \in Seq(OpNames \X Txs)
    BY <1>8, HeadTailProperties DEF Do, TypeOK
  <1>9. ASSUME NEW t \in Txs, ResurrectTx(t) \/ ResurrectFails(t) \/ RemoveTx(t) \/ RemoveConflicts(t)
        PROVE  TypeOK'
    <2>1. todo' \in Seq(OpNames \X Txs)
      BY <1>8, <1>9 DEF ResurrectTx, ResurrectFails, RemoveTx, RemoveConflicts
    <2>2. mapTx' \subseteq Txs /\ mapNextTx' \in [Outpoints -> Txs \cup {NoTx}]
      BY <1>9 DEF ResurrectTx, ResurrectFails, RemoveTx, RemoveConflicts, addUnchecked, remove,
                  removeConflicts, Without, pool, TypeOK
    <2> QED BY <1>9, <2>1, <2>2 DEF ResurrectTx, ResurrectFails, RemoveTx, RemoveConflicts, Do,
                                     TypeOK, orphanVars
  <1>10. CASE NewBestBlock
    BY <1>10 DEF TypeOK, NewBestBlock, pool, orphanVars
  <1>11. CASE UNCHANGED vars
    BY <1>11 DEF TypeOK, vars, pool, orphanVars
  <1> QED BY <1>1, <1>2, <1>3, <1>4, <1>5, <1>6, <1>7, <1>9, <1>10, <1>11 DEF Next

LEMMA BusyStep == MempoolInv /\ [Next]_vars => BusyPart'
  <1> SUFFICES ASSUME MempoolInv, [Next]_vars PROVE BusyPart'
    OBVIOUS
  <1> USE DEF chain
  <1>1. ASSUME NEW t \in Txs, ReceiveTx(t) PROVE BusyPart'
    BY <1>1, TxAssumption DEF BusyPart, ReceiveTx, Idle
  <1>2. ASSUME NEW p \in Txs, NEW t \in Txs, AcceptOrphan(p, t) \/ RefuseOrphan(p, t)
        PROVE  BusyPart'
    BY <1>2 DEF MempoolInv, BusyPart, AcceptOrphan, RefuseOrphan
  <1>3. CASE EndOfTx
    BY <1>3 DEF BusyPart, EndOfTx
  <1>4. ASSUME NEW t \in Txs, NEW evicted, AddOrphanTx(t, evicted) PROVE BusyPart'
    BY <1>4 DEF MempoolInv, BusyPart, AddOrphanTx
  <1>5. ASSUME NEW b \in Blocks,
               ConnectTip(b) \/ ConnectFurther(b) \/ \E i \in Blocks : Reorganize(b, i)
        PROVE  BusyPart'
    BY <1>5 DEF MempoolInv, BusyPart, ConnectInner, ConnectTip, ConnectFurther, Reorganize, Idle
  <1>6. ASSUME NEW t \in Txs, NEW op, Do(op, t) PROVE BusyPart'
    BY <1>6 DEF MempoolInv, BusyPart, Do
  <1>7. CASE NewBestBlock
    BY <1>7 DEF MempoolInv, BusyPart, NewBestBlock
  <1>8. CASE UNCHANGED vars
    BY <1>8 DEF MempoolInv, BusyPart, vars
  <1> QED BY <1>1, <1>2, <1>3, <1>4, <1>5, <1>6, <1>7, <1>8
          DEF Next, ResurrectTx, ResurrectFails, RemoveTx, RemoveConflicts

(* What remove(tx, true) takes out is closed under mapNextTx.                *)
LEMMA DependentsClosed ==
    ASSUME MempoolInv, NEW t, NEW u \in WithDependents(t), NEW v \in mapTx,
           NEW o \in Ins[v], o[1] = u
    PROVE  v \in WithDependents(t)
  <1>1. v \in Txs /\ o \in Outpoints /\ mapNextTx[o] = v /\ v # NoTx
    BY OutpointFacts, TxAssumption DEF MempoolInv, PoolIndexExact, TypeOK
  <1>2. ASSUME NEW S \in SUBSET mapTx, t \in S, Spenders(S) \subseteq S PROVE v \in S
    <2>1. u \in S
      BY <1>2 DEF WithDependents
    <2>2. v \in Spenders(S)
      BY <1>1, <2>1 DEF Spenders
    <2> QED BY <1>2, <2>2
  <1> QED BY <1>2 DEF WithDependents

(* A transaction enters the pool only when it is not confirmed and its       *)
(* inputs are found.                                                         *)
LEMMA AddKeepsChainPart ==
    ASSUME MempoolInv, NEW t \in Txs, Acceptable(t), addUnchecked(t), UNCHANGED dbBest,
           lost \subseteq lost' \cup {t},
           \A u \in Txs : <<"remove", u>> \in ToSet(todo') <=> <<"remove", u>> \in ToSet(todo)
    PROVE  ChainPart'
  <1>1. InChain' = InChain
    BY DEF InChain
  <1>2. t \notin InChain /\ \A o \in Ins[t] : o[1] \in InChain \cup mapTx
    BY DEF Acceptable, NotKnown, InputsFound
  <1>3. mapTx' = mapTx \cup {t} /\ mapTx \subseteq Txs
    BY DEF addUnchecked, MempoolInv, TypeOK
  <1> QED BY <1>1, <1>2, <1>3 DEF MempoolInv, ChainPart

LEMMA ChainPartStep == MempoolInv /\ [Next]_vars => ChainPart'
  <1> SUFFICES ASSUME MempoolInv, [Next]_vars PROVE ChainPart'
    OBVIOUS
  <1> USE DEF chain
  <1>0. todo \in Seq(OpNames \X Txs) /\ dbBest \in Blocks /\ mapTx \subseteq Txs /\ ToSet(<<>>) = {}
    BY DEF MempoolInv, TypeOK, ToSet
  <1>1. ASSUME NEW t \in Txs, ReceiveTx(t) PROVE ChainPart'
    BY <1>1, AddKeepsChainPart DEF ReceiveTx
  <1>2. ASSUME NEW p \in Txs, NEW t \in Txs, AcceptOrphan(p, t) PROVE ChainPart'
    BY <1>2, AddKeepsChainPart DEF AcceptOrphan
  <1>3. CASE UNCHANGED <<mapTx, dbBest, todo, lost>>
    BY <1>3 DEF MempoolInv, ChainPart, InChain
  <1>4. ASSUME NEW b \in Blocks, ConnectTip(b) \/ ConnectFurther(b) PROVE ChainPart'
    <2>0. ConnectInner(b)
      BY <1>4 DEF ConnectTip, ConnectFurther
    <2>1. /\ Parent[b] = dbBest /\ b # Genesis /\ dbBest' = b /\ todo = <<>>
          /\ mapTx' = mapTx /\ lost' = lost \ ToSet(Body[b])
      BY <1>4, <2>0 DEF ConnectInner, ConnectTip, ConnectFurther, Idle, pool
    <2>2. InChain' = InChain \cup ToSet(Body[b])
      BY <2>1, ChainTxsFacts DEF InChain
    <2>3. \A t : <<"remove", t>> \in ToSet(todo') <=> t \in ToSet(Body[b])
      BY <2>0, TipFacts DEF ConnectInner
    <2>4. mapTx \cap InChain = {}
      BY <1>0, <2>1 DEF MempoolInv, ChainPart
    <2> QED BY <2>1, <2>2, <2>3, <2>4 DEF MempoolInv, ChainPart
  <1>5. ASSUME NEW c \in Blocks, NEW b \in Blocks, Reorganize(c, b) PROVE ChainPart'
    <2>1. /\ pindexBest = dbBest /\ dbBest' = b /\ todo = <<>>
          /\ mapTx' = mapTx /\ lost' = (lost \cup (InChain \ ChainTxs[b])) \ ChainTxs[b]
      BY <1>5 DEF Reorganize, Idle, pool, InChain
    <2>2. InChain' = ChainTxs[b]
      BY <2>1 DEF InChain
    <2>3. /\ \A t \in ChainTxs[b] \ InChain : <<"remove", t>> \in ToSet(todo')
          /\ \A t : <<"remove", t>> \in ToSet(todo') => t \in ChainTxs[b]
      <3>1. /\ Redundant(b) \in Seq(OpNames \X Txs)
            /\ \A t \in ChainTxs[b] \ InChain : <<"remove", t>> \in ToSet(Redundant(b))
            /\ \A t : <<"remove", t>> \in ToSet(Redundant(b)) => t \in ChainTxs[b]
        BY <1>0, <2>1, RedundantFacts DEF InChain
      <3>2. /\ Resurrect(b) \in Seq(OpNames \X Txs)
            /\ \A t : <<"remove", t>> \notin ToSet(Resurrect(b))
        BY <1>0, <2>1, ResurrectFacts
      <3>3. todo' = Resurrect(b) \o Redundant(b)
        BY <1>5 DEF Reorganize
      <3>4. ToSet(todo') = ToSet(Resurrect(b)) \cup ToSet(Redundant(b))
        BY <3>1, <3>2, <3>3, ConcatSet
      <3> QED BY <3>1, <3>2, <3>4
    <2>4. mapTx \cap InChain = {}
      BY <1>0, <2>1 DEF MempoolInv, ChainPart
    <2> QED BY <2>1, <2>2, <2>3, <2>4 DEF MempoolInv, ChainPart
  <1>6. ASSUME NEW t \in Txs, NEW op, Do(op, t)
        PROVE  /\ ToSet(todo) = {<<op, t>>} \cup ToSet(todo') /\ UNCHANGED dbBest
               /\ InChain' = InChain
    BY <1>0, <1>6, HeadTailSet DEF Do, InChain
  <1>7. ASSUME NEW t \in Txs, ResurrectTx(t) PROVE ChainPart'
    <2>1. Do("accept", t) /\ Acceptable(t) /\ addUnchecked(t) /\ lost' = lost \ {t}
      BY <1>7 DEF ResurrectTx
    <2>2. /\ UNCHANGED dbBest
          /\ \A u \in Txs : <<"remove", u>> \in ToSet(todo') <=> <<"remove", u>> \in ToSet(todo)
      BY <1>6, <2>1
    <2> QED BY <2>1, <2>2, AddKeepsChainPart
  <1>8. ASSUME NEW t \in Txs, ResurrectFails(t) PROVE ChainPart'
    <2>1. Do("accept", t) /\ UNCHANGED <<mapTx, lost>>
      BY <1>8 DEF ResurrectFails, pool
    <2>2. \A u \in Txs : <<"remove", u>> \in ToSet(todo') <=> <<"remove", u>> \in ToSet(todo)
      BY <1>6, <2>1
    <2> QED BY <1>0, <1>6, <2>1, <2>2 DEF MempoolInv, ChainPart
  <1>9. ASSUME NEW t \in Txs, RemoveTx(t) PROVE ChainPart'
    <2>1. Do("remove", t) /\ mapTx' = mapTx \ {t} /\ lost' = lost
      BY <1>9 DEF RemoveTx, remove, Without
    <2>2. ToSet(todo) = {<<"remove", t>>} \cup ToSet(todo') /\ InChain' = InChain
      BY <1>6, <2>1
    <2>3. t \in InChain
      BY <2>2 DEF MempoolInv, ChainPart
    <2> QED BY <1>0, <2>1, <2>2, <2>3 DEF MempoolInv, ChainPart
  <1>10. ASSUME NEW t \in Txs, RemoveConflicts(t) PROVE ChainPart'
    <2> DEFINE gone == UNION {WithDependents(u) : u \in Conflicting(t)}
    <2>1. Do("conflicts", t) /\ mapTx' = mapTx \ gone /\ lost' = lost
      BY <1>10 DEF RemoveConflicts, removeConflicts, Without
    <2>2. /\ \A u \in Txs : <<"remove", u>> \in ToSet(todo') <=> <<"remove", u>> \in ToSet(todo)
          /\ InChain' = InChain
      BY <1>6, <2>1
    <2>3. ASSUME NEW v \in mapTx', NEW o \in Ins[v] PROVE o[1] \notin gone
      <3> SUFFICES ASSUME NEW c \in Conflicting(t), o[1] \in WithDependents(c) PROVE FALSE
        OBVIOUS
      <3>1. v \in mapTx /\ v \notin WithDependents(c)
        BY <2>1, <2>3
      <3> QED BY <2>3, <3>1, DependentsClosed
    <2> HIDE DEF gone
    <2> QED BY <1>0, <2>1, <2>2, <2>3 DEF MempoolInv, ChainPart
  <1>11. ASSUME NEW t \in Txs, NEW evicted, AddOrphanTx(t, evicted)
         PROVE  UNCHANGED <<mapTx, dbBest, todo, lost>>
    BY <1>11 DEF AddOrphanTx, pool
  <1> QED BY <1>1, <1>2, <1>3, <1>4, <1>5, <1>7, <1>8, <1>9, <1>10, <1>11
          DEF Next, vars, pool, RefuseOrphan, EndOfTx, NewBestBlock

LEMMA OrphanPartStep == MempoolInv /\ [Next]_vars => OrphanPart'
  <1> SUFFICES ASSUME MempoolInv, [Next]_vars PROVE OrphanPart'
    OBVIOUS
  <1>0. /\ orphansByPrev \in [Txs -> SUBSET Txs] /\ orphans \subseteq Txs
        /\ IsFiniteSet(orphans) /\ Cardinality(orphans) \in Nat /\ Cardinality(orphans) <= MaxOrphans
        /\ MaxOrphans \in Nat
        /\ \A p \in Txs : orphansByPrev[p] = {t \in orphans : \E o \in Ins[t] : o[1] = p}
    BY FS_CardinalityType, TxAssumption DEF MempoolInv, TypeOK, OrphanPart
  <1>1. CASE EndOfTx
    <2>1. orphans' = orphans \ erase /\ orphansByPrev' = [p \in Txs |-> orphansByPrev[p] \ erase]
      BY <1>1 DEF EndOfTx, EraseOrphanTx
    <2>2. IsFiniteSet(orphans') /\ Cardinality(orphans') <= Cardinality(orphans)
      BY <1>0, <2>1, FS_Subset
    <2>3. Cardinality(orphans') \in Nat
      BY <2>2, FS_CardinalityType
    <2> QED BY <1>0, <2>1, <2>2, <2>3 DEF OrphanPart
  <1>2. ASSUME NEW t \in Txs, NEW evicted \in SUBSET (orphans \cup {t}), AddOrphanTx(t, evicted)
        PROVE  OrphanPart'
    <2> DEFINE stored == IF t \in Large THEN orphans ELSE orphans \cup {t}
    <2>1. /\ evicted \subseteq stored /\ orphans' = stored \ evicted
          /\ Cardinality(evicted) = IF Cardinality(stored) > MaxOrphans
                                    THEN Cardinality(stored) - MaxOrphans ELSE 0
          /\ orphansByPrev' =
                [p \in Txs |-> (IF p \in {o[1] : o \in Ins[t]} /\ t \in stored
                                THEN orphansByPrev[p] \cup {t} ELSE orphansByPrev[p]) \ evicted]
      BY <1>2 DEF AddOrphanTx
    <2>2. IsFiniteSet(stored) /\ Cardinality(stored) \in Nat
      BY <1>0, FS_AddElement, FS_CardinalityType
    <2>3. stored \ {t} \subseteq orphans /\ orphans \subseteq stored
      OBVIOUS
    <2> HIDE DEF stored
    <2>4. IsFiniteSet(evicted) /\ Cardinality(evicted) \in Nat /\ IsFiniteSet(stored \ evicted)
      BY <2>1, <2>2, FS_Subset, FS_CardinalityType
    <2>5. /\ Cardinality(stored \ evicted) = Cardinality(stored) - Cardinality(stored \cap evicted)
          /\ stored \cap evicted = evicted
      BY <2>1, <2>2, FS_Difference
    <2>6. Cardinality(orphans') <= MaxOrphans
      <3>1. Cardinality(orphans') = Cardinality(stored) - Cardinality(evicted)
        BY <2>1, <2>5
      <3>2. ASSUME NEW n \in Nat, NEW m \in Nat, m = IF n > MaxOrphans THEN n - MaxOrphans ELSE 0
            PROVE  n - m <= MaxOrphans
        BY <1>0, <3>2
      <3> QED BY <2>1, <2>2, <2>4, <3>1, <3>2
    <2>7. ASSUME NEW p \in Txs
          PROVE  orphansByPrev'[p] = {u \in orphans' : \E o \in Ins[u] : o[1] = p}
      <3>1. orphansByPrev[p] = {u \in orphans : \E o \in Ins[u] : o[1] = p}
        BY <1>0
      <3>2. CASE p \in {o[1] : o \in Ins[t]} /\ t \in stored
        <4>1. orphansByPrev'[p] = (orphansByPrev[p] \cup {t}) \ evicted
          BY <2>1, <3>2
        <4> QED BY <2>1, <2>3, <3>1, <3>2, <4>1
      <3>3. CASE ~(p \in {o[1] : o \in Ins[t]} /\ t \in stored)
        <4>1. orphansByPrev'[p] = orphansByPrev[p] \ evicted
          BY <2>1, <3>3
        <4> QED BY <2>1, <2>3, <3>1, <3>3, <4>1
      <3> QED BY <3>2, <3>3
    <2> QED BY <2>1, <2>4, <2>6, <2>7 DEF OrphanPart
  <1>3. CASE UNCHANGED orphanVars
    BY <1>3 DEF MempoolInv, OrphanPart, orphanVars
  <1> QED BY <1>1, <1>2, <1>3
          DEF Next, vars, ReceiveTx, AcceptOrphan, RefuseOrphan, ConnectInner, ConnectTip,
              ConnectFurther, Reorganize, NewBestBlock, Do, ResurrectTx, ResurrectFails, RemoveTx, RemoveConflicts

LEMMA FollowPartStep == MempoolInv /\ [Next]_vars => FollowPart'
  <1> SUFFICES ASSUME MempoolInv, [Next]_vars PROVE FollowPart'
    OBVIOUS
  <1> USE DEF chain
  <1>0. /\ \A p \in Txs : orphansByPrev[p] = {t \in orphans : \E o \in Ins[t] : o[1] = p}
        /\ orphans \subseteq Txs /\ relayed \subseteq Txs /\ InChain \subseteq Txs
        /\ current # NoTx => todo = <<>> /\ pindexBest = dbBest
        /\ current = NoTx => work = {}
    BY ChainTxsFacts DEF MempoolInv, OrphanPart, TypeOK, BusyPart, InChain
  <1>1. ASSUME NEW t \in Txs, ReceiveTx(t) PROVE FollowPart'
    <2>1. relayed' = {t} /\ work' = {t} \X orphansByPrev[t] /\ orphans' = orphans
      BY <1>1 DEF ReceiveTx, orphanVars
    <2>2. ASSUME NEW u \in orphans', NEW o \in Ins[u], o[1] \in relayed'
          PROVE  \E q \in Txs : <<q, u>> \in work'
      <3>1. u \in orphansByPrev[t]
        BY <1>0, <2>1, <2>2
      <3> QED BY <2>1, <3>1
    <2> QED BY <2>2 DEF FollowPart
  <1>2. ASSUME NEW p \in Txs, NEW t \in Txs, AcceptOrphan(p, t) PROVE FollowPart'
    <2>1. /\ <<p, t>> \in work /\ mapTx' = mapTx \cup {t} /\ relayed' = relayed \cup {t}
          /\ work' = (work \ {<<p, t>>}) \cup ({t} \X orphansByPrev[t])
          /\ erase' = erase \cup {t} /\ orphans' = orphans /\ InChain' = InChain
      BY <1>2 DEF AcceptOrphan, addUnchecked, orphanVars, InChain
    <2>2. current # NoTx
      BY <1>0, <2>1
    <2>3. ASSUME NEW u \in orphans, NEW o \in Ins[u], o[1] = t
          PROVE  \E q \in Txs : <<q, u>> \in work'
      <3>1. u \in orphansByPrev[t]
        BY <1>0, <2>3
      <3> QED BY <2>1, <3>1
    <2>4. ASSUME NEW u \in orphans', NEW o \in Ins[u], o[1] \in relayed'
          PROVE  \/ u \in erase'
                 \/ \E q \in Txs : <<q, u>> \in work'
                 \/ u \notin mapTx' /\ ~InputsFound(u)'
      <3>1. CASE u = t \/ \E i \in Ins[u] : i[1] = t
        BY <2>1, <2>3, <3>1
      <3>2. CASE u # t /\ \A i \in Ins[u] : i[1] # t
        <4>1. o[1] \in relayed /\ u \in orphans
          BY <2>1, <2>4, <3>2
        <4>2. u \in erase \/ (\E q \in Txs : <<q, u>> \in work) \/ (u \notin mapTx /\ ~InputsFound(u))
          BY <2>2, <4>1 DEF MempoolInv, FollowPart
        <4>3. \A q \in Txs : <<q, u>> \in work => <<q, u>> \in work'
          BY <2>1, <3>2
        <4>4. InputsFound(u)' => InputsFound(u)
          BY <2>1, <3>2 DEF InputsFound
        <4> QED BY <2>1, <3>2, <4>2, <4>3, <4>4
      <3> QED BY <3>1, <3>2
    <2> QED BY <2>4 DEF FollowPart
  <1>3. ASSUME NEW p \in Txs, NEW t \in Txs, RefuseOrphan(p, t) PROVE FollowPart'
    <2>1. /\ <<p, t>> \in work /\ work' = work \ {<<p, t>>}
          /\ erase' = (IF MissingInputs(t) THEN erase ELSE erase \cup {t})
          /\ UNCHANGED <<mapTx, relayed, orphans, dbBest, current>>
      BY <1>3 DEF RefuseOrphan, pool, orphanVars
    <2>2. current # NoTx
      BY <1>0, <2>1
    <2>3. t \in erase' \/ (t \notin mapTx' /\ ~InputsFound(t)')
      BY <2>1 DEF MissingInputs, NotKnown, InputsFound, InChain
    <2>4. ASSUME NEW u \in orphans', NEW o \in Ins[u], o[1] \in relayed', u # t
          PROVE  \/ u \in erase'
                 \/ \E q \in Txs : <<q, u>> \in work'
                 \/ u \notin mapTx' /\ ~InputsFound(u)'
      <3>1. u \in erase \/ (\E q \in Txs : <<q, u>> \in work) \/ (u \notin mapTx /\ ~InputsFound(u))
        BY <2>1, <2>2, <2>4 DEF MempoolInv, FollowPart
      <3>2. \A q \in Txs : <<q, u>> \in work => <<q, u>> \in work'
        BY <2>1, <2>4
      <3>3. InputsFound(u)' = InputsFound(u)
        BY <2>1 DEF InputsFound, InChain
      <3> QED BY <2>1, <3>1, <3>2, <3>3
    <2> QED BY <2>3, <2>4 DEF FollowPart
  <1>4. CASE current' = NoTx
    BY <1>4 DEF FollowPart
  <1>5. ASSUME current = NoTx, UNCHANGED current PROVE FollowPart'
    BY <1>5 DEF FollowPart
  <1>6. ASSUME NEW t \in Txs, NEW evicted, AddOrphanTx(t, evicted) PROVE FollowPart'
    BY <1>5, <1>6 DEF AddOrphanTx, Idle
  <1>7. ASSUME NEW b \in Blocks,
               ConnectTip(b) \/ ConnectFurther(b) \/ \E i \in Blocks : Reorganize(b, i)
        PROVE  FollowPart'
    BY <1>0, <1>5, <1>7 DEF ConnectInner, ConnectTip, ConnectFurther, Reorganize, Idle
  <1>8. ASSUME NEW t \in Txs, NEW op, Do(op, t) PROVE FollowPart'
    BY <1>0, <1>5, <1>8 DEF Do
  <1>9. CASE NewBestBlock
    BY <1>0, <1>5, <1>9 DEF NewBestBlock
  <1>10. CASE UNCHANGED vars
    BY <1>10 DEF MempoolInv, FollowPart, vars, pool, orphanVars, InputsFound, InChain
  <1> QED BY <1>1, <1>2, <1>3, <1>4, <1>6, <1>7, <1>8, <1>9, <1>10
          DEF Next, EndOfTx, ResurrectTx, ResurrectFails, RemoveTx, RemoveConflicts

LEMMA MempoolStep == MempoolInv /\ [Next]_vars => MempoolInv'
  <1>1. MempoolInv => PoolInv
    BY DEF MempoolInv, PoolInv, PoolTypes, TypeOK
  <1>2. PoolInv' => PoolIndexExact'
    BY DEF PoolInv
  <1> QED BY <1>1, <1>2, TypeStep, PoolStep, BusyStep, ChainPartStep, OrphanPartStep, FollowPartStep
          DEF MempoolInv

(* The inductive invariant, from which the theorems about the pool follow.   *)
THEOREM MempoolInvariant == Spec => []MempoolInv
  BY MempoolInit, MempoolStep, PTL DEF Spec

(* The types of the pool, the orphan maps and the work lists: the lists that *)
(* Reorganize builds are well formed for every pair of chains.               *)
THEOREM MempoolTypeCorrect == Spec => []TypeOK
  <1>1. MempoolInv => TypeOK
    BY DEF MempoolInv
  <1> QED BY <1>1, MempoolInvariant, PTL

(* When SetBestChain has ended, no transaction of the pool is confirmed,     *)
(* whatever was disconnected, resurrected and connected on the way.          *)
THEOREM PoolHoldsNothingConfirmed == Spec => []PoolNotConfirmed
  <1>1. MempoolInv => PoolNotConfirmed
    <2>1. ToSet(<<>>) = {}
      BY DEF ToSet
    <2> QED BY <2>1 DEF MempoolInv, ChainPart, PoolNotConfirmed, Idle
  <1> QED BY <1>1, MempoolInvariant, PTL

(* A pool transaction only ever misses an input that a disconnected block    *)
(* created and that did not return to the pool.                              *)
THEOREM OnlyLostInputsMissing == Spec => []MissingInputIsLost
  <1>1. MempoolInv => MissingInputIsLost
    BY DEF MempoolInv, ChainPart, MissingInputIsLost
  <1> QED BY <1>1, MempoolInvariant, PTL

(* mapOrphanTransactionsByPrev is exact and bounded, for every limit.        *)
THEOREM OrphanIndexAlwaysExact == Spec => []OrphanIndexExact
  <1>1. MempoolInv => OrphanIndexExact
    BY DEF MempoolInv, OrphanPart, OrphanIndexExact
  <1> QED BY <1>1, MempoolInvariant, PTL

(* The end of a "tx" message leaves no orphan behind that spends what the    *)
(* message brought in and could have been accepted.                          *)
THEOREM OrphansAlwaysFollow == Spec => OrphansFollow
  <1> DEFINE A == EndOfTx => \A t \in orphans' : (\E o \in Ins[t] : o[1] \in relayed) =>
                                                   t \notin mapTx /\ ~InputsFound(t)
  <1>1. MempoolInv /\ [Next]_vars => [A]_vars
    <2> SUFFICES ASSUME MempoolInv, EndOfTx, NEW t \in orphans',
                        NEW o \in Ins[t], o[1] \in relayed
                 PROVE  t \notin mapTx /\ ~InputsFound(t)
      OBVIOUS
    <2>1. current # NoTx /\ work = {} /\ t \in orphans /\ t \notin erase
      BY DEF EndOfTx, EraseOrphanTx
    <2> QED BY <2>1 DEF MempoolInv, FollowPart
  <1> QED BY <1>1, MempoolInvariant, PTL DEF Spec, OrphansFollow

-----------------------------------------------------------------------------
(* The staking thread.                                                       *)

(* Unless a sync-checkpoint forces a block, the best chain only gains trust, *)
(* also while pindexBest lags behind, so that a parent that is no longer the *)
(* best block never becomes it again.                                        *)
PrevPart ==
    /\ \/ pindexBest = dbBest \/ Trust[pindexBest] < Trust[dbBest]
       \/ Trust[pindexNew] <= Trust[pindexBest]
    /\ minerPc # "idle" =>
          prev \in Blocks /\ (prev = dbBest \/ Trust[prev] < Trust[dbBest] \/ forcedSince)

(* What is collected so far connects on the chain of the scan.  When that is *)
(* not the chain of the parent, the parent was stale before the scan.        *)
BlockPart ==
    /\ vtx \in Seq(Txs)
    /\ minerPc \in {"collect", "sign", "found"} =>
          /\ collectedOn \in Blocks
          /\ collectedOn = prev => Connects(vtx, prev)
          /\ collectedOn # prev => Trust[prev] < Trust[collectedOn] \/ forcedSince
          /\ collectedOn = dbBest \/ Trust[collectedOn] < Trust[dbBest] \/ forcedSince
    /\ minerPc = "collect" => collectedOn = dbBest
    /\ minerPc = "found" => prev = dbBest

(* The pool does not change while transactions are collected.  For one that  *)
(* misses nothing, setDependsOn and mapDependers say which of its pool       *)
(* inputs are not in the block yet; of one that misses an input,             *)
(* mapDependers at most points to a COrphan that is gone.                    *)
CollectPart ==
    minerPc = "collect" =>
        /\ Idle
        /\ \A t \in queue \cup ToSet(vtx) : t \in mapTx /\ InPool(t) \subseteq ToSet(vtx)
        /\ queue \cap ToSet(vtx) = {}
        /\ dependsOn \in [Txs -> SUBSET Txs]
        /\ \A t \in mapTx : Missing(t) = {} =>
              /\ dependsOn[t] = InPool(t) \ ToSet(vtx)
              /\ \A p \in InPool(t) : t \in dependers[p]
        /\ \A p \in Txs : \A t \in dependers[p] :
              t \in mapTx /\ p \in InPool(t) /\ (Missing(t) # {} => t \in destroyed)
        /\ \A t \in destroyed : t \in mapTx /\ Missing(t) # {}

UndefinedPart ==
    minerPc = "undefined" => Idle /\ \E t \in destroyed : t \in mapTx /\ Missing(t) # {}

MinerInv == MempoolInv /\ PrevPart /\ BlockPart /\ CollectPart /\ UndefinedPart

LEMMA MinerInitial == MinerInit => MinerInv
  BY MempoolInit, EmptySeq
     DEF MinerInit, Init, MinerInv, PrevPart, BlockPart, CollectPart, UndefinedPart

(* Every step of the thread leaves the node alone.                           *)
LEMMA MinerLeavesNode == Miner => UNCHANGED vars
  BY DEF Miner, ReadPrev, ScanPool, Skip, AddToBlock, TouchDestroyed, EndOfCollect, NoKernel,
         Stale, CheckStake, StartOver

LEMMA MinerNextIsNext == [MinerNext]_allVars => [Next]_vars
  BY MinerLeavesNode DEF MinerNext, allVars

(* The block to which an unforced reorganization goes has more trust.        *)
LEMMA IntermediateGains ==
    ASSUME pindexBest \in Blocks, NEW b \in Blocks, NEW i \in Blocks, Intermediate(b, i),
           Trust[b] > Trust[pindexBest]
    PROVE  Trust[i] > Trust[pindexBest]
  <1>1. CASE i = b
    BY <1>1
  <1>2. CASE i # b
    <2>1. i \in Chain[b] /\ Chain[i] = Chain[b] \ Postponed(b)
      BY DEF Intermediate
    <2>2. PICK y \in Chain[b] \ {Genesis} : Parent[y] = i
      BY <1>2, <2>1, ChildOnChain
    <2>3. y \in Blocks /\ Trust[i] < Trust[y] /\ Trust[i] \in Nat /\ Trust[y] \in Nat
      BY <2>2, ChainBasics, TreeAssumption
    <2>4. y \notin Chain[i]
      <3> SUFFICES ASSUME y \in Chain[i] PROVE FALSE
        OBVIOUS
      <3>1. y = i \/ Trust[y] < Trust[i]
        BY ChainBelow
      <3> QED BY <2>3, <3>1
    <2> QED BY <2>1, <2>2, <2>4 DEF Postponed
  <1> QED BY <1>1, <1>2

(* A change of the chain that is not forced gains trust.                     *)
LEMMA NodeStepGainsTrust ==
    ASSUME MempoolInv, [Next]_vars
    PROVE  /\ dbBest' = dbBest \/ Trust[dbBest] < Trust[dbBest'] \/ forced' # forced
           /\ \/ pindexBest' = dbBest'
              \/ UNCHANGED <<dbBest, pindexBest, pindexNew>>
              \/ /\ pindexBest' = pindexBest /\ pindexBest # dbBest
                 /\ pindexNew' = pindexNew /\ Trust[dbBest] < Trust[dbBest']
              \/ /\ pindexBest' = pindexBest
                 /\ Trust[pindexBest] < Trust[dbBest'] \/ Trust[pindexNew'] <= Trust[pindexBest]
  <1>0. pindexBest \in Blocks /\ dbBest \in Blocks /\ forced \in Int
    BY DEF MempoolInv, TypeOK
  <1>1. ASSUME NEW b \in Blocks, ConnectTip(b)
        PROVE  Trust[dbBest] < Trust[dbBest'] /\ pindexBest = dbBest /\ pindexBest' = pindexBest
    BY <1>1, TreeAssumption DEF ConnectInner, ConnectTip, Idle
  <1>2. ASSUME NEW b \in Blocks, ConnectFurther(b)
        PROVE  /\ Trust[dbBest] < Trust[dbBest'] /\ pindexBest # dbBest
               /\ pindexBest' = pindexBest /\ pindexNew' = pindexNew
    BY <1>2, TreeAssumption DEF ConnectInner, ConnectFurther
  <1>3. ASSUME NEW b \in Blocks, NEW i \in Blocks, Reorganize(b, i)
        PROVE  /\ pindexBest' = pindexBest /\ pindexBest = dbBest
               /\ \/ Trust[dbBest] < Trust[dbBest']
                  \/ forced' # forced /\ Trust[pindexNew'] <= Trust[pindexBest]
    <2>1. /\ pindexBest' = pindexBest /\ pindexBest = dbBest /\ dbBest' = i /\ pindexNew' = b
          /\ Intermediate(b, i)
          /\ Trust[b] > Trust[pindexBest] \/ (~(Trust[b] > Trust[pindexBest]) /\ forced' = forced + 1)
      BY <1>3 DEF Reorganize, Idle
    <2>2. Trust[b] \in Nat /\ Trust[pindexBest] \in Nat /\ Trust[i] \in Nat
      BY <1>0, TreeAssumption
    <2>3. CASE Trust[b] > Trust[pindexBest]
      BY <1>0, <2>1, <2>2, <2>3, IntermediateGains
    <2>4. CASE ~(Trust[b] > Trust[pindexBest]) /\ forced' = forced + 1
      BY <1>0, <2>1, <2>2, <2>4
    <2> QED BY <2>1, <2>3, <2>4
  <1>4. CASE NewBestBlock
    BY <1>4 DEF NewBestBlock
  <1>5. CASE UNCHANGED <<dbBest, pindexBest, pindexNew>>
    BY <1>5
  <1>6. ASSUME NEW t \in Txs, NEW evicted, AddOrphanTx(t, evicted)
        PROVE  UNCHANGED <<dbBest, pindexBest, pindexNew>>
    BY <1>6 DEF AddOrphanTx, chain
  <1> QED BY <1>1, <1>2, <1>3, <1>4, <1>5, <1>6
          DEF Next, vars, chain, ReceiveTx, AcceptOrphan, RefuseOrphan, EndOfTx, Do, ResurrectTx,
              ResurrectFails, RemoveTx, RemoveConflicts

(* An appended transaction that connects after the others.                   *)
LEMMA ConnectsAppend ==
    ASSUME NEW s \in Seq(Txs), NEW t \in Txs, NEW b \in Blocks, Connects(s, b),
           Prevs(t) \subseteq ChainTxs[b] \cup ToSet(s),
           Ins[t] \cap (SpentBy(ChainTxs[b]) \cup SpentBy(ToSet(s))) = {},
           Ripe(t, b)
    PROVE  Connects(Append(s, t), b)
  <1> DEFINE r == Append(s, t)
             before(q, i) == ChainTxs[b] \cup {q[j] : j \in 1..i - 1}
  <1>1. /\ Len(s) \in Nat /\ DOMAIN s = 1..Len(s) /\ Len(r) = Len(s) + 1
        /\ r[Len(s) + 1] = t /\ \A i \in 1..Len(s) : r[i] = s[i]
    OBVIOUS
  <1> HIDE DEF r
  <1>2. ASSUME NEW i \in 1..Len(s)
        PROVE  /\ Prevs(r[i]) \subseteq before(r, i)
               /\ Ins[r[i]] \cap SpentBy(before(r, i)) = {} /\ Ripe(r[i], b)
    <2>1. \A j \in 1..i - 1 : j \in 1..Len(s)
      BY <1>1
    <2>2. {r[j] : j \in 1..i - 1} = {s[j] : j \in 1..i - 1}
      BY <1>1, <2>1
    <2>3. before(r, i) = before(s, i) /\ r[i] = s[i]
      BY <1>1, <2>2
    <2>4. /\ Prevs(s[i]) \subseteq before(s, i)
          /\ Ins[s[i]] \cap SpentBy(before(s, i)) = {} /\ Ripe(s[i], b)
      BY DEF Connects
    <2> QED BY <2>3, <2>4
  <1>3. /\ Prevs(t) \subseteq before(r, Len(s) + 1)
        /\ Ins[t] \cap SpentBy(before(r, Len(s) + 1)) = {}
    <2>1. (Len(s) + 1) - 1 = Len(s)
      BY <1>1
    <2>2. {r[j] : j \in 1..Len(s)} = ToSet(s)
      BY <1>1 DEF ToSet
    <2>3. before(r, Len(s) + 1) = ChainTxs[b] \cup ToSet(s)
      BY <2>1, <2>2
    <2>4. SpentBy(ChainTxs[b] \cup ToSet(s)) = SpentBy(ChainTxs[b]) \cup SpentBy(ToSet(s))
      BY DEF SpentBy
    <2> QED BY <2>3, <2>4
  <1>4. ASSUME NEW i \in 1..Len(r)
        PROVE  /\ Prevs(r[i]) \subseteq before(r, i)
               /\ Ins[r[i]] \cap SpentBy(before(r, i)) = {} /\ Ripe(r[i], b)
    <2>1. i \in 1..Len(s) \/ i = Len(s) + 1
      BY <1>1
    <2> QED BY <1>1, <1>2, <1>3, <2>1
  <1>5. Connects(r, b)
    BY <1>4 DEF Connects
  <1> QED BY <1>5 DEF r

(* Beside the thread, the node takes steps that leave all but its history.   *)
Beside ==
    /\ minerPc \notin {"collect", "undefined", "found"}
    /\ Next
    /\ forcedSince' = (minerPc # "idle" /\ (forcedSince \/ forced' # forced))
    /\ UNCHANGED <<minerPc, prev, collectedOn, queue, dependsOn, dependers, destroyed, vtx>>

LEMMA PrevPartStep == MinerInv /\ [MinerNext]_allVars => PrevPart'
  <1> SUFFICES ASSUME MinerInv, [MinerNext]_allVars PROVE PrevPart'
    OBVIOUS
  <1> DEFINE Behind == \/ pindexBest = dbBest \/ Trust[pindexBest] < Trust[dbBest]
                       \/ Trust[pindexNew] <= Trust[pindexBest]
  <1>1. [Next]_vars /\ MempoolInv /\ TypeOK /\ TypeOK'
    BY MinerNextIsNext, TypeStep DEF MinerInv, MempoolInv
  <1>2. /\ dbBest \in Blocks /\ pindexBest \in Blocks /\ dbBest' \in Blocks /\ pindexBest' \in Blocks
        /\ pindexNew \in Blocks /\ pindexNew' \in Blocks
    BY <1>1 DEF TypeOK
  <1>3. /\ Trust[dbBest] \in Nat /\ Trust[dbBest'] \in Nat /\ Trust[pindexBest] \in Nat
        /\ Trust[pindexNew] \in Nat
    BY <1>2, TreeAssumption
  <1>4. Behind'
    <2>1. Behind
      BY DEF MinerInv, PrevPart
    <2> QED BY <1>1, <1>3, <2>1, NodeStepGainsTrust
  <1>5. CASE Miner
    <2>1. UNCHANGED <<dbBest, pindexBest, pindexNew>>
      BY <1>5, MinerLeavesNode DEF vars, chain
    <2>2. CASE ReadPrev
      <3>1. /\ prev' = pindexBest
            /\ forcedSince' = (pindexBest # dbBest /\ Trust[pindexNew] <= Trust[pindexBest])
        BY <2>2 DEF ReadPrev
      <3> QED BY <1>2, <1>4, <2>1, <3>1 DEF MinerInv, PrevPart
    <2>3. CASE minerPc' = "idle"
      BY <1>4, <2>3 DEF PrevPart
    <2>4. CASE UNCHANGED <<prev, forcedSince>> /\ minerPc # "idle"
      BY <1>4, <2>1, <2>4 DEF MinerInv, PrevPart
    <2> QED BY <1>5, <2>2, <2>3, <2>4
            DEF Miner, history, ScanPool, Skip, AddToBlock, TouchDestroyed, EndOfCollect, NoKernel,
                Stale, CheckStake, StartOver
  <1>6. CASE Beside
    <2>1. /\ minerPc' = minerPc /\ prev' = prev
          /\ minerPc # "idle" => (forcedSince' <=> forcedSince \/ forced' # forced)
      BY <1>6 DEF Beside
    <2>2. minerPc # "idle" => /\ prev \in Blocks /\ Trust[prev] \in Nat
                              /\ prev = dbBest \/ Trust[prev] < Trust[dbBest] \/ forcedSince
      BY TreeAssumption DEF MinerInv, PrevPart
    <2>3. dbBest' = dbBest \/ Trust[dbBest] < Trust[dbBest'] \/ forced' # forced
      BY <1>1, NodeStepGainsTrust
    <2> QED BY <1>3, <1>4, <2>1, <2>2, <2>3 DEF PrevPart
  <1>7. CASE UNCHANGED allVars
    BY <1>7 DEF allVars, vars, chain, minerVars, history, MinerInv, PrevPart
  <1> QED BY <1>5, <1>6, <1>7 DEF MinerNext, Beside

LEMMA BlockPartStep == MinerInv /\ [MinerNext]_allVars => BlockPart'
  <1> SUFFICES ASSUME MinerInv, [MinerNext]_allVars PROVE BlockPart'
    OBVIOUS
  <1>0. /\ dbBest \in Blocks
        /\ minerPc # "idle" =>
              prev \in Blocks /\ (prev = dbBest \/ Trust[prev] < Trust[dbBest] \/ forcedSince)
    BY DEF MinerInv, PrevPart, MempoolInv, TypeOK
  <1>1. ASSUME NEW seen, ScanPool(seen) PROVE BlockPart'
    <2>1. /\ minerPc = "prev" /\ minerPc' = "collect" /\ vtx' = <<>> /\ collectedOn' = dbBest
          /\ dbBest' = dbBest /\ prev' = prev /\ forcedSince' = forcedSince
      BY <1>1 DEF ScanPool, vars, chain
    <2>2. vtx' \in Seq(Txs) /\ Connects(vtx', prev')
      BY <2>1, EmptySeq DEF Connects
    <2> QED BY <1>0, <2>1, <2>2 DEF BlockPart
  <1>2. ASSUME NEW t \in Txs, AddToBlock(t) PROVE BlockPart'
    <2>1. /\ vtx' = Append(vtx, t) /\ minerPc = "collect" /\ minerPc' = minerPc
          /\ UNCHANGED <<prev, dbBest, collectedOn, forcedSince>>
          /\ ConnectsInBlock(t) /\ vtx \in Seq(Txs)
      BY <1>2 DEF AddToBlock, vars, chain, history, MinerInv, BlockPart
    <2>2. vtx' \in Seq(Txs)
      BY <2>1
    <2>3. collectedOn = prev => Connects(vtx', prev)
      BY <1>0, <2>1, ConnectsAppend DEF MinerInv, BlockPart, ConnectsInBlock, InChain
    <2> QED BY <2>1, <2>2, <2>3 DEF MinerInv, BlockPart
  <1>3. CASE vtx' = <<>> /\ minerPc' = "idle"
    BY <1>3, EmptySeq DEF BlockPart
  <1>4. CASE /\ UNCHANGED <<vtx, prev, dbBest, collectedOn, forcedSince>>
             /\ minerPc' = minerPc \/ minerPc' = "sign" \/ (minerPc' = "found" /\ prev = dbBest)
             /\ minerPc \in {"collect", "sign"} \/ minerPc' = minerPc
    BY <1>4 DEF MinerInv, BlockPart
  <1>5. CASE ReadPrev \/ \E t \in Txs : TouchDestroyed(t)
    BY <1>5 DEF ReadPrev, TouchDestroyed, MinerInv, BlockPart
  <1>6. CASE Beside
    <2>1. /\ UNCHANGED <<vtx, prev, minerPc, collectedOn>>
          /\ minerPc # "found" /\ minerPc # "collect"
          /\ minerPc # "idle" => (forcedSince' <=> forcedSince \/ forced' # forced)
          /\ dbBest' = dbBest \/ Trust[dbBest] < Trust[dbBest'] \/ forced' # forced
      BY <1>6, NodeStepGainsTrust DEF Beside, MinerInv
    <2>2. dbBest' \in Blocks
      BY <1>6, TypeStep DEF Beside, MinerInv, TypeOK
    <2>3. /\ Trust[dbBest] \in Nat /\ Trust[dbBest'] \in Nat
          /\ collectedOn \in Blocks => Trust[collectedOn] \in Nat
      BY <1>0, <2>2, TreeAssumption
    <2>4. ASSUME minerPc = "sign"
          PROVE  collectedOn = dbBest' \/ Trust[collectedOn] < Trust[dbBest'] \/ forcedSince'
      <3>1. /\ collectedOn \in Blocks
            /\ collectedOn = dbBest \/ Trust[collectedOn] < Trust[dbBest] \/ forcedSince
        BY <2>4 DEF MinerInv, BlockPart
      <3> QED BY <2>1, <2>3, <2>4, <3>1
    <2>5. ASSUME minerPc = "sign"
          PROVE  /\ collectedOn \in Blocks
                 /\ collectedOn = prev => Connects(vtx, prev)
                 /\ collectedOn # prev => Trust[prev] < Trust[collectedOn] \/ forcedSince'
      BY <2>1, <2>5 DEF MinerInv, BlockPart
    <2> QED BY <2>1, <2>4, <2>5 DEF MinerInv, BlockPart
  <1> QED BY <1>1, <1>2, <1>3, <1>4, <1>5, <1>6
          DEF MinerNext, Beside, Miner, allVars, minerVars, history, vars, chain, Skip, EndOfCollect,
              NoKernel, Stale, CheckStake, StartOver, Forget

LEMMA CollectPartStep == MinerInv /\ [MinerNext]_allVars => CollectPart'
  <1> SUFFICES ASSUME MinerInv, [MinerNext]_allVars PROVE CollectPart'
    OBVIOUS
  <1>0. mapTx \subseteq Txs /\ ToSet(<<>>) = {} /\ \A t : InPool(t) \subseteq mapTx
    BY DEF MinerInv, MempoolInv, TypeOK, ToSet, InPool
  <1>1. ASSUME UNCHANGED vars
        PROVE  /\ mapTx' = mapTx /\ Idle' = Idle
               /\ \A t : InPool(t)' = InPool(t) /\ Missing(t)' = Missing(t)
    BY <1>1 DEF vars, chain, pool, Idle, InPool, Missing, InChain
  <1>2. ASSUME NEW seen, ScanPool(seen) PROVE CollectPart'
    <2> DEFINE whole == {t \in mapTx : Missing(t) = {}}
               points(t) == IF t \in whole THEN InPool(t) ELSE InPool(t) \cap seen
    <2>1. /\ Idle /\ UNCHANGED vars /\ vtx' = <<>>
          /\ queue' = {t \in whole : InPool(t) = {}}
          /\ destroyed' = {t \in mapTx \ whole : points(t) # {}}
          /\ dependers' = [p \in Txs |-> {t \in mapTx : p \in points(t)}]
      BY <1>2 DEF ScanPool
    <2>2. dependsOn' = [t \in Txs |-> IF t \in whole THEN InPool(t) ELSE {}]
      BY <1>2 DEF ScanPool
    <2>3. ASSUME NEW p \in Txs, NEW t \in dependers'[p]
          PROVE  t \in mapTx /\ p \in InPool(t) /\ (Missing(t) # {} => t \in destroyed')
      BY <2>1, <2>3
    <2>4. ASSUME NEW t \in mapTx, Missing(t) = {}
          PROVE  /\ dependsOn'[t] = InPool(t) \ ToSet(vtx')
                 /\ \A p \in InPool(t) : t \in dependers'[p]
      BY <1>0, <2>1, <2>2, <2>4
    <2>5. /\ \A t \in queue' \cup ToSet(vtx') : t \in mapTx /\ InPool(t) \subseteq ToSet(vtx')
          /\ queue' \cap ToSet(vtx') = {}
      BY <1>0, <2>1
    <2>6. \A t \in destroyed' : t \in mapTx /\ Missing(t) # {}
      BY <2>1
    <2>7. dependsOn' \in [Txs -> SUBSET Txs]
      BY <1>0, <2>2
    <2>8. /\ mapTx' = mapTx /\ Idle'
          /\ \A t : InPool(t)' = InPool(t) /\ Missing(t)' = Missing(t)
      BY <1>1, <2>1
    <2> HIDE DEF whole, points
    <2> QED BY <2>3, <2>4, <2>5, <2>6, <2>7, <2>8 DEF CollectPart
  <1>3. ASSUME NEW t \in Txs, Skip(t) PROVE CollectPart'
    <2>1. /\ UNCHANGED vars /\ queue' = queue \ {t} /\ minerPc = "collect"
          /\ UNCHANGED <<dependsOn, dependers, destroyed, vtx>>
      BY <1>3 DEF Skip
    <2> QED BY <1>1, <2>1 DEF MinerInv, CollectPart
  <1>4. ASSUME NEW t \in Txs, AddToBlock(t) PROVE CollectPart'
    <2>1. /\ UNCHANGED vars /\ vtx' = Append(vtx, t) /\ minerPc = "collect" /\ t \in queue
          /\ dependers[t] \cap destroyed = {} /\ UNCHANGED <<dependers, destroyed>>
          /\ dependsOn' = [u \in Txs |-> IF u \in dependers[t] THEN dependsOn[u] \ {t} ELSE dependsOn[u]]
          /\ queue' = (queue \ {t}) \cup {u \in dependers[t] : dependsOn[u] = {t}}
      BY <1>4 DEF AddToBlock
    <2>2. /\ Idle /\ t \in mapTx /\ InPool(t) \subseteq ToSet(vtx) /\ t \notin ToSet(vtx)
          /\ \A u \in queue \cup ToSet(vtx) : u \in mapTx /\ InPool(u) \subseteq ToSet(vtx)
          /\ queue \cap ToSet(vtx) = {} /\ dependsOn \in [Txs -> SUBSET Txs]
          /\ \A u \in mapTx : Missing(u) = {} =>
                /\ dependsOn[u] = InPool(u) \ ToSet(vtx)
                /\ \A p \in InPool(u) : u \in dependers[p]
          /\ \A p \in Txs : \A u \in dependers[p] :
                u \in mapTx /\ p \in InPool(u) /\ (Missing(u) # {} => u \in destroyed)
          /\ \A u \in destroyed : u \in mapTx /\ Missing(u) # {}
      BY <2>1 DEF MinerInv, CollectPart
    <2>3. ToSet(vtx') = ToSet(vtx) \cup {t}
      <3>1. vtx \in Seq(Txs) /\ ToSet(<<t>>) = {t} /\ <<t>> \in Seq(Txs)
        BY DEF MinerInv, BlockPart, ToSet
      <3>2. Append(vtx, t) = vtx \o <<t>>
        BY <3>1
      <3>3. ToSet(vtx \o <<t>>) = ToSet(vtx) \cup ToSet(<<t>>)
        <4> DEFINE added == <<t>>
        <4>1. vtx \in Seq(Txs) /\ added \in Seq(Txs)
          BY <3>1
        <4> HIDE DEF added
        <4>2. ToSet(vtx \o added) = ToSet(vtx) \cup ToSet(added)
          BY <4>1, ConcatSet
        <4> QED BY <4>2 DEF added
      <3> QED BY <2>1, <3>1, <3>2, <3>3
    <2>4. ASSUME NEW u \in dependers[t], dependsOn[u] = {t}
          PROVE  u \in mapTx /\ InPool(u) \subseteq ToSet(vtx') /\ u \notin ToSet(vtx')
      <3>1. u \in mapTx /\ t \in InPool(u) /\ Missing(u) = {}
        BY <2>1, <2>2
      <3>2. InPool(u) \ ToSet(vtx) = {t}
        BY <2>2, <2>4, <3>1
      <3>3. u \notin ToSet(vtx) /\ u # t
        BY <2>2, <3>1
      <3> QED BY <2>3, <3>1, <3>2, <3>3
    <2>5. \A u \in queue' \cup ToSet(vtx') : u \in mapTx /\ InPool(u) \subseteq ToSet(vtx')
      BY <2>1, <2>2, <2>3, <2>4
    <2>6. queue' \cap ToSet(vtx') = {}
      BY <2>1, <2>2, <2>3, <2>4
    <2>7. ASSUME NEW u \in mapTx, Missing(u) = {} PROVE dependsOn'[u] = InPool(u) \ ToSet(vtx')
      <3>1. u \in dependers[t] <=> t \in InPool(u)
        BY <2>2, <2>7
      <3>2. dependsOn[u] = InPool(u) \ ToSet(vtx) /\ u \in Txs
        BY <1>0, <2>2, <2>7
      <3> QED BY <2>1, <2>3, <3>1, <3>2
    <2>8. dependsOn' \in [Txs -> SUBSET Txs]
      BY <2>1, <2>2
    <2>9. dependers' = dependers /\ destroyed' = destroyed
      BY <2>1
    <2> QED BY <1>1, <2>1, <2>2, <2>5, <2>6, <2>7, <2>8, <2>9 DEF CollectPart
  <1>5. CASE minerPc' # "collect"
    BY <1>5 DEF CollectPart
  <1>6. CASE UNCHANGED allVars
    <2>1. UNCHANGED vars /\ UNCHANGED minerVars
      BY <1>6 DEF allVars
    <2> QED BY <1>1, <2>1 DEF MinerInv, CollectPart, minerVars
  <1> QED BY <1>2, <1>3, <1>4, <1>5, <1>6
          DEF MinerNext, Miner, minerVars, ReadPrev, TouchDestroyed, EndOfCollect, NoKernel, Stale,
              CheckStake, StartOver

LEMMA UndefinedPartStep == MinerInv /\ [MinerNext]_allVars => UndefinedPart'
  <1> SUFFICES ASSUME MinerInv, [MinerNext]_allVars PROVE UndefinedPart'
    OBVIOUS
  <1>1. ASSUME UNCHANGED vars
        PROVE  mapTx' = mapTx /\ Idle' = Idle /\ \A t : Missing(t)' = Missing(t)
    BY <1>1 DEF vars, chain, pool, Idle, Missing, InChain
  <1>2. ASSUME NEW t \in Txs, TouchDestroyed(t) PROVE UndefinedPart'
    <2>1. /\ UNCHANGED vars /\ destroyed' = destroyed /\ minerPc = "collect"
          /\ dependers[t] \cap destroyed # {}
      BY <1>2 DEF TouchDestroyed
    <2>2. Idle /\ \A u \in destroyed : u \in mapTx /\ Missing(u) # {}
      BY <2>1 DEF MinerInv, CollectPart
    <2> QED BY <1>1, <2>1, <2>2 DEF UndefinedPart
  <1>3. CASE minerPc' # "undefined"
    BY <1>3 DEF UndefinedPart
  <1>4. CASE UNCHANGED allVars
    <2>1. UNCHANGED vars /\ UNCHANGED minerVars
      BY <1>4 DEF allVars
    <2> QED BY <1>1, <2>1 DEF MinerInv, UndefinedPart, minerVars
  <1> QED BY <1>2, <1>3, <1>4
          DEF MinerNext, Miner, minerVars, ReadPrev, ScanPool, Skip, AddToBlock, EndOfCollect,
              NoKernel, Stale, CheckStake, StartOver

(* The inductive invariant of the node and its staking thread together.      *)
THEOREM MinerInvariant == MinerSpec => []MinerInv
  <1>1. MinerInv /\ [MinerNext]_allVars => MinerInv'
    <2>1. MinerInv /\ [MinerNext]_allVars => MempoolInv'
      BY MinerNextIsNext, MempoolStep DEF MinerInv
    <2> QED BY <2>1, PrevPartStep, BlockPartStep, CollectPartStep, UndefinedPartStep DEF MinerInv
  <1> QED BY <1>1, MinerInitial, PTL DEF MinerSpec

(* The node beside the staking thread is the node of Mempool, so that the    *)
(* theorems above hold for it too.                                           *)
THEOREM MinerImplementsMempool == MinerSpec => Spec
  <1>1. MinerInit => Init
    BY DEF MinerInit
  <1> QED BY <1>1, MinerNextIsNext, PTL DEF MinerSpec, Spec

(* A block of our own that passes the check for staleness connects, although *)
(* its parent was read without the lock and the chain may have changed since;*)
(* but for one collected on another chain, whose parent a sync-checkpoint    *)
(* has brought back against its trust.                                       *)
THEOREM OwnBlockAlwaysConnects == MinerSpec => []OwnBlockConnects
  <1>1. MinerInv => OwnBlockConnects
    <2> SUFFICES ASSUME MinerInv, minerPc = "found", ~Connects(vtx, prev)
                 PROVE  collectedOn # prev /\ forcedSince
      BY DEF OwnBlockConnects
    <2>1. /\ prev = dbBest /\ collectedOn \in Blocks /\ collectedOn # prev
          /\ Trust[prev] < Trust[collectedOn] \/ forcedSince
          /\ Trust[collectedOn] < Trust[prev] \/ forcedSince
      BY DEF MinerInv, BlockPart
    <2>2. Trust[prev] \in Nat /\ Trust[collectedOn] \in Nat
      BY <2>1, TreeAssumption DEF MinerInv, MempoolInv, TypeOK
    <2> QED BY <2>1, <2>2
  <1> QED BY <1>1, MinerInvariant, PTL

(* CreateNewBlock processes the pool in order of dependency.                 *)
THEOREM CollectsInOrder == MinerSpec => []InOrderOfDependency
  <1>1. MinerInv => InOrderOfDependency
    BY DEF MinerInv, CollectPart, InOrderOfDependency
  <1> QED BY <1>1, MinerInvariant, PTL

(* A destroyed COrphan is only touched after a reorganization has lost a     *)
(* transaction that the pool still depends on.                               *)
THEOREM UndefinedNeedsLoss == MinerSpec => []UndefinedOnlyAfterLoss
  <1>1. MinerInv => UndefinedOnlyAfterLoss
    <2> SUFFICES ASSUME MinerInv, minerPc = "undefined"
                 PROVE  \E t \in destroyed : Missing(t) \cap lost # {}
      BY DEF UndefinedOnlyAfterLoss
    <2>1. PICK t \in destroyed : t \in mapTx /\ Missing(t) # {}
      BY DEF MinerInv, UndefinedPart
    <2>2. PICK p : p \in Missing(t)
      BY <2>1
    <2>3. PICK o \in Ins[t] : p = o[1] /\ p \notin InChain /\ p \notin mapTx
      BY <2>2 DEF Missing, Prevs
    <2>4. p \in lost
      BY <2>1, <2>3 DEF MinerInv, MempoolInv, ChainPart
    <2> QED BY <2>2, <2>4
  <1> QED BY <1>1, MinerInvariant, PTL
=============================================================================
