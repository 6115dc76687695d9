--------------------------- MODULE AddrManProofs ----------------------------
(***************************************************************************)
(* Check_ of addrman.cpp holds after every call, for any numbers and sizes *)
(* of buckets: the tables of addresses, their indexes and counters agree,  *)
(* no bucket overflows, a tried host is not forgotten at once and loading  *)
(* peers.dat gives back what was saved.                                    *)
(***************************************************************************)
EXTENDS AddrMan, FunctionTheorems, FiniteSetTheorems, WellFoundedInduction, TLAPS

-----------------------------------------------------------------------------
(* The parts of the invariant, of tables that need not be the current ones.  *)

NewOf(new, n) == {b \in NewBuckets : n \in new[b]}
TriedOf(info) == {n \in DOMAIN info : info[n].fInTried}
UntriedOf(info) == {n \in DOMAIN info : ~info[n].fInTried}

(* Ids and places of vRandom lead to each other.                             *)
Positions(info, random) ==
    /\ random \in Seq(DOMAIN info)
    /\ \A n \in DOMAIN info :
          info[n].nRandomPos \in 1..Len(random) /\ random[info[n].nRandomPos] = n
    /\ \A i \in 1..Len(random) : info[random[i]].nRandomPos = i

(* Ids and hosts lead to each other.                                         *)
Hosted(info, byHost) ==
    /\ byHost \in [Hosts -> DOMAIN info \cup {NoId}]
    /\ \A n \in DOMAIN info : byHost[Host[info[n].addr]] = n
    /\ \A h \in Hosts : byHost[h] # NoId => Host[info[byHost[h]].addr] = h

(* Reference counts.  That of "id", which Add_ is about to put into a        *)
(* bucket, is one ahead.                                                     *)
Counted(info, new, id) ==
    /\ new \in [NewBuckets -> SUBSET DOMAIN info]
    /\ \A n \in DOMAIN info :
          info[n].nRefCount = Cardinality(NewOf(new, n)) + (IF n = id THEN 1 ELSE 0)

(* Every entry is either in its tried bucket or in some new ones.            *)
Sorted(info, new) ==
    \A n \in DOMAIN info :
        IF info[n].fInTried
        THEN NewOf(new, n) = {} /\ InTried(n) = {TriedBucket[info[n].addr]}
        ELSE info[n].nRefCount \in 1..MaxRefs /\ InTried(n) = {}

Numbered(info, random, new) ==
    /\ IsFiniteSet(DOMAIN info) /\ new \in Nat
    /\ Len(random) = nTried + new
    /\ Cardinality(TriedOf(info)) = nTried
    /\ Cardinality(UntriedOf(info)) = new

Typed(info) ==
    /\ DOMAIN info \subseteq Nat
    /\ info \in [DOMAIN info -> Info]
    /\ vvTried \in [TriedBuckets -> SUBSET DOMAIN info]

Bounded(new) == \A b \in NewBuckets : Cardinality(new[b]) <= NewSize

Tidy(info, byHost, random, new, nn, id) ==
    /\ Typed(info)
    /\ Positions(info, random)
    /\ Hosted(info, byHost)
    /\ Counted(info, new, id)
    /\ Sorted(info, new)
    /\ Numbered(info, random, nn)
    /\ Bounded(new)

(* The inductive invariant.                                                  *)
AddrInv ==
    /\ Tidy(mapInfo, mapAddr, vRandom, vvNew, nNew, NoId)
    /\ nIdCount \in 0..MaxIds /\ Ids \subseteq 0..(nIdCount - 1)
    /\ \A k \in TriedBuckets : Cardinality(vvTried[k]) <= TriedSize

-----------------------------------------------------------------------------
(* Positions.                                                                *)

LEMMA FunctionIsSeq ==
    ASSUME NEW X, NEW k \in Nat, NEW f \in [1..k -> X]
    PROVE  f \in Seq(X) /\ Len(f) = k
  OBVIOUS

(* Two tables of entries that differ in the positions only.                  *)
SameEntries(info, other) ==
    /\ DOMAIN other = DOMAIN info
    /\ \A n \in DOMAIN info :
          /\ other[n].addr = info[n].addr /\ other[n].source = info[n].source
          /\ other[n].nRefCount = info[n].nRefCount /\ other[n].fInTried = info[n].fInTried

(* An entry with another position or another reference count.                *)
LEMMA MovedEntry ==
    ASSUME NEW r \in Info, NEW k \in Nat
    PROVE  LET e == [r EXCEPT !.nRandomPos = k] IN
           /\ e \in Info /\ e.addr = r.addr /\ e.source = r.source
           /\ e.nRefCount = r.nRefCount /\ e.fInTried = r.fInTried /\ e.nRandomPos = k
  BY DEF Info

LEMMA RecountedEntry ==
    ASSUME NEW r \in Info, NEW k \in Nat
    PROVE  LET e == [r EXCEPT !.nRefCount = k] IN
           /\ e \in Info /\ e.addr = r.addr /\ e.source = r.source
           /\ e.nRefCount = k /\ e.fInTried = r.fInTried /\ e.nRandomPos = r.nRandomPos
  BY DEF Info

LEMMA SwapPositions ==
    ASSUME NEW D, NEW info \in [D -> Info], NEW random, Positions(info, random),
           NEW p \in 1..Len(random), NEW q \in 1..Len(random)
    PROVE  LET s == SwapRandom(info, random, p, q) IN
           /\ s.info \in [D -> Info] /\ SameEntries(info, s.info)
           /\ Positions(s.info, s.random) /\ Len(s.random) = Len(random)
           /\ \A i \in 1..Len(random) :
                 s.random[i] = IF i = q THEN random[p] ELSE IF i = p THEN random[q] ELSE random[i]
           /\ \A n \in D : s.info[n].nRandomPos =
                 IF n = random[p] THEN q ELSE IF n = random[q] THEN p ELSE info[n].nRandomPos
  <1> DEFINE s == SwapRandom(info, random, p, q)
             L == Len(random)
  <1>0. /\ DOMAIN info = D /\ random \in Seq(D) /\ L \in Nat
        /\ random \in [1..L -> D]
        /\ \A i \in 1..L : random[i] \in D /\ info[random[i]].nRandomPos = i
        /\ \A n \in D : info[n].nRandomPos \in 1..L /\ random[info[n].nRandomPos] = n
    BY DEF Positions
  <1>1. s.info = [n \in D |->
                  IF n = random[p] THEN [info[n] EXCEPT !.nRandomPos = q]
                  ELSE IF n = random[q] THEN [info[n] EXCEPT !.nRandomPos = p]
                  ELSE info[n]]
    BY <1>0 DEF SwapRandom
  <1>2. s.random = [random EXCEPT ![p] = random[q], ![q] = random[p]]
    BY DEF SwapRandom
  <1>3. s.random \in [1..L -> D]
    BY <1>0, <1>2
  <1>4. s.random \in Seq(D) /\ Len(s.random) = L
    BY <1>0, <1>3, FunctionIsSeq
  <1>5. \A i \in 1..L :
           s.random[i] = IF i = q THEN random[p] ELSE IF i = p THEN random[q] ELSE random[i]
    BY <1>0, <1>2
  <1>6. \A n \in D : /\ s.info[n] \in Info
                     /\ s.info[n].addr = info[n].addr /\ s.info[n].source = info[n].source
                     /\ s.info[n].nRefCount = info[n].nRefCount
                     /\ s.info[n].fInTried = info[n].fInTried
                     /\ s.info[n].nRandomPos = IF n = random[p] THEN q
                                               ELSE IF n = random[q] THEN p ELSE info[n].nRandomPos
    <2> SUFFICES ASSUME NEW n \in D
                 PROVE  /\ s.info[n] \in Info
                        /\ s.info[n].addr = info[n].addr /\ s.info[n].source = info[n].source
                        /\ s.info[n].nRefCount = info[n].nRefCount
                        /\ s.info[n].fInTried = info[n].fInTried
                        /\ s.info[n].nRandomPos = IF n = random[p] THEN q
                                                  ELSE IF n = random[q] THEN p ELSE info[n].nRandomPos
      OBVIOUS
    <2>0. info[n] \in Info /\ p \in Nat /\ q \in Nat
      BY <1>0
    <2> HIDE DEF s
    <2>1. CASE n = random[p]
      <3>1. s.info[n] = [info[n] EXCEPT !.nRandomPos = q]
        BY <1>1, <2>1
      <3> QED BY <2>0, <2>1, <3>1, MovedEntry
    <2>2. CASE n # random[p] /\ n = random[q]
      <3>1. s.info[n] = [info[n] EXCEPT !.nRandomPos = p]
        BY <1>1, <2>2
      <3> QED BY <2>0, <2>2, <3>1, MovedEntry
    <2>3. CASE n # random[p] /\ n # random[q]
      <3>1. s.info[n] = info[n]
        BY <1>1, <2>3
      <3> QED BY <2>0, <2>3, <3>1
    <2> QED BY <2>1, <2>2, <2>3
  <1>7. s.info \in [D -> Info] /\ DOMAIN s.info = D
    BY <1>1, <1>6
  <1> HIDE DEF s
  <1>8. \A n \in D : s.info[n].nRandomPos \in 1..L /\ s.random[s.info[n].nRandomPos] = n
    BY <1>0, <1>5, <1>6
  <1>9. \A i \in 1..L : s.info[s.random[i]].nRandomPos = i
    BY <1>0, <1>5, <1>6
  <1>10. Positions(s.info, s.random)
    BY <1>4, <1>7, <1>8, <1>9 DEF Positions
  <1>11. SameEntries(info, s.info)
    BY <1>0, <1>6, <1>7 DEF SameEntries
  <1> QED BY <1>4, <1>5, <1>6, <1>7, <1>10, <1>11 DEF s

-----------------------------------------------------------------------------
(* GetAddr_.                                                                 *)

(* A set of natural numbers that is not empty has a least element: the       *)
(* inductions below look at the least counterexample.                        *)
LEMMA LeastNat ==
    ASSUME NEW T \in SUBSET Nat, T # {}
    PROVE  \E k \in T : \A j \in T : k <= j
  <1>1. PICK k \in T : \A j \in T : ~(<<j, k>> \in OpToRel(<, Nat))
    BY WFMin, NatLessThanWellFounded, Zenon
  <1>2. ASSUME NEW j \in T, ~(k <= j) PROVE FALSE
    <2>1. j < k /\ j \in Nat /\ k \in Nat
      BY <1>2
    <2>2. <<j, k>> \in OpToRel(<, Nat)
      BY <2>1, Zenon DEF OpToRel
    <2> QED BY <1>1, <2>2, Zenon
  <1> QED BY <1>2

(* The function that Shuffled is defined by.                                 *)
Shuffles(pick, f, k) ==
    f = [n \in 0..k |->
            IF n = 0 THEN [info |-> mapInfo, random |-> vRandom]
            ELSE SwapRandom(f[n - 1].info, f[n - 1].random, n, pick[n])]

LEMMA ShuffleExists ==
    ASSUME NEW pick, NEW k \in Nat
    PROVE  \E f : Shuffles(pick, f, k)
  <1> DEFINE Without == {j \in Nat : ~\E f : Shuffles(pick, f, j)}
  <1> SUFFICES ASSUME Without # {} PROVE FALSE
    OBVIOUS
  <1>1. PICK j \in Without : \A i \in Without : j <= i
    BY LeastNat
  <1>2. ~\E f : Shuffles(pick, f, j)
    BY <1>1
  <1>3. CASE j = 0
    <2> DEFINE f == [n \in 0..0 |-> [info |-> mapInfo, random |-> vRandom]]
    <2>1. f = [n \in 0..0 |->
                 IF n = 0 THEN [info |-> mapInfo, random |-> vRandom]
                 ELSE SwapRandom(f[n - 1].info, f[n - 1].random, n, pick[n])]
      OBVIOUS
    <2> HIDE DEF f
    <2>2. Shuffles(pick, f, 0)
      BY <2>1 DEF Shuffles
    <2> QED BY <1>2, <1>3, <2>2
  <1>4. CASE j # 0
    <2>1. j - 1 \in Nat /\ j \in Nat
      BY <1>1, <1>4
    <2>2. PICK g : Shuffles(pick, g, j - 1)
      BY <1>1, <2>1
    <2> DEFINE f == [n \in 0..j |->
                       IF n = 0 THEN [info |-> mapInfo, random |-> vRandom]
                       ELSE SwapRandom(g[n - 1].info, g[n - 1].random, n, pick[n])]
    <2>3. \A n \in 0..j - 1 :
             g[n] = IF n = 0 THEN [info |-> mapInfo, random |-> vRandom]
                    ELSE SwapRandom(g[n - 1].info, g[n - 1].random, n, pick[n])
      BY <2>2 DEF Shuffles
    <2>4. \A n \in 0..j - 1 : f[n] = g[n]
      BY <2>1, <2>3
    <2>5. \A n \in 0..j : n # 0 => n - 1 \in 0..j - 1
      BY <2>1
    <2>6. \A n \in 0..j : n # 0 => f[n - 1] = g[n - 1]
      BY <2>4, <2>5
    <2>7. f = [n \in 0..j |->
                 IF n = 0 THEN [info |-> mapInfo, random |-> vRandom]
                 ELSE SwapRandom(f[n - 1].info, f[n - 1].random, n, pick[n])]
      BY <2>6, Zenon
    <2> HIDE DEF f
    <2>8. Shuffles(pick, f, j)
      BY <2>7 DEF Shuffles
    <2> QED BY <1>2, <2>8
  <1> QED BY <1>3, <1>4

(* A shuffle changes positions only, and keeps them right.                   *)
LEMMA ShuffledFacts ==
    ASSUME NEW D, mapInfo \in [D -> Info], Positions(mapInfo, vRandom),
           NEW pick \in [1..nNodes -> 1..Len(vRandom)], nNodes \in 0..Len(vRandom)
    PROVE  LET s == Shuffled(pick) IN
           /\ s.info \in [D -> Info] /\ SameEntries(mapInfo, s.info)
           /\ Positions(s.info, s.random) /\ Len(s.random) = Len(vRandom)
  <1> DEFINE L == Len(vRandom)
             base == [info |-> mapInfo, random |-> vRandom]
             f == CHOOSE g : Shuffles(pick, g, L)
             sound(s) == /\ s.info \in [D -> Info] /\ SameEntries(mapInfo, s.info)
                         /\ Positions(s.info, s.random) /\ Len(s.random) = L
             bad == {n \in Nat : n <= nNodes /\ ~sound(f[n])}
  <1>0. L \in Nat /\ nNodes \in Nat
    BY DEF Positions
  <1>1. Shuffled(pick) = f[nNodes]
    BY DEF Shuffled, Shuffles
  <1>2. Shuffles(pick, f, L)
    BY <1>0, ShuffleExists
  <1>3. \A n \in 0..L : f[n] = IF n = 0 THEN base
                               ELSE SwapRandom(f[n - 1].info, f[n - 1].random, n, pick[n])
    BY <1>2 DEF Shuffles
  <1> HIDE DEF f
  <1>4. sound(base)
    BY DEF SameEntries
  <1>5. ASSUME bad # {} PROVE FALSE
    <2>1. PICK n \in bad : \A m \in bad : n <= m
      BY <1>5, LeastNat
    <2>2. n \in Nat /\ n <= nNodes /\ ~sound(f[n]) /\ n \in 0..L
      BY <1>0, <2>1
    <2>3. n # 0
      BY <1>0, <1>3, <1>4, <2>2
    <2>4. n - 1 \in Nat /\ n - 1 <= nNodes /\ n - 1 \notin bad
      BY <1>0, <2>1, <2>2, <2>3
    <2>5. sound(f[n - 1])
      BY <2>4
    <2>6. n \in 1..L /\ pick[n] \in 1..L
      BY <1>0, <2>2, <2>3
    <2> DEFINE i == f[n - 1].info
               r == f[n - 1].random
    <2>7. f[n] = SwapRandom(i, r, n, pick[n])
      BY <1>3, <2>2, <2>3
    <2>8. i \in [D -> Info] /\ Positions(i, r) /\ n \in 1..Len(r) /\ pick[n] \in 1..Len(r)
      BY <2>5, <2>6
    <2> HIDE DEF i, r
    <2>9. /\ f[n].info \in [D -> Info] /\ SameEntries(i, f[n].info)
          /\ Positions(f[n].info, f[n].random) /\ Len(f[n].random) = Len(r)
      BY <2>7, <2>8, SwapPositions
    <2>10. SameEntries(mapInfo, f[n].info)
      BY <2>5, <2>9 DEF SameEntries, i
    <2> QED BY <2>2, <2>5, <2>9, <2>10 DEF r
  <1>6. sound(f[nNodes])
    BY <1>0, <1>5
  <1> QED BY <1>1, <1>6

LEMMA NodesBounded ==
    ASSUME Len(vRandom) \in Nat
    PROVE  nNodes \in 0..Len(vRandom)
  <1> DEFINE L == Len(vRandom)
             share == (GetAddrPct * L) \div 100
  <1>1. GetAddrPct \in Nat /\ GetAddrPct <= 100 /\ GetAddrMax \in Nat /\ L \in Nat
    BY SizeAssumption
  <1> HIDE DEF L
  <1>2. GetAddrPct * L \in Nat /\ GetAddrPct * L <= 100 * L
    BY <1>1
  <1>3. \A x \in Nat : x <= 100 * L => x \div 100 \in 0..L
    BY <1>1
  <1>4. share \in 0..L
    BY <1>2, <1>3
  <1> QED BY <1>1, <1>4 DEF nNodes, L

-----------------------------------------------------------------------------
(* Add_ and ShrinkNew.                                                       *)

LEMMA NewOfFinite ==
    ASSUME NEW new, NEW n
    PROVE  IsFiniteSet(NewOf(new, n)) /\ Cardinality(NewOf(new, n)) \in Nat
  <1>1. NewOf(new, n) \in SUBSET NewBuckets
    BY DEF NewOf
  <1> QED BY <1>1, BucketAssumption, FS_Subset, FS_CardinalityType

LEMMA TidyFacts ==
    ASSUME NEW info, NEW byHost, NEW random, NEW new, NEW nn, NEW id,
           Tidy(info, byHost, random, new, nn, id)
    PROVE  /\ \A n \in DOMAIN info : /\ n \in Nat /\ n # NoId /\ info[n] \in Info
                                     /\ Host[info[n].addr] \in Hosts
           /\ \A b \in NewBuckets : /\ IsFiniteSet(new[b]) /\ Cardinality(new[b]) \in Nat
                                    /\ new[b] \in SUBSET DOMAIN info
           /\ IsFiniteSet(TriedOf(info)) /\ IsFiniteSet(UntriedOf(info))
           /\ Len(random) \in Nat /\ nTried \in Nat
  <1>1. IsFiniteSet(DOMAIN info)
    BY DEF Tidy, Numbered
  <1>2. /\ TriedOf(info) \in SUBSET DOMAIN info /\ UntriedOf(info) \in SUBSET DOMAIN info
        /\ \A b \in NewBuckets : new[b] \in SUBSET DOMAIN info
    BY DEF Tidy, Counted, TriedOf, UntriedOf
  <1>3. \A n \in DOMAIN info : n \in Nat /\ n # NoId /\ info[n] \in Info
    BY DEF Tidy, Typed, NoId
  <1>4. \A n \in DOMAIN info : Host[info[n].addr] \in Hosts
    BY <1>3 DEF Hosts, Info
  <1>5. Len(random) \in Nat
    BY DEF Tidy, Positions
  <1>6. IsFiniteSet(TriedOf(info)) /\ IsFiniteSet(UntriedOf(info))
    BY <1>1, <1>2, FS_Subset
  <1>7. nTried \in Nat
    BY <1>6, FS_CardinalityType DEF Tidy, Numbered
  <1> QED BY <1>1, <1>2, <1>3, <1>4, <1>5, <1>6, <1>7, FS_Subset, FS_CardinalityType

(* A bucket loses or gains an entry: what that does to NewOf.                *)
Loses(new, b, x, less) == less = [new EXCEPT ![b] = new[b] \ {x}]
Gains(new, b, x, more) == more = [new EXCEPT ![b] = new[b] \cup {x}]

(* Entries that differ in the reference counts only.                         *)
Recounts(info, other) ==
    /\ other \in [DOMAIN info -> Info]
    /\ \A n \in DOMAIN info :
          /\ other[n].addr = info[n].addr /\ other[n].fInTried = info[n].fInTried
          /\ other[n].nRandomPos = info[n].nRandomPos

LEMMA RecountKeeps ==
    ASSUME NEW info, NEW byHost, NEW random, NEW nn, NEW other, Recounts(info, other),
           Typed(info), Positions(info, random), Hosted(info, byHost), Numbered(info, random, nn)
    PROVE  /\ DOMAIN other = DOMAIN info
           /\ Typed(other) /\ Positions(other, random) /\ Hosted(other, byHost)
           /\ Numbered(other, random, nn)
           /\ TriedOf(other) = TriedOf(info)
  <1>1. DOMAIN other = DOMAIN info
    BY DEF Recounts
  <1>2. TriedOf(other) = TriedOf(info) /\ UntriedOf(other) = UntriedOf(info)
    BY <1>1 DEF Recounts, TriedOf, UntriedOf
  <1>3. Positions(other, random)
    <2>1. \A n \in DOMAIN info : other[n].nRandomPos = info[n].nRandomPos
      BY <1>1 DEF Recounts
    <2>2. \A i \in 1..Len(random) : random[i] \in DOMAIN info
      BY DEF Positions
    <2> QED BY <1>1, <2>1, <2>2 DEF Positions
  <1>4. Hosted(other, byHost)
    <2>1. \A n \in DOMAIN info : other[n].addr = info[n].addr
      BY <1>1 DEF Recounts
    <2>2. \A h \in Hosts : byHost[h] # NoId => byHost[h] \in DOMAIN info
      BY DEF Hosted
    <2> QED BY <1>1, <2>1, <2>2 DEF Hosted
  <1>5. Typed(other)
    BY <1>1 DEF Typed, Recounts
  <1>6. Numbered(other, random, nn)
    BY <1>1, <1>2 DEF Numbered
  <1> QED BY <1>1, <1>2, <1>3, <1>4, <1>5, <1>6

LEMMA WithRefsFacts ==
    ASSUME NEW D, NEW info \in [D -> Info], NEW x \in D, NEW k \in Nat
    PROVE  /\ Recounts(info, WithRefs(info, x, k))
           /\ \A n \in D : WithRefs(info, x, k)[n].nRefCount =
                              IF n = x THEN k ELSE info[n].nRefCount
  <1>1. \A n \in D : WithRefs(info, x, k)[n] =
                        IF n = x THEN [info[n] EXCEPT !.nRefCount = k] ELSE info[n]
    BY DEF WithRefs
  <1>2. ASSUME NEW n \in D
        PROVE  LET e == WithRefs(info, x, k)[n] IN
               /\ e \in Info
               /\ e.addr = info[n].addr /\ e.source = info[n].source
               /\ e.fInTried = info[n].fInTried /\ e.nRandomPos = info[n].nRandomPos
               /\ e.nRefCount = IF n = x THEN k ELSE info[n].nRefCount
    <2>0. info[n] \in Info
      OBVIOUS
    <2>1. CASE n = x
      <3>1. WithRefs(info, x, k)[n] = [info[n] EXCEPT !.nRefCount = k]
        BY <1>1, <2>1
      <3> QED BY <2>0, <2>1, <3>1, RecountedEntry
    <2>2. CASE n # x
      <3>1. WithRefs(info, x, k)[n] = info[n]
        BY <1>1, <2>2
      <3> QED BY <2>0, <2>2, <3>1
    <2> QED BY <2>1, <2>2
  <1>3. WithRefs(info, x, k) \in [D -> Info]
    <2>1. DOMAIN WithRefs(info, x, k) = D /\ WithRefs(info, x, k) = [n \in D |-> WithRefs(info, x, k)[n]]
      BY DEF WithRefs
    <2> QED BY <1>2, <2>1
  <1> QED BY <1>2, <1>3 DEF Recounts

(* The reference count of id is raised before it enters the bucket.          *)
LEMMA CountTidy ==
    ASSUME NEW info, NEW byHost, NEW random, NEW new, NEW nn,
           Tidy(info, byHost, random, new, nn, NoId), NEW id \in DOMAIN info,
           ~info[id].fInTried, info[id].nRefCount # MaxRefs
    PROVE  LET other == WithRefs(info, id, info[id].nRefCount + 1) IN
           /\ Recounts(info, other) /\ DOMAIN other = DOMAIN info
           /\ TriedOf(other) = TriedOf(info)
           /\ Tidy(other, byHost, random, new, nn, id)
  <1> DEFINE D == DOMAIN info
             other == WithRefs(info, id, info[id].nRefCount + 1)
  <1>1. info \in [D -> Info] /\ info[id].nRefCount + 1 \in Nat
    BY DEF Tidy, Typed, Info
  <1>2. /\ Recounts(info, other)
        /\ \A n \in D : other[n].nRefCount =
              IF n = id THEN info[id].nRefCount + 1 ELSE info[n].nRefCount
    BY <1>1, WithRefsFacts
  <1> HIDE DEF other
  <1>3. \A n \in D : other[n].addr = info[n].addr /\ other[n].fInTried = info[n].fInTried
    BY <1>2 DEF Recounts
  <1>4. /\ DOMAIN other = D
        /\ Typed(other) /\ Positions(other, random) /\ Hosted(other, byHost)
        /\ Numbered(other, random, nn) /\ TriedOf(other) = TriedOf(info)
    BY <1>2, RecountKeeps DEF Tidy
  <1>5. Counted(other, new, id)
    <2>1. \A n \in D : info[n].nRefCount = Cardinality(NewOf(new, n))
      <3>1. \A n \in D : n # NoId
        BY TidyFacts
      <3>2. \A n \in D : Cardinality(NewOf(new, n)) \in Nat
        BY NewOfFinite
      <3> QED BY <3>1, <3>2 DEF Tidy, Counted
    <2>2. new \in [NewBuckets -> SUBSET D]
      BY DEF Tidy, Counted
    <2> QED BY <1>2, <1>4, <2>1, <2>2, NewOfFinite DEF Counted
  <1>6. Sorted(other, new)
    <2> SUFFICES ASSUME NEW n \in D
                 PROVE  IF other[n].fInTried
                        THEN NewOf(new, n) = {} /\ InTried(n) = {TriedBucket[other[n].addr]}
                        ELSE other[n].nRefCount \in 1..MaxRefs /\ InTried(n) = {}
      BY <1>4 DEF Sorted
    <2>1. IF info[n].fInTried
          THEN NewOf(new, n) = {} /\ InTried(n) = {TriedBucket[info[n].addr]}
          ELSE info[n].nRefCount \in 1..MaxRefs /\ InTried(n) = {}
      BY DEF Tidy, Sorted
    <2>2. CASE n = id
      <3>1. info[id].nRefCount \in 1..MaxRefs /\ InTried(n) = {}
        BY <2>1, <2>2
      <3>2. MaxRefs \in Nat
        BY SizeAssumption
      <3>3. other[n].nRefCount \in 1..MaxRefs
        BY <1>2, <2>2, <3>1, <3>2
      <3>4. ~other[n].fInTried
        BY <1>3, <2>2
      <3> QED BY <3>1, <3>3, <3>4
    <2>3. CASE n # id
      <3>1. other[n].nRefCount = info[n].nRefCount
        BY <1>2, <2>3
      <3> QED BY <1>3, <2>1, <3>1
    <2> QED BY <2>2, <2>3
  <1> QED BY <1>2, <1>4, <1>5, <1>6 DEF Tidy, other

(* The bucket gives up an entry that is in others too.                       *)
LEMMA ShrinkTidy ==
    ASSUME NEW info, NEW byHost, NEW random, NEW new, NEW nn, NEW id,
           Tidy(info, byHost, random, new, nn, id),
           NEW b \in NewBuckets, NEW v \in new[b], v # id,
           info[v].nRefCount - 1 # 0, NEW other, NEW less,
           other = WithRefs(info, v, info[v].nRefCount - 1),
           Loses(new, b, v, less)
    PROVE  /\ Recounts(info, other) /\ DOMAIN other = DOMAIN info
           /\ TriedOf(other) = TriedOf(info)
           /\ Tidy(other, byHost, random, less, nn, id)
  <1> DEFINE D == DOMAIN info
  <1>1. new \in [NewBuckets -> SUBSET D] /\ v \in D /\ info \in [D -> Info]
    BY DEF Tidy, Counted, Typed
  <1>2. b \in NewOf(new, v)
    BY DEF NewOf
  <1>3. \A n \in D : IF info[n].fInTried
                     THEN NewOf(new, n) = {} /\ InTried(n) = {TriedBucket[info[n].addr]}
                     ELSE info[n].nRefCount \in 1..MaxRefs /\ InTried(n) = {}
    BY DEF Tidy, Sorted
  <1>4. MaxRefs \in Nat /\ NewSize \in Nat
    BY SizeAssumption
  <1>5. /\ ~info[v].fInTried /\ InTried(v) = {}
        /\ info[v].nRefCount - 1 \in Nat /\ info[v].nRefCount - 1 \in 1..MaxRefs
    BY <1>1, <1>2, <1>3, <1>4
  <1>6. /\ Recounts(info, other)
        /\ \A n \in D : other[n].nRefCount =
              IF n = v THEN info[v].nRefCount - 1 ELSE info[n].nRefCount
    BY <1>1, <1>5, WithRefsFacts
  <1>7. /\ less \in [NewBuckets -> SUBSET D]
        /\ \A c \in NewBuckets : less[c] = IF c = b THEN new[b] \ {v} ELSE new[c]
        /\ NewOf(less, v) = NewOf(new, v) \ {b}
        /\ \A n \in D \ {v} : NewOf(less, n) = NewOf(new, n)
    BY <1>1 DEF NewOf, Loses
  <1>8. \A n \in D : other[n].addr = info[n].addr /\ other[n].fInTried = info[n].fInTried
    BY <1>6 DEF Recounts
  <1>9. /\ DOMAIN other = D
        /\ Typed(other) /\ Positions(other, random) /\ Hosted(other, byHost)
        /\ Numbered(other, random, nn) /\ TriedOf(other) = TriedOf(info)
    BY <1>6, RecountKeeps DEF Tidy
  <1>10. Counted(other, less, id)
    <2>1. Cardinality(NewOf(less, v)) = Cardinality(NewOf(new, v)) - 1
      <3>1. IsFiniteSet(NewOf(new, v))
        BY NewOfFinite
      <3> QED BY <1>2, <1>7, <3>1, FS_RemoveElement
    <2>2. \A n \in D : info[n].nRefCount =
                          Cardinality(NewOf(new, n)) + (IF n = id THEN 1 ELSE 0)
      BY DEF Tidy, Counted
    <2>3. \A n \in D : Cardinality(NewOf(new, n)) \in Nat
      BY NewOfFinite
    <2>4. ASSUME NEW n \in D
          PROVE  other[n].nRefCount = Cardinality(NewOf(less, n)) + (IF n = id THEN 1 ELSE 0)
      <3>1. CASE n = v
        BY <1>6, <2>1, <2>2, <2>3, <3>1
      <3>2. CASE n # v
        BY <1>6, <1>7, <2>2, <3>2
      <3> QED BY <3>1, <3>2
    <2> QED BY <1>7, <1>9, <2>4 DEF Counted
  <1>11. Sorted(other, less)
    <2> SUFFICES ASSUME NEW n \in D
                 PROVE  IF other[n].fInTried
                        THEN NewOf(less, n) = {} /\ InTried(n) = {TriedBucket[other[n].addr]}
                        ELSE other[n].nRefCount \in 1..MaxRefs /\ InTried(n) = {}
      BY <1>9 DEF Sorted
    <2>1. CASE n = v
      <3>1. ~other[n].fInTried
        BY <1>1, <1>5, <1>8, <2>1
      <3>2. other[n].nRefCount \in 1..MaxRefs
        BY <1>5, <1>6, <2>1
      <3> QED BY <1>5, <2>1, <3>1, <3>2
    <2>2. CASE n # v
      <3>1. other[n].nRefCount = info[n].nRefCount /\ NewOf(less, n) = NewOf(new, n)
        BY <1>6, <1>7, <2>2
      <3> QED BY <1>3, <1>8, <3>1
    <2> QED BY <2>1, <2>2
  <1>12. Bounded(less)
    <2>1. IsFiniteSet(new[b]) /\ Cardinality(new[b]) \in Nat
      BY TidyFacts
    <2>2. Cardinality(new[b] \ {v}) = Cardinality(new[b]) - 1
      BY <2>1, FS_RemoveElement
    <2>3. \A c \in NewBuckets : Cardinality(new[c]) <= NewSize
      BY DEF Tidy, Bounded
    <2>4. ASSUME NEW c \in NewBuckets PROVE Cardinality(less[c]) <= NewSize
      <3>1. CASE c = b
        <4>1. less[c] = new[b] \ {v}
          BY <1>7, <3>1
        <4>2. Cardinality(less[c]) = Cardinality(new[b]) - 1
          BY <2>2, <4>1, Zenon
        <4> QED BY <1>4, <2>1, <2>3, <4>2
      <3>2. CASE c # b
        BY <1>7, <2>3, <3>2
      <3> QED BY <3>1, <3>2
    <2> QED BY <2>4 DEF Bounded
  <1> QED BY <1>6, <1>9, <1>10, <1>11, <1>12 DEF Tidy

(* The entry v is swapped to the end and cut off.                            *)
Cuts(info, random, v, left, cut) ==
    LET s == SwapRandom(info, random, info[v].nRandomPos, Len(random)) IN
    /\ left = [n \in DOMAIN info \ {v} |-> s.info[n]]
    /\ cut = SubSeq(s.random, 1, Len(random) - 1)

LEMMA CutPositions ==
    ASSUME NEW info, info \in [DOMAIN info -> Info], NEW random, Positions(info, random),
           NEW v \in DOMAIN info, NEW cut, NEW left, Cuts(info, random, v, left, cut)
    PROVE  /\ DOMAIN left = DOMAIN info \ {v} /\ left \in [DOMAIN info \ {v} -> Info]
           /\ \A n \in DOMAIN info \ {v} :
                 /\ left[n].addr = info[n].addr /\ left[n].fInTried = info[n].fInTried
                 /\ left[n].nRefCount = info[n].nRefCount
           /\ Positions(left, cut) /\ Len(cut) = Len(random) - 1
  <1> DEFINE D == DOMAIN info
             E == D \ {v}
             L == Len(random)
             p == info[v].nRandomPos
             s == SwapRandom(info, random, p, L)
             si == s.info
             sr == s.random
  <1>1. /\ L \in Nat /\ p \in 1..L /\ L \in 1..L /\ random[p] = v
    BY DEF Positions
  <1>2. /\ si \in [D -> Info] /\ SameEntries(info, si)
        /\ Positions(si, sr) /\ Len(sr) = L
        /\ \A i \in 1..L : sr[i] = IF i = L THEN random[p] ELSE IF i = p THEN random[L] ELSE random[i]
    BY <1>1, SwapPositions
  <1> HIDE DEF si, sr
  <1>3. left = [n \in E |-> si[n]] /\ cut = SubSeq(sr, 1, L - 1)
    BY DEF si, sr, Cuts
  <1>4. /\ DOMAIN left = E /\ left \in [E -> Info]
        /\ \A n \in E : left[n] = si[n]
    BY <1>2, <1>3
  <1>5. \A n \in E : /\ left[n].addr = info[n].addr
                     /\ left[n].fInTried = info[n].fInTried
                     /\ left[n].nRefCount = info[n].nRefCount
    BY <1>2, <1>4 DEF SameEntries
  <1>6. /\ sr \in Seq(D) /\ DOMAIN si = D
        /\ \A n \in D : si[n].nRandomPos \in 1..L /\ sr[si[n].nRandomPos] = n
        /\ \A i \in 1..L : sr[i] \in D /\ si[sr[i]].nRandomPos = i
    BY <1>2 DEF Positions
  <1>7. sr[L] = v /\ si[v].nRandomPos = L
    BY <1>1, <1>2, <1>6
  <1>8. \A n \in E : si[n].nRandomPos \in 1..L - 1
    BY <1>1, <1>6, <1>7
  <1>9. \A i \in 1..L - 1 : i \in 1..L /\ sr[i] \in E
    BY <1>1, <1>6, <1>7
  <1>10. /\ Len(cut) = L - 1
         /\ \A i \in 1..L - 1 : cut[i] = sr[i]
         /\ cut = [i \in 1..L - 1 |-> sr[i]]
    BY <1>1, <1>2, <1>3, <1>6
  <1>11. cut \in Seq(E)
    <2>1. cut \in [1..L - 1 -> E]
      BY <1>9, <1>10, Zenon
    <2>2. L - 1 \in Nat
      BY <1>1
    <2> QED BY <2>1, <2>2, FunctionIsSeq
  <1>12. Positions(left, cut)
    <2>1. \A n \in E : left[n].nRandomPos \in 1..Len(cut) /\ cut[left[n].nRandomPos] = n
      BY <1>4, <1>6, <1>8, <1>10
    <2>2. \A i \in 1..Len(cut) : left[cut[i]].nRandomPos = i
      BY <1>4, <1>6, <1>9, <1>10
    <2> QED BY <1>4, <1>11, <2>1, <2>2 DEF Positions
  <1> QED BY <1>4, <1>5, <1>10, <1>12

(* The index by host forgets a host.                                         *)
Forgets(byHost, h, after) == after = [byHost EXCEPT ![h] = NoId]

(* The entries and buckets without v are as they were.                       *)
Leaves(info, new, v, left, less) ==
    /\ DOMAIN left = DOMAIN info \ {v} /\ left \in [DOMAIN info \ {v} -> Info]
    /\ \A n \in DOMAIN info \ {v} :
          /\ NewOf(less, n) = NewOf(new, n)
          /\ left[n].addr = info[n].addr /\ left[n].fInTried = info[n].fInTried
          /\ left[n].nRefCount = info[n].nRefCount

(* The entry that gave up its last bucket leaves all tables.                 *)
LEMMA DeleteTidy ==
    ASSUME NEW info, NEW byHost, NEW random, NEW new, NEW nn, NEW id,
           Tidy(info, byHost, random, new, nn, id),
           NEW v \in DOMAIN info, v # id, ~info[v].fInTried,
           NEW less \in [NewBuckets -> SUBSET (DOMAIN info \ {v})], Bounded(less),
           NEW left, NEW cut, NEW after, Leaves(info, new, v, left, less),
           Positions(left, cut), Len(cut) = Len(random) - 1,
           Forgets(byHost, Host[info[v].addr], after)
    PROVE  Tidy(left, after, cut, less, nn - 1, id)
  <1> DEFINE D == DOMAIN info
             E == D \ {v}
  <1>0. /\ DOMAIN left = E /\ left \in [E -> Info]
        /\ \A n \in E : /\ NewOf(less, n) = NewOf(new, n)
                        /\ left[n].addr = info[n].addr /\ left[n].fInTried = info[n].fInTried
                        /\ left[n].nRefCount = info[n].nRefCount
    BY DEF Leaves
  <1> USE <1>0
  <1>1. Hosted(left, after)
    <2> DEFINE h0 == Host[info[v].addr]
    <2>1. h0 \in Hosts /\ \A n \in D : Host[info[n].addr] \in Hosts /\ n # NoId
      BY TidyFacts
    <2>2. /\ byHost \in [Hosts -> D \cup {NoId}]
          /\ \A n \in D : byHost[Host[info[n].addr]] = n
          /\ \A h \in Hosts : byHost[h] # NoId => Host[info[byHost[h]].addr] = h
      BY DEF Tidy, Hosted
    <2>3. /\ \A h \in Hosts : after[h] = IF h = h0 THEN NoId ELSE byHost[h]
          /\ after = [h \in Hosts |-> after[h]]
      BY <2>1, <2>2 DEF Forgets
    <2>4. \A n \in E : Host[info[n].addr] # h0
      BY <2>1, <2>2
    <2>5. \A h \in Hosts : byHost[h] = v => h = h0
      BY <2>1, <2>2
    <2>6. \A h \in Hosts : after[h] \in E \cup {NoId}
      BY <2>2, <2>3, <2>5
    <2>7. after \in [Hosts -> E \cup {NoId}]
      BY <2>3, <2>6, Zenon
    <2>8. \A n \in E : after[Host[left[n].addr]] = n
      BY <2>1, <2>2, <2>3, <2>4
    <2>9. \A h \in Hosts : after[h] # NoId => Host[left[after[h]].addr] = h
      BY <2>2, <2>3, <2>6
    <2> QED BY <2>7, <2>8, <2>9 DEF Hosted
  <1>2. Counted(left, less, id)
    <2>1. \A n \in D : info[n].nRefCount =
                          Cardinality(NewOf(new, n)) + (IF n = id THEN 1 ELSE 0)
      BY DEF Tidy, Counted
    <2>2. \A n \in E : Cardinality(NewOf(less, n)) = Cardinality(NewOf(new, n))
      BY Zenon
    <2>3. \A n \in E : left[n].nRefCount =
                          Cardinality(NewOf(less, n)) + (IF n = id THEN 1 ELSE 0)
      BY <2>1, <2>2
    <2> QED BY <2>3 DEF Counted
  <1>3. Sorted(left, less)
    <2>1. \A n \in D : IF info[n].fInTried
                       THEN NewOf(new, n) = {} /\ InTried(n) = {TriedBucket[info[n].addr]}
                       ELSE info[n].nRefCount \in 1..MaxRefs /\ InTried(n) = {}
      BY DEF Tidy, Sorted
    <2> SUFFICES ASSUME NEW n \in E
                 PROVE  IF left[n].fInTried
                        THEN NewOf(less, n) = {} /\ InTried(n) = {TriedBucket[left[n].addr]}
                        ELSE left[n].nRefCount \in 1..MaxRefs /\ InTried(n) = {}
      BY DEF Sorted
    <2>2. /\ NewOf(less, n) = NewOf(new, n) /\ left[n].addr = info[n].addr
          /\ left[n].fInTried = info[n].fInTried /\ left[n].nRefCount = info[n].nRefCount
      OBVIOUS
    <2> QED BY <2>1, <2>2
  <1>4. Numbered(left, cut, nn - 1)
    <2>1. TriedOf(left) = TriedOf(info) /\ UntriedOf(left) = UntriedOf(info) \ {v}
      BY DEF TriedOf, UntriedOf
    <2>2. v \in UntriedOf(info)
      BY DEF UntriedOf
    <2>3. /\ IsFiniteSet(D) /\ Len(random) = nTried + nn /\ nn \in Nat
          /\ Cardinality(TriedOf(info)) = nTried /\ Cardinality(UntriedOf(info)) = nn
      BY DEF Tidy, Numbered
    <2>4. IsFiniteSet(TriedOf(info)) /\ IsFiniteSet(UntriedOf(info)) /\ nTried \in Nat
      BY TidyFacts
    <2>5. /\ IsFiniteSet(UntriedOf(left)) /\ IsFiniteSet(E)
          /\ Cardinality(UntriedOf(left)) = nn - 1
      BY <2>1, <2>2, <2>3, <2>4, FS_RemoveElement
    <2>6. nn - 1 \in Nat
      BY <2>5, FS_CardinalityType
    <2> QED BY <2>1, <2>3, <2>4, <2>5, <2>6 DEF Numbered
  <1>5. Typed(left)
    <2>1. vvTried \in [TriedBuckets -> SUBSET D] /\ InTried(v) = {} /\ D \subseteq Nat
      BY DEF Tidy, Typed, Sorted
    <2>2. vvTried \in [TriedBuckets -> SUBSET E]
      BY <2>1 DEF InTried
    <2> QED BY <2>1, <2>2 DEF Typed
  <1> QED BY <1>1, <1>2, <1>3, <1>4, <1>5 DEF Tidy

(* id enters the bucket that its reference count already counts.             *)
LEMMA InsertTidy ==
    ASSUME NEW info, NEW byHost, NEW random, NEW new, NEW nn, NEW id \in DOMAIN info,
           Tidy(info, byHost, random, new, nn, id), ~info[id].fInTried,
           NEW b \in NewBuckets, id \notin new[b], Cardinality(new[b]) < NewSize,
           NEW more, Gains(new, b, id, more)
    PROVE  Tidy(info, byHost, random, more, nn, NoId)
  <1> DEFINE D == DOMAIN info
  <1>1. new \in [NewBuckets -> SUBSET D]
    BY DEF Tidy, Counted
  <1>2. /\ more \in [NewBuckets -> SUBSET D]
        /\ \A c \in NewBuckets : more[c] = IF c = b THEN new[b] \cup {id} ELSE new[c]
        /\ NewOf(more, id) = NewOf(new, id) \cup {b}
        /\ \A n \in D \ {id} : NewOf(more, n) = NewOf(new, n)
    BY <1>1 DEF NewOf, Gains
  <1>3. b \notin NewOf(new, id)
    BY DEF NewOf
  <1>4. Counted(info, more, NoId)
    <2>1. Cardinality(NewOf(more, id)) = Cardinality(NewOf(new, id)) + 1
      <3>1. IsFiniteSet(NewOf(new, id))
        BY NewOfFinite
      <3> QED BY <1>2, <1>3, <3>1, FS_AddElement
    <2>2. \A n \in D : info[n].nRefCount =
                          Cardinality(NewOf(new, n)) + (IF n = id THEN 1 ELSE 0)
      BY DEF Tidy, Counted
    <2>3. \A n \in D : n # NoId /\ Cardinality(NewOf(new, n)) \in Nat
      BY NewOfFinite, TidyFacts
    <2>4. ASSUME NEW n \in D
          PROVE  info[n].nRefCount = Cardinality(NewOf(more, n)) + (IF n = NoId THEN 1 ELSE 0)
      <3>1. CASE n = id
        BY <2>1, <2>2, <2>3, <3>1
      <3>2. CASE n # id
        BY <1>2, <2>2, <2>3, <3>2
      <3> QED BY <3>1, <3>2
    <2> QED BY <1>2, <2>4 DEF Counted
  <1>5. Sorted(info, more)
    <2>1. \A n \in D : IF info[n].fInTried
                       THEN NewOf(new, n) = {} /\ InTried(n) = {TriedBucket[info[n].addr]}
                       ELSE info[n].nRefCount \in 1..MaxRefs /\ InTried(n) = {}
      BY DEF Tidy, Sorted
    <2>2. \A n \in D : info[n].fInTried => NewOf(more, n) = NewOf(new, n)
      BY <1>2
    <2> QED BY <2>1, <2>2 DEF Sorted
  <1>6. Bounded(more)
    <2>1. IsFiniteSet(new[b]) /\ Cardinality(new[b]) \in Nat
      BY TidyFacts
    <2>2. Cardinality(new[b] \cup {id}) = Cardinality(new[b]) + 1
      BY <2>1, FS_AddElement
    <2>3. \A c \in NewBuckets : Cardinality(new[c]) <= NewSize
      BY DEF Tidy, Bounded
    <2>4. NewSize \in Nat
      BY SizeAssumption
    <2>5. ASSUME NEW c \in NewBuckets PROVE Cardinality(more[c]) <= NewSize
      <3>1. CASE c = b
        <4>1. more[c] = new[b] \cup {id}
          BY <1>2, <3>1
        <4>2. Cardinality(more[c]) = Cardinality(new[b]) + 1
          BY <2>2, <4>1, Zenon
        <4> QED BY <2>1, <2>4, <4>2
      <3>2. CASE c # b
        BY <1>2, <2>3, <3>2
      <3> QED BY <3>1, <3>2
    <2> QED BY <2>5 DEF Bounded
  <1> QED BY <1>4, <1>5, <1>6 DEF Tidy

(* What a call that deletes entries leaves: no entry changes, and the tried  *)
(* ones are all there.                                                       *)
Survive(info, left) ==
    /\ DOMAIN left \subseteq DOMAIN info /\ TriedOf(info) \subseteq DOMAIN left
    /\ \A n \in DOMAIN left :
          left[n].addr = info[n].addr /\ left[n].fInTried = info[n].fInTried

LEMMA ShrinkNewTidy ==
    ASSUME NEW info, NEW byHost, NEW random, NEW new, NEW nn, NEW id \in DOMAIN info,
           Tidy(info, byHost, random, new, nn, id),
           NEW b \in NewBuckets, NEW v \in new[b], v # id,
           NEW u, u = ShrinkNew([info |-> info, byHost |-> byHost, random |-> random,
                                 new |-> new, nNew |-> nn], b, v)
    PROVE  /\ Tidy(u.info, u.byHost, u.random, u.new, u.nNew, id)
           /\ Survive(info, u.info) /\ id \in DOMAIN u.info
           /\ u.new[b] = new[b] \ {v}
           /\ u = [info |-> u.info, byHost |-> u.byHost, random |-> u.random,
                   new |-> u.new, nNew |-> u.nNew]
  <1> DEFINE D == DOMAIN info
             other == WithRefs(info, v, info[v].nRefCount - 1)
             less == [new EXCEPT ![b] = new[b] \ {v}]
             l == [info |-> other, byHost |-> byHost, random |-> random,
                   nNew |-> nn, new |-> less]
  <1>1. u = IF other[v].nRefCount = 0 THEN Delete(l, v) ELSE l
    BY DEF ShrinkNew
  <1>2. new \in [NewBuckets -> SUBSET D] /\ v \in D /\ info \in [D -> Info] /\ v \in Nat
    BY TidyFacts DEF Tidy, Counted, Typed
  <1>3. b \in NewOf(new, v)
    BY DEF NewOf
  <1>4. \A n \in D : IF info[n].fInTried
                     THEN NewOf(new, n) = {} /\ InTried(n) = {TriedBucket[info[n].addr]}
                     ELSE info[n].nRefCount \in 1..MaxRefs /\ InTried(n) = {}
    BY DEF Tidy, Sorted
  <1>5. ~info[v].fInTried /\ info[v].nRefCount - 1 \in Nat
    BY <1>2, <1>3, <1>4
  <1>6. /\ Recounts(info, other)
        /\ \A n \in D : other[n].nRefCount =
              IF n = v THEN info[v].nRefCount - 1 ELSE info[n].nRefCount
    BY <1>2, <1>5, WithRefsFacts
  <1>7. Loses(new, b, v, less)
    BY DEF Loses
  <1>8. other = WithRefs(info, v, info[v].nRefCount - 1)
    OBVIOUS
  <1>9. /\ less \in [NewBuckets -> SUBSET D]
        /\ \A c \in NewBuckets : less[c] = IF c = b THEN new[b] \ {v} ELSE new[c]
        /\ NewOf(less, v) = NewOf(new, v) \ {b}
        /\ \A n \in D \ {v} : NewOf(less, n) = NewOf(new, n)
    BY <1>2 DEF NewOf
  <1> HIDE DEF other, less
  <1>10. CASE info[v].nRefCount - 1 # 0
    <2>1. u = l
      BY <1>1, <1>2, <1>6, <1>10
    <2>2. DOMAIN other = D /\ Tidy(other, byHost, random, less, nn, id)
      BY <1>7, <1>8, <1>10, ShrinkTidy
    <2>3. Survive(info, other)
      BY <1>6, <2>2 DEF Survive, Recounts, TriedOf
    <2> QED BY <1>9, <2>1, <2>2, <2>3
  <1>11. CASE info[v].nRefCount - 1 = 0
    <2> DEFINE s == SwapRandom(other, random, other[v].nRandomPos, Len(random))
               left == [n \in DOMAIN other \ {v} |-> s.info[n]]
               cut == SubSeq(s.random, 1, Len(random) - 1)
               after == [byHost EXCEPT ![Host[other[v].addr]] = NoId]
    <2>1. u = [info |-> left, byHost |-> after, random |-> cut, new |-> less, nNew |-> nn - 1]
      BY <1>1, <1>2, <1>6, <1>11 DEF Delete
    <2>0. Cuts(other, random, v, left, cut)
      BY DEF Cuts
    <2>2. /\ DOMAIN other = D /\ other \in [DOMAIN other -> Info] /\ Positions(other, random)
          /\ \A n \in D : other[n].addr = info[n].addr /\ other[n].fInTried = info[n].fInTried
      <3>1. Typed(other) /\ Positions(other, random) /\ DOMAIN other = D
        BY <1>6, RecountKeeps DEF Tidy
      <3> QED BY <1>6, <3>1 DEF Recounts, Typed
    <2> HIDE DEF left, cut
    <2>3. /\ DOMAIN left = D \ {v} /\ left \in [D \ {v} -> Info]
          /\ \A n \in D \ {v} :
                /\ left[n].addr = other[n].addr /\ left[n].fInTried = other[n].fInTried
                /\ left[n].nRefCount = other[n].nRefCount
          /\ Positions(left, cut) /\ Len(cut) = Len(random) - 1
      <3> DEFINE E == DOMAIN other
      <3>1. v \in E /\ E = D
        BY <1>2, <2>2
      <3>2. other \in [E -> Info] /\ Positions(other, random)
        BY <2>2
      <3>3. /\ DOMAIN left = E \ {v} /\ left \in [E \ {v} -> Info]
            /\ \A n \in E \ {v} :
                  /\ left[n].addr = other[n].addr /\ left[n].fInTried = other[n].fInTried
                  /\ left[n].nRefCount = other[n].nRefCount
            /\ Positions(left, cut) /\ Len(cut) = Len(random) - 1
        BY <2>0, <3>1, <3>2, CutPositions, Zenon
      <3> QED BY <3>1, <3>3, Zenon
    <2>4. Forgets(byHost, Host[info[v].addr], after)
      BY <1>2, <2>2 DEF Forgets
    <2> HIDE DEF after
    <2>5. NewOf(new, v) = {b}
      <3>1. info[v].nRefCount = Cardinality(NewOf(new, v)) + (IF v = id THEN 1 ELSE 0)
        BY <1>2 DEF Tidy, Counted
      <3>2. IsFiniteSet(NewOf(new, v)) /\ Cardinality(NewOf(new, v)) \in Nat
        BY NewOfFinite
      <3>3. Cardinality(NewOf(new, v)) = 1
        BY <1>5, <1>11, <3>1, <3>2
      <3> QED BY <1>3, <3>2, <3>3, FS_Singleton
    <2>6. NewOf(less, v) = {}
      BY <1>9, <2>5
    <2>7. less \in [NewBuckets -> SUBSET (D \ {v})]
      BY <1>9, <2>6 DEF NewOf
    <2>8. Bounded(less)
      <3>1. IsFiniteSet(new[b]) /\ Cardinality(new[b]) \in Nat
        BY TidyFacts
      <3>2. Cardinality(new[b] \ {v}) = Cardinality(new[b]) - 1
        BY <3>1, FS_RemoveElement
      <3>3. \A c \in NewBuckets : Cardinality(new[c]) <= NewSize
        BY DEF Tidy, Bounded
      <3>4. NewSize \in Nat
        BY SizeAssumption
      <3>5. ASSUME NEW c \in NewBuckets PROVE Cardinality(less[c]) <= NewSize
        <4>1. CASE c = b
          <5>1. less[c] = new[b] \ {v}
            BY <1>9, <4>1
          <5>2. Cardinality(less[c]) = Cardinality(new[b]) - 1
            BY <3>2, <5>1, Zenon
          <5> QED BY <3>1, <3>3, <3>4, <5>2
        <4>2. CASE c # b
          BY <1>9, <3>3, <4>2
        <4> QED BY <4>1, <4>2
      <3> QED BY <3>5 DEF Bounded
    <2>9. \A n \in D \ {v} :
             /\ NewOf(less, n) = NewOf(new, n)
             /\ left[n].addr = info[n].addr /\ left[n].fInTried = info[n].fInTried
             /\ left[n].nRefCount = info[n].nRefCount
      BY <1>6, <1>9, <2>2, <2>3
    <2>10. Leaves(info, new, v, left, less)
      BY <2>3, <2>9 DEF Leaves
    <2>11. Tidy(left, after, cut, less, nn - 1, id)
      BY <1>2, <1>5, <2>3, <2>4, <2>7, <2>8, <2>10, DeleteTidy
    <2>12. Survive(info, left)
      BY <1>5, <2>3, <2>9 DEF Survive, TriedOf
    <2> QED BY <1>9, <2>1, <2>3, <2>11, <2>12
  <1> QED BY <1>10, <1>11

(* The end of Add_, from tables in which only the count of id is behind.     *)
LEMMA InsertNewTidy ==
    ASSUME NEW info, NEW byHost, NEW random, NEW new, NEW nn, NEW id, NEW b \in NewBuckets,
           NEW other, other = WithRefs(info, id, info[id].nRefCount + 1),
           Tidy(other, byHost, random, new, nn, id), id \in DOMAIN other,
           ~other[id].fInTried, id \notin new[b],
           InsertNew([info |-> info, byHost |-> byHost, random |-> random,
                      new |-> new, nNew |-> nn], id, b)
    PROVE  /\ Tidy(mapInfo', mapAddr', vRandom', vvNew', nNew', NoId)
           /\ Survive(other, mapInfo')
  <1> DEFINE t == [info |-> info, byHost |-> byHost, random |-> random,
                   new |-> new, nNew |-> nn]
             counted == [info |-> other, byHost |-> byHost, random |-> random,
                         new |-> new, nNew |-> nn]
             more(u) == [u.new EXCEPT ![b] = u.new[b] \cup {id}]
             Inserted(u) == [u EXCEPT !.new = more(u)]
  <1>1. [t EXCEPT !.info = WithRefs(t.info, id, t.info[id].nRefCount + 1)] = counted
    OBVIOUS
  <1>2. \/ /\ Cardinality(new[b]) = NewSize
           /\ \E v \in new[b] : Become(Inserted(ShrinkNew(counted, b, v)))
        \/ /\ Cardinality(new[b]) # NewSize
           /\ Become(Inserted(counted))
    BY <1>1 DEF InsertNew
  <1>3. /\ IsFiniteSet(new[b]) /\ Cardinality(new[b]) \in Nat /\ NewSize \in Nat
        /\ Cardinality(new[b]) <= NewSize
    BY TidyFacts, SizeAssumption DEF Tidy, Bounded
  <1>4. ASSUME NEW u, u = [info |-> u.info, byHost |-> u.byHost, random |-> u.random,
                           new |-> u.new, nNew |-> u.nNew],
               Tidy(u.info, u.byHost, u.random, u.new, u.nNew, id),
               id \in DOMAIN u.info, ~u.info[id].fInTried, id \notin u.new[b],
               Cardinality(u.new[b]) < NewSize, Become(Inserted(u))
        PROVE  /\ Tidy(mapInfo', mapAddr', vRandom', vvNew', nNew', NoId)
               /\ mapInfo' = u.info
    <2>1. Inserted(u) = [info |-> u.info, byHost |-> u.byHost, random |-> u.random,
                         new |-> more(u), nNew |-> u.nNew]
      <3> DEFINE ui == u.info
                 ub == u.byHost
                 ur == u.random
                 un == u.new
                 uc == u.nNew
                 m == more(u)
      <3>1. u = [info |-> ui, byHost |-> ub, random |-> ur, new |-> un, nNew |-> uc]
        BY <1>4
      <3> HIDE DEF ui, ub, ur, un, uc, m, more
      <3>2. [u EXCEPT !.new = m] =
                [info |-> ui, byHost |-> ub, random |-> ur, new |-> m, nNew |-> uc]
        BY ONLY <3>1
      <3> QED BY <3>2 DEF ui, ub, ur, un, uc, m
    <2>2. /\ mapInfo' = u.info /\ mapAddr' = u.byHost /\ vRandom' = u.random
          /\ vvNew' = more(u) /\ nNew' = u.nNew
      BY <1>4, <2>1 DEF Become
    <2>3. Gains(u.new, b, id, vvNew')
      BY <2>2 DEF Gains
    <2> DEFINE ui == u.info
               ub == u.byHost
               ur == u.random
               un == u.new
               uc == u.nNew
    <2>4. /\ Tidy(ui, ub, ur, un, uc, id) /\ id \in DOMAIN ui /\ ~ui[id].fInTried
          /\ id \notin un[b] /\ Cardinality(un[b]) < NewSize /\ Gains(un, b, id, vvNew')
      BY <1>4, <2>3
    <2> HIDE DEF ui, ub, ur, un, uc
    <2>5. Tidy(ui, ub, ur, vvNew', uc, NoId)
      BY <2>4, InsertTidy
    <2> QED BY <2>2, <2>5 DEF ui, ub, ur, un, uc
  <1>5. CASE Cardinality(new[b]) # NewSize
    <2>1. Become(Inserted(counted)) /\ Cardinality(new[b]) < NewSize
      BY <1>2, <1>3, <1>5
    <2>2. Tidy(mapInfo', mapAddr', vRandom', vvNew', nNew', NoId) /\ mapInfo' = counted.info
      BY <1>4, <2>1
    <2>3. Survive(other, other)
      BY DEF Survive, TriedOf
    <2> QED BY <2>2, <2>3
  <1>6. CASE Cardinality(new[b]) = NewSize
    <2>1. PICK v \in new[b] : Become(Inserted(ShrinkNew(counted, b, v)))
      BY <1>2, <1>6
    <2> DEFINE u == ShrinkNew(counted, b, v)
    <2>2. v # id
      OBVIOUS
    <2>3. /\ Tidy(u.info, u.byHost, u.random, u.new, u.nNew, id)
          /\ Survive(other, u.info) /\ id \in DOMAIN u.info
          /\ u.new[b] = new[b] \ {v}
          /\ u = [info |-> u.info, byHost |-> u.byHost, random |-> u.random,
                  new |-> u.new, nNew |-> u.nNew]
      BY <2>2, ShrinkNewTidy
    <2>4. Become(Inserted(u))
      BY <2>1
    <2> HIDE DEF u
    <2>5. ~u.info[id].fInTried
      BY <2>3 DEF Survive
    <2>6. Cardinality(u.new[b]) < NewSize
      <3>1. Cardinality(new[b] \ {v}) = Cardinality(new[b]) - 1
        BY <1>3, FS_RemoveElement
      <3>2. Cardinality(u.new[b]) = Cardinality(new[b]) - 1
        BY <2>3, <3>1, Zenon
      <3> QED BY <1>3, <1>6, <3>2
    <2>7. id \notin u.new[b]
      BY <2>3
    <2> QED BY <1>4, <2>3, <2>4, <2>5, <2>6, <2>7
  <1> QED BY <1>5, <1>6

-----------------------------------------------------------------------------
(* The steps.                                                                *)

(* The entries of "more" are those of "info" and one of a service not known. *)
Enters(info, id, s, pos, more) ==
    /\ more \in [DOMAIN info \cup {id} -> Info]
    /\ \A n \in DOMAIN info :
          /\ more[n].addr = info[n].addr /\ more[n].fInTried = info[n].fInTried
          /\ more[n].nRefCount = info[n].nRefCount /\ more[n].nRandomPos = info[n].nRandomPos
    /\ more[id].addr = s /\ more[id].fInTried = FALSE
    /\ more[id].nRefCount = 1 /\ more[id].nRandomPos = pos

(* A function that Create makes, with the count that Add_ gives it at once.  *)
LEMMA CreateEnters ==
    ASSUME NEW D, NEW info \in [D -> Info], NEW id, id \notin D,
           NEW e \in Info, e.nRefCount = 0, e.fInTried = FALSE,
           NEW made, made = [n \in D \cup {id} |-> IF n # id THEN info[n] ELSE e]
    PROVE  Enters(info, id, e.addr, e.nRandomPos, WithRefs(made, id, made[id].nRefCount + 1))
  <1> DEFINE other == WithRefs(made, id, made[id].nRefCount + 1)
             M == D \cup {id}
  <1>1. /\ made \in [M -> Info] /\ made[id] = e
        /\ \A n \in D : made[n] = info[n]
    OBVIOUS
  <1>2. id \in M /\ DOMAIN made = M /\ made[id].nRefCount + 1 = 1
    BY <1>1
  <1>3. /\ Recounts(made, other)
        /\ \A n \in M : other[n].nRefCount = IF n = id THEN 1 ELSE made[n].nRefCount
    BY <1>1, <1>2, WithRefsFacts
  <1> HIDE DEF other
  <1>4. /\ other \in [M -> Info]
        /\ \A n \in M : /\ other[n].addr = made[n].addr /\ other[n].fInTried = made[n].fInTried
                        /\ other[n].nRandomPos = made[n].nRandomPos
    BY <1>2, <1>3 DEF Recounts
  <1>5. \A n \in D : /\ other[n].addr = info[n].addr /\ other[n].fInTried = info[n].fInTried
                     /\ other[n].nRefCount = info[n].nRefCount
                     /\ other[n].nRandomPos = info[n].nRandomPos
    BY <1>1, <1>3, <1>4
  <1>6. /\ other[id].addr = e.addr /\ other[id].fInTried = FALSE
        /\ other[id].nRefCount = 1 /\ other[id].nRandomPos = e.nRandomPos
    BY <1>1, <1>3, <1>4
  <1>7. DOMAIN info = D
    OBVIOUS
  <1> QED BY <1>4, <1>5, <1>6, <1>7 DEF Enters, other

(* The index by host learns one.                                             *)
Learns(byHost, h, id, after) == after = [byHost EXCEPT ![h] = id]

LEMMA CreateTidy ==
    ASSUME AddrInv, NEW s \in Services, mapAddr[Host[s]] = NoId,
           NEW more, Enters(mapInfo, nIdCount, s, Len(vRandom) + 1, more),
           NEW after, Learns(mapAddr, Host[s], nIdCount, after)
    PROVE  Tidy(more, after, Append(vRandom, nIdCount), vvNew, nNew + 1, nIdCount)
  <1> DEFINE id == nIdCount
             D == Ids
             M == D \cup {id}
             L == Len(vRandom)
             random == Append(vRandom, id)
  <1>1. /\ Typed(mapInfo) /\ Positions(mapInfo, vRandom) /\ Hosted(mapInfo, mapAddr)
        /\ Counted(mapInfo, vvNew, NoId) /\ Sorted(mapInfo, vvNew)
        /\ Numbered(mapInfo, vRandom, nNew) /\ Bounded(vvNew)
        /\ id \in Nat /\ id \notin D /\ L \in Nat
    BY SizeAssumption, TidyFacts DEF AddrInv, Tidy
  <1>2. /\ DOMAIN more = M /\ more \in [M -> Info]
        /\ \A n \in D :
              /\ more[n].addr = mapInfo[n].addr /\ more[n].fInTried = mapInfo[n].fInTried
              /\ more[n].nRefCount = mapInfo[n].nRefCount
              /\ more[n].nRandomPos = mapInfo[n].nRandomPos
        /\ more[id].addr = s /\ more[id].fInTried = FALSE
        /\ more[id].nRefCount = 1 /\ more[id].nRandomPos = L + 1
    BY DEF Enters, Ids
  <1>3. \A n \in D : n # NoId /\ n \in Nat /\ Host[mapInfo[n].addr] \in Hosts
    BY TidyFacts DEF AddrInv, Ids
  <1>4. \A n \in M : n # id => n \in D
    OBVIOUS
  <1>5. InTried(id) = {} /\ NewOf(vvNew, id) = {}
    BY <1>1 DEF Typed, Counted, InTried, NewOf, Ids
  <1>6. Positions(more, random)
    <2>1. /\ vRandom \in Seq(D)
          /\ \A n \in D : mapInfo[n].nRandomPos \in 1..L /\ vRandom[mapInfo[n].nRandomPos] = n
          /\ \A i \in 1..L : vRandom[i] \in D /\ mapInfo[vRandom[i]].nRandomPos = i
      BY <1>1 DEF Positions, Ids
    <2>2. /\ random \in Seq(M) /\ Len(random) = L + 1 /\ random[L + 1] = id
          /\ \A i \in 1..L : random[i] = vRandom[i]
      BY <1>1, <2>1
    <2>3. \A n \in M : more[n].nRandomPos \in 1..Len(random) /\ random[more[n].nRandomPos] = n
      BY <1>1, <1>2, <1>4, <2>1, <2>2
    <2>4. \A i \in 1..Len(random) : more[random[i]].nRandomPos = i
      <3> SUFFICES ASSUME NEW i \in 1..L + 1 PROVE more[random[i]].nRandomPos = i
        BY <2>2
      <3>1. CASE i = L + 1
        BY <1>2, <2>2, <3>1
      <3>2. CASE i # L + 1
        <4>1. i \in 1..L
          BY <1>1, <3>2
        <4> QED BY <1>2, <2>1, <2>2, <4>1
      <3> QED BY <3>1, <3>2
    <2> HIDE DEF random
    <2> QED BY <1>2, <2>2, <2>3, <2>4 DEF Positions
  <1>7. Hosted(more, after)
    <2> DEFINE h0 == Host[s]
    <2>1. h0 \in Hosts
      BY DEF Hosts
    <2>2. /\ mapAddr \in [Hosts -> D \cup {NoId}]
          /\ \A n \in D : mapAddr[Host[mapInfo[n].addr]] = n
          /\ \A h \in Hosts : mapAddr[h] # NoId => Host[mapInfo[mapAddr[h]].addr] = h
      BY <1>1 DEF Hosted, Ids
    <2>3. /\ \A h \in Hosts : after[h] = IF h = h0 THEN id ELSE mapAddr[h]
          /\ after = [h \in Hosts |-> after[h]]
      BY <2>1, <2>2 DEF Learns
    <2>4. \A h \in Hosts : after[h] \in M \cup {NoId}
      BY <2>2, <2>3
    <2>5. after \in [Hosts -> M \cup {NoId}]
      BY <2>3, <2>4, Zenon
    <2>6. \A n \in D : Host[mapInfo[n].addr] # h0
      BY <1>3, <2>2
    <2>7. ASSUME NEW n \in M PROVE after[Host[more[n].addr]] = n
      <3>1. CASE n = id
        BY <1>2, <2>1, <2>3, <3>1
      <3>2. CASE n # id
        BY <1>2, <1>3, <2>2, <2>3, <2>6, <3>2
      <3> QED BY <3>1, <3>2
    <2>8. ASSUME NEW h \in Hosts, after[h] # NoId PROVE Host[more[after[h]].addr] = h
      <3>1. CASE h = h0
        BY <1>2, <2>3, <3>1
      <3>2. CASE h # h0
        <4>1. after[h] = mapAddr[h] /\ mapAddr[h] \in D
          BY <2>2, <2>3, <2>8, <3>2
        <4> QED BY <1>2, <2>2, <2>8, <4>1
      <3> QED BY <3>1, <3>2
    <2> QED BY <1>2, <2>5, <2>7, <2>8 DEF Hosted
  <1>8. Counted(more, vvNew, id)
    <2>1. /\ vvNew \in [NewBuckets -> SUBSET D]
          /\ \A n \in D : mapInfo[n].nRefCount = Cardinality(NewOf(vvNew, n)) + 0
      BY <1>1, <1>3 DEF Counted, Ids
    <2>2. Cardinality(NewOf(vvNew, id)) = 0
      BY <1>5, FS_EmptySet, Zenon
    <2>3. ASSUME NEW n \in M
          PROVE  more[n].nRefCount = Cardinality(NewOf(vvNew, n)) + (IF n = id THEN 1 ELSE 0)
      <3>1. CASE n = id
        BY <1>2, <2>2, <3>1
      <3>2. CASE n # id
        BY <1>2, <2>1, <3>2
      <3> QED BY <3>1, <3>2
    <2>4. vvNew \in [NewBuckets -> SUBSET M]
      BY <2>1
    <2> QED BY <1>2, <2>3, <2>4 DEF Counted
  <1>9. Sorted(more, vvNew)
    <2> SUFFICES ASSUME NEW n \in M
                 PROVE  IF more[n].fInTried
                        THEN NewOf(vvNew, n) = {} /\ InTried(n) = {TriedBucket[more[n].addr]}
                        ELSE more[n].nRefCount \in 1..MaxRefs /\ InTried(n) = {}
      BY <1>2 DEF Sorted
    <2>1. CASE n = id
      <3>1. 1 \in 1..MaxRefs
        BY SizeAssumption
      <3> QED BY <1>2, <1>5, <2>1, <3>1
    <2>2. CASE n # id
      <3>1. IF mapInfo[n].fInTried
            THEN NewOf(vvNew, n) = {} /\ InTried(n) = {TriedBucket[mapInfo[n].addr]}
            ELSE mapInfo[n].nRefCount \in 1..MaxRefs /\ InTried(n) = {}
        BY <1>1, <2>2 DEF Sorted, Ids
      <3>2. /\ more[n].addr = mapInfo[n].addr /\ more[n].fInTried = mapInfo[n].fInTried
            /\ more[n].nRefCount = mapInfo[n].nRefCount
        BY <1>2, <2>2
      <3> QED BY <3>1, <3>2
    <2> QED BY <2>1, <2>2
  <1>10. Numbered(more, random, nNew + 1)
    <2>1. TriedOf(more) = TriedOf(mapInfo) /\ UntriedOf(more) = UntriedOf(mapInfo) \cup {id}
      BY <1>1, <1>2 DEF TriedOf, UntriedOf, Ids
    <2>2. id \notin UntriedOf(mapInfo)
      BY <1>1 DEF UntriedOf, Ids
    <2>3. /\ IsFiniteSet(D) /\ L = nTried + nNew /\ nNew \in Nat
          /\ Cardinality(TriedOf(mapInfo)) = nTried /\ Cardinality(UntriedOf(mapInfo)) = nNew
      BY <1>1 DEF Numbered, Ids
    <2>4. IsFiniteSet(UntriedOf(mapInfo)) /\ nTried \in Nat
      BY TidyFacts DEF AddrInv
    <2>5. Cardinality(UntriedOf(more)) = nNew + 1 /\ IsFiniteSet(M)
      BY <2>1, <2>2, <2>3, <2>4, FS_AddElement
    <2>6. Len(random) = L + 1
      BY <1>1 DEF Positions
    <2> HIDE DEF random
    <2> QED BY <1>2, <2>1, <2>3, <2>4, <2>5, <2>6 DEF Numbered
  <1>11. Typed(more)
    <2>2. vvTried \in [TriedBuckets -> SUBSET M] /\ M \subseteq Nat
      BY <1>1, <1>3 DEF Typed, Ids
    <2> QED BY <1>2, <2>2 DEF Typed
  <1> QED BY <1>1, <1>6, <1>7, <1>8, <1>9, <1>10, <1>11 DEF Tidy

(* Add_ leaves the tried buckets alone.                                      *)
LEMMA AddKeeps ==
    ASSUME AddrInv, UNCHANGED <<vvTried, nTried>>,
           Tidy(mapInfo', mapAddr', vRandom', vvNew', nNew', NoId),
           nIdCount' \in 0..MaxIds, DOMAIN mapInfo' \subseteq 0..(nIdCount' - 1)
    PROVE  AddrInv'
  <1>1. Tidy(mapInfo, mapAddr, vRandom, vvNew, nNew, NoId)'
    BY DEF Tidy, Typed, Positions, Hosted, Counted, Sorted, Numbered, Bounded,
           InTried, NewOf, TriedOf, UntriedOf, NoId, Hosts
  <1> QED BY <1>1 DEF AddrInv, Ids

(* The tried entries, which a step other than Restart may not drop.          *)
TriedStay ==
    \A n \in TriedIds : n \in DOMAIN mapInfo' /\ mapInfo'[n].addr = mapInfo[n].addr

LEMMA AddNewStep ==
    ASSUME AddrInv, NEW s \in Services, NEW src \in Sources, AddNew(s, src)
    PROVE  AddrInv' /\ TriedStay
  <1> DEFINE id == nIdCount
             e == [addr |-> s, source |-> src, nRefCount |-> 0,
                   fInTried |-> FALSE, nRandomPos |-> Len(vRandom) + 1]
             made == [n \in Ids \cup {id} |-> IF n # id THEN mapInfo[n] ELSE e]
             after == [mapAddr EXCEPT ![Host[s]] = id]
             random == Append(vRandom, id)
             b == NewBucket[s, src]
             other == WithRefs(made, id, made[id].nRefCount + 1)
  <1>1. /\ mapInfo \in [Ids -> Info] /\ id \in Nat /\ id \notin Ids /\ Len(vRandom) \in Nat
        /\ vvNew \in [NewBuckets -> SUBSET Ids]
    BY SizeAssumption, TidyFacts DEF AddrInv, Tidy, Typed, Counted, Ids
  <1>2. e \in Info /\ e.nRefCount = 0 /\ e.fInTried = FALSE /\ e.addr = s
        /\ e.nRandomPos = Len(vRandom) + 1
    BY <1>1 DEF Info
  <1>3. b \in NewBuckets
    BY BucketAssumption
  <1>4. InsertNew([info |-> made, byHost |-> after, random |-> random, new |-> vvNew,
                   nNew |-> nNew + 1], id, b)
    BY DEF AddNew, Create
  <1>5. Learns(mapAddr, Host[s], id, after)
    BY DEF Learns
  <1> HIDE DEF e
  <1>6. Enters(mapInfo, id, e.addr, e.nRandomPos, other)
    BY <1>1, <1>2, CreateEnters
  <1> HIDE DEF made, other, after
  <1>7. Enters(mapInfo, id, s, Len(vRandom) + 1, other)
    BY <1>2, <1>6
  <1>8. Tidy(other, after, random, vvNew, nNew + 1, id)
    BY <1>5, <1>7, CreateTidy DEF AddNew
  <1>9. id \in DOMAIN other /\ ~other[id].fInTried /\ id \notin vvNew[b]
    BY <1>1, <1>3, <1>7 DEF Enters
  <1>10. other = WithRefs(made, id, made[id].nRefCount + 1)
    BY DEF other
  <1> HIDE DEF random, b
  <1>11. /\ Tidy(mapInfo', mapAddr', vRandom', vvNew', nNew', NoId)
         /\ Survive(other, mapInfo')
    BY <1>3, <1>4, <1>8, <1>9, <1>10, InsertNewTidy
  <1>12. DOMAIN mapInfo' \subseteq Ids \cup {id}
    BY <1>7, <1>11 DEF Survive, Enters, Ids
  <1>13. nIdCount' = nIdCount + 1 /\ nIdCount < MaxIds /\ UNCHANGED <<vvTried, nTried>>
    BY DEF AddNew
  <1>14. nIdCount \in 0..MaxIds /\ Ids \subseteq 0..(nIdCount - 1) /\ MaxIds \in Nat
    BY SizeAssumption DEF AddrInv
  <1>15. nIdCount' \in 0..MaxIds /\ DOMAIN mapInfo' \subseteq 0..(nIdCount' - 1)
    <2>1. nIdCount \in Nat /\ nIdCount' \in 0..MaxIds
      BY <1>13, <1>14
    <2>2. ASSUME NEW n \in DOMAIN mapInfo' PROVE n \in 0..(nIdCount' - 1)
      <3>1. n \in 0..(nIdCount - 1) \/ n = nIdCount
        BY <1>12, <1>14
      <3> QED BY <1>13, <2>1, <3>1
    <2> QED BY <2>1, <2>2
  <1>16. AddrInv'
    BY <1>11, <1>13, <1>15, AddKeeps
  <1>17. ASSUME NEW n \in TriedIds
         PROVE  n \in DOMAIN mapInfo' /\ mapInfo'[n].addr = mapInfo[n].addr
    <2>1. n \in Ids /\ mapInfo[n].fInTried
      BY DEF TriedIds
    <2>2. n \in DOMAIN other /\ other[n].fInTried /\ other[n].addr = mapInfo[n].addr
      BY <1>7, <2>1 DEF Enters, Ids
    <2> QED BY <1>11, <2>2 DEF Survive, TriedOf
  <1> QED BY <1>16, <1>17 DEF TriedStay

LEMMA AddAgainStep ==
    ASSUME AddrInv, NEW s \in Services, NEW src \in Sources, AddAgain(s, src)
    PROVE  AddrInv' /\ TriedStay
  <1> DEFINE id == mapAddr[Host[s]]
             b == NewBucket[mapInfo[id].addr, src]
             other == WithRefs(mapInfo, id, mapInfo[id].nRefCount + 1)
  <1>1. /\ id # NoId /\ ~mapInfo[id].fInTried /\ mapInfo[id].nRefCount # MaxRefs
        /\ id \notin vvNew[b] /\ UNCHANGED <<nIdCount, vvTried, nTried>>
        /\ InsertNew([info |-> mapInfo, byHost |-> mapAddr, random |-> vRandom,
                      new |-> vvNew, nNew |-> nNew], id, b)
    BY DEF AddAgain, Tables
  <1>2. Host[s] \in Hosts /\ mapAddr \in [Hosts -> DOMAIN mapInfo \cup {NoId}]
    BY DEF Hosts, AddrInv, Tidy, Hosted
  <1>3. id \in DOMAIN mapInfo
    BY <1>1, <1>2
  <1>4. mapInfo[id].addr \in Services
    BY <1>3, TidyFacts DEF AddrInv, Info
  <1>5. b \in NewBuckets
    BY <1>4, BucketAssumption
  <1>6. Tidy(mapInfo, mapAddr, vRandom, vvNew, nNew, NoId)
    BY DEF AddrInv
  <1> HIDE DEF id, b
  <1>7. /\ Recounts(mapInfo, other) /\ DOMAIN other = DOMAIN mapInfo
        /\ TriedOf(other) = TriedOf(mapInfo)
        /\ Tidy(other, mapAddr, vRandom, vvNew, nNew, id)
    BY <1>1, <1>3, <1>6, CountTidy
  <1>8. other = WithRefs(mapInfo, id, mapInfo[id].nRefCount + 1)
    OBVIOUS
  <1> HIDE DEF other
  <1>9. id \in DOMAIN other /\ ~other[id].fInTried
    BY <1>1, <1>3, <1>7 DEF Recounts
  <1>10. /\ Tidy(mapInfo', mapAddr', vRandom', vvNew', nNew', NoId)
         /\ Survive(other, mapInfo')
    BY <1>1, <1>5, <1>7, <1>8, <1>9, InsertNewTidy
  <1>11. nIdCount' \in 0..MaxIds /\ DOMAIN mapInfo' \subseteq 0..(nIdCount' - 1)
    BY <1>1, <1>7, <1>10 DEF Survive, AddrInv, Ids
  <1>12. AddrInv'
    BY <1>1, <1>10, <1>11, AddKeeps
  <1>13. ASSUME NEW n \in TriedIds
         PROVE  n \in DOMAIN mapInfo' /\ mapInfo'[n].addr = mapInfo[n].addr
    <2>1. n \in DOMAIN mapInfo /\ mapInfo[n].fInTried
      BY DEF TriedIds, Ids
    <2>2. n \in DOMAIN other /\ other[n].fInTried /\ other[n].addr = mapInfo[n].addr
      BY <1>7, <2>1 DEF Recounts
    <2> QED BY <1>10, <2>2 DEF Survive, TriedOf
  <1> QED BY <1>12, <1>13 DEF TriedStay

(* Good_: entries change their state, and nothing else.                      *)
Restates(info, other) ==
    /\ other \in [DOMAIN info -> Info]
    /\ \A n \in DOMAIN info :
          other[n].addr = info[n].addr /\ other[n].nRandomPos = info[n].nRandomPos

RestatesOne(info, x, k, other) ==
    /\ Restates(info, other)
    /\ other[x].nRefCount = k
    /\ \A n \in DOMAIN info \ {x} : other[n] = info[n]

LEMMA RestatedFacts ==
    ASSUME NEW D, NEW info \in [D -> Info], NEW x \in D, NEW k \in Nat, NEW tried \in BOOLEAN,
           NEW other, other = Restated(info, x, k, tried)
    PROVE  RestatesOne(info, x, k, other) /\ other[x].fInTried = tried
  <1> DEFINE e == [info[x] EXCEPT !.nRefCount = k, !.fInTried = tried]
  <1>1. other = [info EXCEPT ![x] = e]
    BY DEF Restated
  <1>2. /\ e \in Info /\ e.addr = info[x].addr /\ e.nRandomPos = info[x].nRandomPos
        /\ e.nRefCount = k /\ e.fInTried = tried
    <2>1. PICK r \in Info : r = info[x]
      OBVIOUS
    <2>2. e = [r EXCEPT !.nRefCount = k, !.fInTried = tried]
      BY <2>1
    <2> HIDE DEF e
    <2> QED BY <2>1, <2>2 DEF Info
  <1> HIDE DEF e
  <1>3. /\ other \in [D -> Info] /\ other[x] = e /\ DOMAIN info = D
        /\ \A n \in D \ {x} : other[n] = info[n]
    BY <1>1, <1>2
  <1>4. \A n \in D : other[n].addr = info[n].addr /\ other[n].nRandomPos = info[n].nRandomPos
    BY <1>2, <1>3
  <1> QED BY <1>2, <1>3, <1>4 DEF Restates, RestatesOne

LEMMA RestateKeeps ==
    ASSUME NEW info, NEW byHost, NEW random, NEW other, Restates(info, other),
           Positions(info, random), Hosted(info, byHost)
    PROVE  DOMAIN other = DOMAIN info /\ Positions(other, random) /\ Hosted(other, byHost)
  <1>1. DOMAIN other = DOMAIN info
    BY DEF Restates
  <1>2. Positions(other, random)
    <2>1. \A n \in DOMAIN info : other[n].nRandomPos = info[n].nRandomPos
      BY <1>1 DEF Restates
    <2>2. \A i \in 1..Len(random) : random[i] \in DOMAIN info
      BY DEF Positions
    <2> QED BY <1>1, <2>1, <2>2 DEF Positions
  <1>3. Hosted(other, byHost)
    <2>1. \A n \in DOMAIN info : other[n].addr = info[n].addr
      BY <1>1 DEF Restates
    <2>2. \A h \in Hosts : byHost[h] # NoId => byHost[h] \in DOMAIN info
      BY DEF Hosted
    <2> QED BY <1>1, <2>1, <2>2 DEF Hosted
  <1> QED BY <1>1, <1>2, <1>3

(* The entry id has become a tried one, in no new bucket.                    *)
Promotes(id, mid, new) ==
    /\ Restates(mapInfo, mid)
    /\ mid[id].nRefCount = 0 /\ mid[id].fInTried
    /\ \A n \in Ids \ {id} : mid[n] = mapInfo[n]
    /\ new \in [NewBuckets -> SUBSET (Ids \ {id})]
    /\ \A b \in NewBuckets : new[b] = vvNew[b] \ {id}
    /\ NewOf(new, id) = {}
    /\ \A n \in Ids \ {id} : NewOf(new, n) = NewOf(vvNew, n)

LEMMA PromotedFacts ==
    ASSUME AddrInv, NEW id \in Ids
    PROVE  Promotes(id, Promoted(id), WithoutNew(id))
  <1> DEFINE mid == Promoted(id)
             new == WithoutNew(id)
  <1>1. mapInfo \in [Ids -> Info] /\ vvNew \in [NewBuckets -> SUBSET Ids]
    BY DEF AddrInv, Tidy, Typed, Counted, Ids
  <1>2. mapInfo[id].nRefCount - Cardinality({b \in NewBuckets : id \in vvNew[b]}) = 0
    <2>1. id # NoId
      BY TidyFacts DEF AddrInv, Ids
    <2>2. Cardinality(NewOf(vvNew, id)) \in Nat
      BY NewOfFinite
    <2>3. mapInfo[id].nRefCount = Cardinality(NewOf(vvNew, id))
      BY <2>1, <2>2 DEF AddrInv, Tidy, Counted, Ids
    <2> QED BY <2>2, <2>3 DEF NewOf
  <1>3. mid = Restated(mapInfo, id, 0, TRUE)
    BY <1>2 DEF Promoted
  <1> HIDE DEF mid
  <1>4. /\ Restates(mapInfo, mid)
        /\ mid[id].nRefCount = 0 /\ mid[id].fInTried
        /\ \A n \in Ids \ {id} : mid[n] = mapInfo[n]
    <2>1. PICK tried \in BOOLEAN : tried
      OBVIOUS
    <2>2. mid = Restated(mapInfo, id, 0, tried)
      BY <1>3, <2>1
    <2>3. RestatesOne(mapInfo, id, 0, mid) /\ mid[id].fInTried = tried
      BY <1>1, <2>2, RestatedFacts
    <2> QED BY <2>1, <2>3 DEF RestatesOne, Ids
  <1>5. /\ new \in [NewBuckets -> SUBSET (Ids \ {id})]
        /\ \A b \in NewBuckets : new[b] = vvNew[b] \ {id}
    BY <1>1 DEF WithoutNew
  <1>6. /\ NewOf(new, id) = {}
        /\ \A n \in Ids \ {id} : NewOf(new, n) = NewOf(vvNew, n)
    BY <1>5 DEF NewOf
  <1> QED BY <1>4, <1>5, <1>6 DEF Promotes, mid

(* The tables that Good_ does not touch.                                     *)
LEMMA GoodKeeps ==
    ASSUME AddrInv, UNCHANGED <<nIdCount, vRandom, mapAddr>>, Restates(mapInfo, mapInfo'),
           vvTried' \in [TriedBuckets -> SUBSET Ids],
           Counted(mapInfo, vvNew, NoId)', Sorted(mapInfo, vvNew)',
           Numbered(mapInfo, vRandom, nNew)', Bounded(vvNew)',
           \A k \in TriedBuckets : Cardinality(vvTried'[k]) <= TriedSize
    PROVE  AddrInv' /\ TriedStay
  <1>1. /\ DOMAIN mapInfo' = DOMAIN mapInfo
        /\ Positions(mapInfo', vRandom) /\ Hosted(mapInfo', mapAddr)
    BY RestateKeeps DEF AddrInv, Tidy
  <1>2. Positions(mapInfo, vRandom)' /\ Hosted(mapInfo, mapAddr)'
    BY <1>1 DEF Positions, Hosted, Hosts, NoId
  <1>3. Typed(mapInfo)'
    BY <1>1 DEF AddrInv, Tidy, Typed, Restates, Ids
  <1>4. AddrInv'
    BY <1>1, <1>2, <1>3 DEF AddrInv, Tidy, Ids
  <1>5. TriedStay
    BY <1>1 DEF TriedStay, Restates, TriedIds, Ids
  <1> QED BY <1>4, <1>5

LEMMA PlaceStep ==
    ASSUME AddrInv, NEW id \in Ids, ~mapInfo[id].fInTried, Place(id),
           UNCHANGED <<nIdCount, vRandom, mapAddr>>
    PROVE  AddrInv' /\ TriedStay
  <1> DEFINE k == TriedBucket[mapInfo[id].addr]
  <1>1. /\ Cardinality(vvTried[k]) < TriedSize
        /\ mapInfo' = Promoted(id) /\ vvNew' = WithoutNew(id)
        /\ vvTried' = [vvTried EXCEPT ![k] = vvTried[k] \cup {id}]
        /\ nTried' = nTried + 1 /\ nNew' = nNew - 1
    BY DEF Place
  <1>2. /\ Restates(mapInfo, mapInfo')
        /\ mapInfo'[id].nRefCount = 0 /\ mapInfo'[id].fInTried
        /\ \A n \in Ids \ {id} : mapInfo'[n] = mapInfo[n]
        /\ vvNew' \in [NewBuckets -> SUBSET (Ids \ {id})]
        /\ \A b \in NewBuckets : vvNew'[b] = vvNew[b] \ {id}
        /\ NewOf(vvNew', id) = {}
        /\ \A n \in Ids \ {id} : NewOf(vvNew', n) = NewOf(vvNew, n)
    BY <1>1, PromotedFacts DEF Promotes
  <1>3. /\ DOMAIN mapInfo' = Ids /\ Ids' = Ids
        /\ \A n \in Ids : mapInfo'[n].addr = mapInfo[n].addr
    BY <1>2 DEF Restates, Ids
  <1>4. /\ vvTried \in [TriedBuckets -> SUBSET Ids] /\ k \in TriedBuckets
        /\ IsFiniteSet(Ids) /\ \A n \in Ids : n # NoId
        /\ IsFiniteSet(TriedOf(mapInfo)) /\ IsFiniteSet(UntriedOf(mapInfo)) /\ nTried \in Nat
    BY TidyFacts, BucketAssumption DEF AddrInv, Tidy, Typed, Numbered, Info, Ids
  <1>5. \A n \in Ids : IF mapInfo[n].fInTried
                       THEN NewOf(vvNew, n) = {} /\ InTried(n) = {TriedBucket[mapInfo[n].addr]}
                       ELSE mapInfo[n].nRefCount \in 1..MaxRefs /\ InTried(n) = {}
    BY DEF AddrInv, Tidy, Sorted, Ids
  <1>6. /\ vvTried' \in [TriedBuckets -> SUBSET Ids]
        /\ \A c \in TriedBuckets : vvTried'[c] = IF c = k THEN vvTried[k] \cup {id} ELSE vvTried[c]
    BY <1>1, <1>4
  <1>7. InTried(id)' = {k} /\ \A n \in Ids \ {id} : InTried(n)' = InTried(n)
    BY <1>4, <1>5, <1>6 DEF InTried
  <1>8. Counted(mapInfo, vvNew, NoId)'
    <2>1. \A n \in Ids : mapInfo[n].nRefCount = Cardinality(NewOf(vvNew, n)) + 0
      BY <1>4 DEF AddrInv, Tidy, Counted, Ids
    <2>2. Cardinality(NewOf(vvNew', id)) = 0
      BY <1>2, FS_EmptySet, Zenon
    <2>3. ASSUME NEW n \in Ids
          PROVE  mapInfo'[n].nRefCount = Cardinality(NewOf(vvNew', n)) + 0
      <3>1. CASE n = id
        BY <1>2, <2>2, <3>1
      <3>2. CASE n # id
        BY <1>2, <2>1, <3>2
      <3> QED BY <3>1, <3>2
    <2>4. vvNew' \in [NewBuckets -> SUBSET Ids]
      BY <1>2
    <2> QED BY <1>3, <1>4, <2>3, <2>4 DEF Counted, NewOf, NoId
  <1>9. Sorted(mapInfo, vvNew)'
    <2> SUFFICES ASSUME NEW n \in Ids
                 PROVE  IF mapInfo'[n].fInTried
                        THEN /\ NewOf(vvNew', n) = {}
                             /\ InTried(n)' = {TriedBucket[mapInfo'[n].addr]}
                        ELSE mapInfo'[n].nRefCount \in 1..MaxRefs /\ InTried(n)' = {}
      BY <1>3 DEF Sorted, NewOf, InTried
    <2>1. CASE n = id
      BY <1>2, <1>3, <1>7, <2>1
    <2>2. CASE n # id
      <3>1. /\ mapInfo'[n] = mapInfo[n] /\ InTried(n)' = InTried(n)
            /\ NewOf(vvNew', n) = NewOf(vvNew, n)
        BY <1>2, <1>7, <2>2
      <3> QED BY <1>5, <3>1
    <2> QED BY <2>1, <2>2
  <1>10. Numbered(mapInfo, vRandom, nNew)'
    <2>1. /\ TriedOf(mapInfo') = TriedOf(mapInfo) \cup {id}
          /\ UntriedOf(mapInfo') = UntriedOf(mapInfo) \ {id}
          /\ id \notin TriedOf(mapInfo) /\ id \in UntriedOf(mapInfo)
      BY <1>2, <1>3 DEF TriedOf, UntriedOf, Ids
    <2>2. /\ Len(vRandom) = nTried + nNew /\ nNew \in Nat
          /\ Cardinality(TriedOf(mapInfo)) = nTried /\ Cardinality(UntriedOf(mapInfo)) = nNew
      BY DEF AddrInv, Tidy, Numbered
    <2>3. /\ Cardinality(TriedOf(mapInfo')) = nTried + 1
          /\ Cardinality(UntriedOf(mapInfo')) = nNew - 1 /\ IsFiniteSet(UntriedOf(mapInfo'))
      <3>1. Cardinality(TriedOf(mapInfo) \cup {id}) = Cardinality(TriedOf(mapInfo)) + 1
        BY <1>4, <2>1, FS_AddElement
      <3>2. /\ Cardinality(UntriedOf(mapInfo) \ {id}) = Cardinality(UntriedOf(mapInfo)) - 1
            /\ IsFiniteSet(UntriedOf(mapInfo) \ {id})
        BY <1>4, <2>1, FS_RemoveElement
      <3> QED BY <2>1, <2>2, <3>1, <3>2, Zenon
    <2>4. nNew - 1 \in Nat
      BY <2>3, FS_CardinalityType
    <2> QED BY <1>1, <1>3, <1>4, <2>2, <2>3, <2>4 DEF Numbered, TriedOf, UntriedOf
  <1>11. Bounded(vvNew)'
    <2>1. ASSUME NEW b \in NewBuckets PROVE Cardinality(vvNew'[b]) <= NewSize
      <3>1. /\ IsFiniteSet(vvNew[b]) /\ Cardinality(vvNew[b]) \in Nat
            /\ Cardinality(vvNew[b]) <= NewSize /\ NewSize \in Nat
        BY TidyFacts, SizeAssumption DEF AddrInv, Tidy, Bounded
      <3>2. vvNew'[b] \in SUBSET vvNew[b]
        BY <1>2
      <3>3. Cardinality(vvNew'[b]) <= Cardinality(vvNew[b]) /\ Cardinality(vvNew'[b]) \in Nat
        BY <3>1, <3>2, FS_Subset, FS_CardinalityType
      <3> QED BY <3>1, <3>3
    <2> QED BY <2>1 DEF Bounded
  <1>12. ASSUME NEW c \in TriedBuckets PROVE Cardinality(vvTried'[c]) <= TriedSize
    <2>1. Cardinality(vvTried[c]) <= TriedSize
      BY DEF AddrInv
    <2>2. CASE c = k
      <3>1. IsFiniteSet(vvTried[k])
        BY <1>4, FS_Subset
      <3>2. Cardinality(vvTried[k]) \in Nat
        BY <3>1, FS_CardinalityType
      <3>3. Cardinality(vvTried[k] \cup {id}) = Cardinality(vvTried[k]) + 1
        <4>1. id \notin vvTried[k]
          BY <1>4, <1>5 DEF InTried
        <4> QED BY <3>1, <4>1, FS_AddElement
      <3>4. Cardinality(vvTried'[c]) = Cardinality(vvTried[k] \cup {id})
        BY <1>6, <2>2, Zenon
      <3> QED BY <1>1, <3>2, <3>3, <3>4, SizeAssumption
    <2>3. CASE c # k
      BY <1>6, <2>1, <2>3
    <2> QED BY <2>2, <2>3
  <1> QED BY <1>2, <1>6, <1>8, <1>9, <1>10, <1>11, <1>12, GoodKeeps

(* "There is certainly place there": id has just left the bucket origin.     *)
LEMMA EvictStep ==
    ASSUME AddrInv, NEW id \in Ids, ~mapInfo[id].fInTried,
           NEW origin \in NewBuckets, id \in vvNew[origin],
           NEW old \in Ids, Evict(id, origin, old), UNCHANGED <<nIdCount, vRandom>>
    PROVE  AddrInv' /\ TriedStay
  <1> DEFINE k == TriedBucket[mapInfo[id].addr]
             home == NewBucket[mapInfo[old].addr, mapInfo[old].source]
             new == WithoutNew(id)
             mid == Promoted(id)
             back == IF HasPlace(new[home]) THEN home ELSE origin
  <1>1. /\ old \in vvTried[k]
        /\ mapInfo' = Restated(mid, old, 1, FALSE)
        /\ vvNew' = [new EXCEPT ![back] = new[back] \cup {old}]
        /\ vvTried' = [vvTried EXCEPT ![k] = (vvTried[k] \ {old}) \cup {id}]
        /\ UNCHANGED <<mapAddr, nNew, nTried>>
    BY DEF Evict
  <1>2. /\ Restates(mapInfo, mid)
        /\ mid[id].nRefCount = 0 /\ mid[id].fInTried
        /\ \A n \in Ids \ {id} : mid[n] = mapInfo[n]
        /\ new \in [NewBuckets -> SUBSET (Ids \ {id})]
        /\ \A b \in NewBuckets : new[b] = vvNew[b] \ {id}
        /\ NewOf(new, id) = {}
        /\ \A n \in Ids \ {id} : NewOf(new, n) = NewOf(vvNew, n)
    BY PromotedFacts DEF Promotes
  <1>3. /\ vvTried \in [TriedBuckets -> SUBSET Ids] /\ k \in TriedBuckets
        /\ IsFiniteSet(Ids) /\ \A n \in Ids : n # NoId /\ mapInfo[n] \in Info
        /\ IsFiniteSet(TriedOf(mapInfo)) /\ IsFiniteSet(UntriedOf(mapInfo)) /\ nTried \in Nat
    BY TidyFacts, BucketAssumption DEF AddrInv, Tidy, Typed, Numbered, Info, Ids
  <1>4. \A n \in Ids : IF mapInfo[n].fInTried
                       THEN NewOf(vvNew, n) = {} /\ InTried(n) = {TriedBucket[mapInfo[n].addr]}
                       ELSE mapInfo[n].nRefCount \in 1..MaxRefs /\ InTried(n) = {}
    BY DEF AddrInv, Tidy, Sorted, Ids
  <1>5. mapInfo[old].fInTried /\ old # id /\ NewOf(vvNew, old) = {} /\ InTried(old) = {k}
    <2>1. k \in InTried(old)
      BY <1>1, <1>3 DEF InTried
    <2>2. mapInfo[old].fInTried
      BY <1>4, <2>1
    <2> QED BY <1>4, <2>1, <2>2
  <1>6. home \in NewBuckets /\ back \in NewBuckets
    <2>1. mapInfo[old].addr \in Services /\ mapInfo[old].source \in Sources
      BY <1>3 DEF Info
    <2> QED BY <2>1, BucketAssumption
  <1> HIDE DEF mid, new, home, k
  <1>7. /\ Restates(mapInfo, mapInfo')
        /\ mapInfo'[old].nRefCount = 1 /\ ~mapInfo'[old].fInTried
        /\ mapInfo'[id].nRefCount = 0 /\ mapInfo'[id].fInTried
        /\ \A n \in Ids \ {id, old} : mapInfo'[n] = mapInfo[n]
    <2>1. PICK tried \in BOOLEAN : ~tried
      OBVIOUS
    <2>2. mapInfo' = Restated(mid, old, 1, tried)
      BY <1>1, <2>1
    <2>3. mid \in [Ids -> Info] /\ DOMAIN mid = Ids
      BY <1>2 DEF Restates, Ids
    <2>4. RestatesOne(mid, old, 1, mapInfo') /\ mapInfo'[old].fInTried = tried
      BY <2>2, <2>3, RestatedFacts
    <2>5. /\ mapInfo'[old].nRefCount = 1 /\ ~mapInfo'[old].fInTried
          /\ Restates(mid, mapInfo')
          /\ \A n \in Ids \ {old} : mapInfo'[n] = mid[n]
      BY <2>1, <2>3, <2>4 DEF RestatesOne
    <2>6. Restates(mapInfo, mapInfo')
      BY <1>2, <2>3, <2>5 DEF Restates, Ids
    <2>7. mapInfo'[id] = mid[id]
      BY <1>5, <2>5
    <2> QED BY <1>2, <2>5, <2>6, <2>7
  <1>8. /\ DOMAIN mapInfo' = Ids /\ Ids' = Ids
        /\ \A n \in Ids : mapInfo'[n].addr = mapInfo[n].addr
    BY <1>7 DEF Restates, Ids
  <1> HIDE DEF back
  <1>9. /\ vvNew' \in [NewBuckets -> SUBSET Ids]
        /\ \A b \in NewBuckets : vvNew'[b] = IF b = back THEN new[back] \cup {old} ELSE new[b]
    BY <1>1, <1>2, <1>6
  <1>10. /\ NewOf(vvNew', old) = {back} /\ NewOf(vvNew', id) = {}
         /\ \A n \in Ids \ {id, old} : NewOf(vvNew', n) = NewOf(vvNew, n)
    <2>1. NewOf(new, old) = {}
      BY <1>2, <1>5
    <2>2. NewOf(vvNew', old) = {back} /\ NewOf(vvNew', id) = {}
      BY <1>2, <1>5, <1>6, <1>9, <2>1 DEF NewOf
    <2>3. \A n \in Ids \ {id, old} : NewOf(vvNew', n) = NewOf(new, n)
      BY <1>9 DEF NewOf
    <2> QED BY <1>2, <2>2, <2>3
  <1>11. /\ vvTried' \in [TriedBuckets -> SUBSET Ids]
         /\ \A c \in TriedBuckets :
               vvTried'[c] = IF c = k THEN (vvTried[k] \ {old}) \cup {id} ELSE vvTried[c]
    BY <1>1, <1>3
  <1>12. /\ InTried(id)' = {k} /\ InTried(old)' = {}
         /\ \A n \in Ids \ {id, old} : InTried(n)' = InTried(n)
    <2>1. InTried(id) = {}
      BY <1>4
    <2>2. InTried(id)' = {k}
      BY <1>3, <1>11, <2>1 DEF InTried
    <2>3. InTried(old)' = {}
      BY <1>3, <1>5, <1>11 DEF InTried
    <2>4. \A n \in Ids \ {id, old} : InTried(n)' = InTried(n)
      BY <1>3, <1>11 DEF InTried
    <2> QED BY <2>2, <2>3, <2>4
  <1>13. Counted(mapInfo, vvNew, NoId)'
    <2>1. \A n \in Ids : mapInfo[n].nRefCount = Cardinality(NewOf(vvNew, n)) + 0
      BY <1>3 DEF AddrInv, Tidy, Counted, Ids
    <2>2. Cardinality(NewOf(vvNew', id)) = 0
      BY <1>10, FS_EmptySet, Zenon
    <2>3. Cardinality(NewOf(vvNew', old)) = 1
      BY <1>10, FS_Singleton, Zenon
    <2>4. ASSUME NEW n \in Ids
          PROVE  mapInfo'[n].nRefCount = Cardinality(NewOf(vvNew', n)) + 0
      <3>1. CASE n = id
        BY <1>7, <2>2, <3>1
      <3>2. CASE n = old
        BY <1>7, <2>3, <3>2
      <3>3. CASE n # id /\ n # old
        BY <1>7, <1>10, <2>1, <3>3
      <3> QED BY <3>1, <3>2, <3>3
    <2> QED BY <1>3, <1>8, <1>9, <2>4 DEF Counted, NewOf, NoId
  <1>14. Sorted(mapInfo, vvNew)'
    <2> SUFFICES ASSUME NEW n \in Ids
                 PROVE  IF mapInfo'[n].fInTried
                        THEN /\ NewOf(vvNew', n) = {}
                             /\ InTried(n)' = {TriedBucket[mapInfo'[n].addr]}
                        ELSE mapInfo'[n].nRefCount \in 1..MaxRefs /\ InTried(n)' = {}
      BY <1>8 DEF Sorted, NewOf, InTried
    <2>1. CASE n = id
      BY <1>7, <1>8, <1>10, <1>12, <2>1 DEF k
    <2>2. CASE n = old
      <3>1. 1 \in 1..MaxRefs
        BY SizeAssumption
      <3> QED BY <1>7, <1>12, <2>2, <3>1
    <2>3. CASE n # id /\ n # old
      <3>1. /\ mapInfo'[n] = mapInfo[n] /\ InTried(n)' = InTried(n)
            /\ NewOf(vvNew', n) = NewOf(vvNew, n)
        BY <1>7, <1>10, <1>12, <2>3
      <3> QED BY <1>4, <3>1
    <2> QED BY <2>1, <2>2, <2>3
  <1>15. Numbered(mapInfo, vRandom, nNew)'
    <2> DEFINE T == TriedOf(mapInfo)
               U == UntriedOf(mapInfo)
    <2>1. /\ TriedOf(mapInfo') = (T \ {old}) \cup {id}
          /\ UntriedOf(mapInfo') = (U \ {id}) \cup {old}
          /\ id \notin T /\ id \in U /\ old \in T /\ old \notin U
      BY <1>5, <1>7, <1>8 DEF TriedOf, UntriedOf, Ids
    <2>2. /\ Len(vRandom) = nTried + nNew /\ nNew \in Nat
          /\ Cardinality(T) = nTried /\ Cardinality(U) = nNew
      BY DEF AddrInv, Tidy, Numbered
    <2> HIDE DEF T, U
    <2>3. ASSUME NEW S, IsFiniteSet(S), NEW x \in S, NEW y, y \notin S
          PROVE  Cardinality((S \ {x}) \cup {y}) = Cardinality(S)
      <3>1. Cardinality(S \ {x}) = Cardinality(S) - 1 /\ IsFiniteSet(S \ {x})
        BY <2>3, FS_RemoveElement
      <3>2. Cardinality((S \ {x}) \cup {y}) = Cardinality(S \ {x}) + 1
        BY <2>3, <3>1, FS_AddElement
      <3>3. Cardinality(S) \in Nat
        BY <2>3, FS_CardinalityType
      <3> QED BY <3>1, <3>2, <3>3
    <2>4. IsFiniteSet(T) /\ IsFiniteSet(U)
      BY <1>3 DEF T, U
    <2>5. Cardinality((T \ {old}) \cup {id}) = nTried /\ Cardinality((U \ {id}) \cup {old}) = nNew
      BY <2>1, <2>2, <2>3, <2>4
    <2>6. Cardinality(TriedOf(mapInfo')) = nTried /\ Cardinality(UntriedOf(mapInfo')) = nNew
      BY <2>1, <2>5, Zenon
    <2> QED BY <1>1, <1>3, <1>8, <2>2, <2>6 DEF Numbered, TriedOf, UntriedOf
  <1>16. Bounded(vvNew)'
    <2>0. ASSUME NEW b \in NewBuckets
          PROVE  /\ IsFiniteSet(vvNew[b]) /\ Cardinality(vvNew[b]) \in Nat
                 /\ Cardinality(vvNew[b]) <= NewSize /\ NewSize \in Nat
                 /\ IsFiniteSet(new[b]) /\ Cardinality(new[b]) \in Nat
                 /\ Cardinality(new[b]) <= Cardinality(vvNew[b])
                 /\ id \in vvNew[b] => Cardinality(new[b]) < Cardinality(vvNew[b])
      <3>1. /\ IsFiniteSet(vvNew[b]) /\ Cardinality(vvNew[b]) \in Nat
            /\ Cardinality(vvNew[b]) <= NewSize /\ NewSize \in Nat
        BY TidyFacts, SizeAssumption DEF AddrInv, Tidy, Bounded
      <3>2. new[b] \in SUBSET vvNew[b] /\ new[b] = vvNew[b] \ {id}
        BY <1>2
      <3>3. IsFiniteSet(new[b]) /\ Cardinality(new[b]) <= Cardinality(vvNew[b])
        BY <3>1, <3>2, FS_Subset
      <3>4. Cardinality(new[b]) \in Nat
        BY <3>3, FS_CardinalityType
      <3>5. ASSUME id \in vvNew[b] PROVE Cardinality(new[b]) < Cardinality(vvNew[b])
        <4>1. Cardinality(vvNew[b] \ {id}) = Cardinality(vvNew[b]) - 1
          BY <3>1, <3>5, FS_RemoveElement
        <4>2. Cardinality(new[b]) = Cardinality(vvNew[b]) - 1
          BY <3>2, <4>1, Zenon
        <4> QED BY <3>1, <4>2
      <3> QED BY <3>1, <3>3, <3>4, <3>5
    <2>1. Cardinality(new[back]) < NewSize
      <3>1. CASE HasPlace(new[home])
        BY <3>1 DEF back, HasPlace
      <3>2. CASE ~HasPlace(new[home])
        <4>1. back = origin
          BY <3>2 DEF back
        <4> QED BY <2>0, <4>1
      <3> QED BY <3>1, <3>2
    <2>2. ASSUME NEW b \in NewBuckets PROVE Cardinality(vvNew'[b]) <= NewSize
      <3>1. CASE b = back
        <4>1. old \notin new[back]
          BY <1>2, <1>5, <1>6 DEF NewOf
        <4>2. Cardinality(new[back] \cup {old}) = Cardinality(new[back]) + 1
          BY <1>6, <2>0, <4>1, FS_AddElement
        <4>3. Cardinality(vvNew'[b]) = Cardinality(new[back]) + 1
          BY <1>9, <3>1, <4>2, Zenon
        <4> QED BY <1>6, <2>0, <2>1, <4>3
      <3>2. CASE b # back
        <4>1. vvNew'[b] = new[b]
          BY <1>9, <3>2
        <4> QED BY <2>0, <4>1
      <3> QED BY <3>1, <3>2
    <2> QED BY <2>2 DEF Bounded
  <1>17. ASSUME NEW c \in TriedBuckets PROVE Cardinality(vvTried'[c]) <= TriedSize
    <2>1. \A e \in TriedBuckets : Cardinality(vvTried[e]) <= TriedSize
      BY DEF AddrInv
    <2>2. CASE c = k
      <3>1. IsFiniteSet(vvTried[k])
        BY <1>3, FS_Subset
      <3>2. Cardinality(vvTried[k]) \in Nat
        BY <3>1, FS_CardinalityType
      <3>3. Cardinality(vvTried[k] \ {old}) = Cardinality(vvTried[k]) - 1 /\ IsFiniteSet(vvTried[k] \ {old})
        BY <1>1, <3>1, FS_RemoveElement
      <3>4. id \notin vvTried[k] \ {old}
        BY <1>3, <1>4 DEF InTried
      <3>5. Cardinality((vvTried[k] \ {old}) \cup {id}) = Cardinality(vvTried[k] \ {old}) + 1
        BY <3>3, <3>4, FS_AddElement
      <3>6. Cardinality(vvTried'[c]) = Cardinality((vvTried[k] \ {old}) \cup {id})
        BY <1>11, <2>2, Zenon
      <3>7. Cardinality(vvTried'[c]) = Cardinality(vvTried[k])
        BY <3>2, <3>3, <3>5, <3>6
      <3> QED BY <1>3, <2>1, <3>7
    <2>3. CASE c # k
      BY <1>11, <2>1, <2>3
    <2> QED BY <2>2, <2>3
  <1> QED BY <1>1, <1>7, <1>11, <1>13, <1>14, <1>15, <1>16, <1>17, GoodKeeps

LEMMA GoodStep ==
    ASSUME AddrInv, NEW s \in Services, Good(s)
    PROVE  AddrInv' /\ TriedStay
  <1>1. PICK id \in Ids, origin \in NewBuckets :
           /\ ~mapInfo[id].fInTried /\ id \in vvNew[origin]
           /\ \/ Place(id) /\ UNCHANGED mapAddr
              \/ \E old \in Ids : Evict(id, origin, old)
    BY DEF Good, Candidate
  <1>2. UNCHANGED <<nIdCount, vRandom>>
    BY DEF Good
  <1>3. CASE Place(id) /\ UNCHANGED mapAddr
    BY <1>1, <1>2, <1>3, PlaceStep
  <1>4. CASE \E old \in Ids : Evict(id, origin, old)
    BY <1>1, <1>2, <1>4, EvictStep
  <1> QED BY <1>1, <1>3, <1>4

LEMMA GetAddrStep ==
    ASSUME AddrInv, NEW pick \in [1..nNodes -> 1..Len(vRandom)], GetAddr(pick)
    PROVE  AddrInv' /\ TriedStay
  <1>1. Len(vRandom) \in Nat /\ mapInfo \in [Ids -> Info] /\ Positions(mapInfo, vRandom)
    BY TidyFacts DEF AddrInv, Tidy, Typed, Ids
  <1>2. nNodes \in 0..Len(vRandom)
    BY <1>1, NodesBounded
  <1>3. /\ mapInfo' \in [Ids -> Info] /\ SameEntries(mapInfo, mapInfo')
        /\ Positions(mapInfo', vRandom') /\ Len(vRandom') = Len(vRandom)
    BY <1>1, <1>2, ShuffledFacts DEF GetAddr
  <1>4. UNCHANGED <<nIdCount, mapAddr, vvNew, vvTried, nNew, nTried>>
    BY DEF GetAddr
  <1>5. /\ DOMAIN mapInfo' = Ids /\ DOMAIN mapInfo = Ids
        /\ \A n \in Ids :
              /\ mapInfo'[n].addr = mapInfo[n].addr
              /\ mapInfo'[n].nRefCount = mapInfo[n].nRefCount
              /\ mapInfo'[n].fInTried = mapInfo[n].fInTried
    BY <1>3 DEF SameEntries, Ids
  <1>6. Hosted(mapInfo', mapAddr)
    <2>1. Hosted(mapInfo, mapAddr)
      BY DEF AddrInv, Tidy
    <2>2. \A h \in Hosts : mapAddr[h] # NoId => mapAddr[h] \in Ids
      BY <1>5, <2>1 DEF Hosted
    <2> QED BY <1>5, <2>1, <2>2 DEF Hosted
  <1>7. Counted(mapInfo', vvNew, NoId)
    <2>1. Counted(mapInfo, vvNew, NoId)
      BY DEF AddrInv, Tidy
    <2> QED BY <1>5, <2>1 DEF Counted
  <1>8. Sorted(mapInfo', vvNew)
    <2> SUFFICES ASSUME NEW n \in Ids
                 PROVE  IF mapInfo'[n].fInTried
                        THEN /\ NewOf(vvNew, n) = {}
                             /\ InTried(n) = {TriedBucket[mapInfo'[n].addr]}
                        ELSE mapInfo'[n].nRefCount \in 1..MaxRefs /\ InTried(n) = {}
      BY <1>5 DEF Sorted
    <2>1. IF mapInfo[n].fInTried
          THEN NewOf(vvNew, n) = {} /\ InTried(n) = {TriedBucket[mapInfo[n].addr]}
          ELSE mapInfo[n].nRefCount \in 1..MaxRefs /\ InTried(n) = {}
      BY <1>5 DEF AddrInv, Tidy, Sorted
    <2>2. /\ mapInfo'[n].addr = mapInfo[n].addr /\ mapInfo'[n].nRefCount = mapInfo[n].nRefCount
          /\ mapInfo'[n].fInTried = mapInfo[n].fInTried
      BY <1>5
    <2> QED BY <2>1, <2>2
  <1>9. Numbered(mapInfo', vRandom', nNew)
    <2>1. TriedOf(mapInfo') = TriedOf(mapInfo) /\ UntriedOf(mapInfo') = UntriedOf(mapInfo)
      BY <1>5 DEF TriedOf, UntriedOf
    <2>2. Numbered(mapInfo, vRandom, nNew)
      BY DEF AddrInv, Tidy
    <2> QED BY <1>3, <1>5, <2>1, <2>2 DEF Numbered
  <1>10. Typed(mapInfo')
    BY <1>3, <1>5 DEF AddrInv, Tidy, Typed
  <1>11. Tidy(mapInfo', mapAddr', vRandom', vvNew', nNew', NoId)
    BY <1>3, <1>4, <1>6, <1>7, <1>8, <1>9, <1>10 DEF AddrInv, Tidy
  <1>12. nIdCount' \in 0..MaxIds /\ DOMAIN mapInfo' \subseteq 0..(nIdCount' - 1)
    BY <1>4, <1>5 DEF AddrInv
  <1>13. AddrInv'
    BY <1>4, <1>11, <1>12, AddKeeps
  <1> QED BY <1>5, <1>13 DEF TriedStay, TriedIds

-----------------------------------------------------------------------------
(* Saving and loading peers.dat.                                             *)

LEMMA SmallerSet ==
    ASSUME NEW S, IsFiniteSet(S), NEW x \in S, NEW T \in SUBSET (S \ {x})
    PROVE  /\ IsFiniteSet(T) /\ Cardinality(T) \in Nat /\ Cardinality(S) \in Nat
           /\ Cardinality(T) < Cardinality(S)
  <1>1. IsFiniteSet(S \ {x}) /\ Cardinality(S \ {x}) = Cardinality(S) - 1
    BY FS_RemoveElement
  <1>2. IsFiniteSet(T) /\ Cardinality(T) <= Cardinality(S \ {x})
    BY <1>1, FS_Subset
  <1>3. Cardinality(T) \in Nat /\ Cardinality(S) \in Nat
    BY <1>2, FS_CardinalityType
  <1> QED BY <1>1, <1>2, <1>3

(* The place of n in the order of S.                                         *)
LEMMA BelowFacts ==
    ASSUME NEW S \in SUBSET Nat, IsFiniteSet(S)
    PROVE  /\ \A n \in S : Below(S, n) \in Nat /\ Below(S, n) < Cardinality(S)
           /\ \A m, n \in S : m < n => Below(S, m) < Below(S, n)
           /\ \A m, n \in S : Below(S, m) = Below(S, n) => m = n
  <1> DEFINE before(n) == {m \in S : m < n}
  <1>1. \A n \in S : Below(S, n) = Cardinality(before(n))
    BY DEF Below
  <1>2. ASSUME NEW n \in S
        PROVE  IsFiniteSet(before(n)) /\ Below(S, n) \in Nat /\ Below(S, n) < Cardinality(S)
    <2>1. before(n) \in SUBSET (S \ {n})
      OBVIOUS
    <2> QED BY <1>1, <2>1, SmallerSet
  <1>3. ASSUME NEW m \in S, NEW n \in S, m < n
        PROVE  Below(S, m) < Below(S, n)
    <2>1. before(m) \in SUBSET (before(n) \ {m}) /\ m \in before(n)
      <3>1. m \in Nat /\ n \in Nat /\ ~(m < m)
        OBVIOUS
      <3>2. ASSUME NEW j \in S, j < m PROVE j < n /\ j # m
        <4>1. j \in Nat
          OBVIOUS
        <4> QED BY <1>3, <3>1, <3>2, <4>1
      <3> QED BY <1>3, <3>2
    <2>2. Cardinality(before(m)) < Cardinality(before(n))
      BY <1>2, <2>1, SmallerSet
    <2> QED BY <1>1, <2>2
  <1>4. ASSUME NEW m \in S, NEW n \in S, Below(S, m) = Below(S, n)
        PROVE  m = n
    <2>1. m \in Nat /\ n \in Nat /\ Below(S, m) \in Nat
      BY <1>2
    <2> QED BY <1>3, <1>4, <2>1
  <1> QED BY <1>2, <1>3, <1>4

(* The sets that are saved.  No tried entry is lost: as many as a bucket     *)
(* holds find a place when it is loaded.                                     *)
LEMMA SavedFacts ==
    ASSUME AddrInv
    PROVE  /\ NewIds = UntriedOf(mapInfo) /\ TriedIds = TriedOf(mapInfo)
           /\ Lost = {} /\ (NewIds \cup TriedIds) \ Lost = Ids /\ TriedIds \ Lost = TriedIds
           /\ \A k \in TriedBuckets :
                 vvTried[k] = {n \in TriedIds : TriedBucket[mapInfo[n].addr] = k}
  <1>1. \A n \in Ids : IF mapInfo[n].fInTried
                       THEN NewOf(vvNew, n) = {} /\ InTried(n) = {TriedBucket[mapInfo[n].addr]}
                       ELSE mapInfo[n].nRefCount \in 1..MaxRefs /\ InTried(n) = {}
    BY DEF AddrInv, Tidy, Sorted, Ids
  <1>2. \A n \in Ids : n # NoId /\ mapInfo[n].addr \in Services
    BY TidyFacts DEF AddrInv, Ids, Info
  <1>3. ASSUME NEW n \in Ids PROVE mapInfo[n].nRefCount # 0 <=> ~mapInfo[n].fInTried
    <2>1. CASE mapInfo[n].fInTried
      <3>1. Cardinality(NewOf(vvNew, n)) = 0
        BY <1>1, <2>1, FS_EmptySet, Zenon
      <3>2. mapInfo[n].nRefCount = Cardinality(NewOf(vvNew, n)) + 0
        BY <1>2 DEF AddrInv, Tidy, Counted, Ids
      <3> QED BY <2>1, <3>1, <3>2
    <2>2. CASE ~mapInfo[n].fInTried
      BY <1>1, <2>2, SizeAssumption
    <2> QED BY <2>1, <2>2
  <1>4. NewIds = UntriedOf(mapInfo) /\ TriedIds = TriedOf(mapInfo)
    BY <1>3 DEF NewIds, TriedIds, UntriedOf, TriedOf, Ids
  <1>5. /\ vvTried \in [TriedBuckets -> SUBSET Ids] /\ IsFiniteSet(Ids)
        /\ \A k \in TriedBuckets : Cardinality(vvTried[k]) <= TriedSize
    BY DEF AddrInv, Tidy, Typed, Numbered, Ids
  <1>6. ASSUME NEW k \in TriedBuckets
        PROVE  vvTried[k] = {n \in TriedIds : TriedBucket[mapInfo[n].addr] = k}
    <2>1. ASSUME NEW n \in vvTried[k] PROVE n \in TriedIds /\ TriedBucket[mapInfo[n].addr] = k
      <3>1. n \in Ids /\ k \in InTried(n)
        BY <1>5 DEF InTried
      <3> QED BY <1>1, <3>1 DEF TriedIds
    <2>2. ASSUME NEW n \in TriedIds, TriedBucket[mapInfo[n].addr] = k PROVE n \in vvTried[k]
      <3>1. k \in InTried(n)
        BY <1>1, <2>2 DEF TriedIds
      <3> QED BY <3>1 DEF InTried
    <2> QED BY <2>1, <2>2
  <1>7. ASSUME NEW n \in TriedIds
        PROVE  ~(Below({m \in TriedIds : TriedBucket[mapInfo[m].addr] = TriedBucket[mapInfo[n].addr]}, n)
                    >= TriedSize)
    <2> DEFINE k == TriedBucket[mapInfo[n].addr]
               S == {m \in TriedIds : TriedBucket[mapInfo[m].addr] = k}
    <2>1. k \in TriedBuckets /\ n \in S
      BY <1>2, BucketAssumption DEF TriedIds
    <2>2. S = vvTried[k]
      BY <1>6, <2>1
    <2>3. IsFiniteSet(S) /\ S \in SUBSET Nat /\ Cardinality(S) <= TriedSize
      <3>1. S \in SUBSET Ids
        BY DEF TriedIds
      <3>2. IsFiniteSet(S)
        BY <1>5, <3>1, FS_Subset
      <3>3. Cardinality(S) <= TriedSize
        BY <1>5, <2>1, <2>2, Zenon
      <3>4. Ids \subseteq Nat
        BY DEF AddrInv, Tidy, Typed, Ids
      <3> QED BY <3>1, <3>2, <3>3, <3>4
    <2> HIDE DEF S
    <2>4. Below(S, n) \in Nat /\ Below(S, n) < Cardinality(S) /\ Cardinality(S) \in Nat
      BY <2>1, <2>3, BelowFacts, FS_CardinalityType
    <2>5. ~(Below(S, n) >= TriedSize)
      BY <2>3, <2>4, SizeAssumption
    <2> QED BY <2>5 DEF S
  <1>8. Lost = {}
    BY <1>7 DEF Lost
  <1>9. NewIds \cup TriedIds = Ids
    BY <1>4 DEF UntriedOf, TriedOf, Ids
  <1> QED BY <1>4, <1>6, <1>8, <1>9

(* Numbering the entries again is a bijection, id, with the inverse at.      *)
Renames(id, at, N) ==
    /\ N \in Nat
    /\ id \in [Ids -> 0..(N - 1)] /\ at \in [0..(N - 1) -> Ids]
    /\ \A n \in Ids : at[id[n]] = n
    /\ \A m \in 0..(N - 1) : id[at[m]] = m

LEMMA ImageSize ==
    ASSUME NEW id, NEW S, IsFiniteSet(S), \A m, n \in S : id[m] = id[n] => m = n
    PROVE  IsFiniteSet({id[n] : n \in S}) /\ Cardinality({id[n] : n \in S}) = Cardinality(S)
  <1> DEFINE T == {id[n] : n \in S}
             f == [n \in S |-> id[n]]
  <1>1. f \in [S -> T] /\ (\A m, n \in S : f[m] = f[n] => m = n)
    OBVIOUS
  <1>2. \A t \in T : \E n \in S : f[n] = t
    OBVIOUS
  <1> HIDE DEF f, T
  <1>3. f \in Bijection(S, T)
    BY <1>1, <1>2, Fun_IsBij
  <1>4. ExistsBijection(S, T)
    BY <1>3 DEF ExistsBijection
  <1>5. IsFiniteSet(T) /\ Cardinality(T) = Cardinality(S)
    BY <1>4, FS_Bijection
  <1> QED BY <1>5 DEF T

LEMMA LoadRenames ==
    ASSUME AddrInv, NEW id, id = [n \in Ids |-> IdOnLoad(n)],
           NEW N, N = Cardinality(Ids),
           NEW at, at = [m \in 0..(N - 1) |-> CHOOSE n \in Ids : id[n] = m]
    PROVE  /\ Renames(id, at, N) /\ N = nTried + nNew /\ N <= nIdCount
           /\ {id[n] : n \in Ids} = 0..(N - 1)
  <1> DEFINE U == UntriedOf(mapInfo)
             T == TriedOf(mapInfo)
             E == 0..(N - 1)
  <1>1. /\ NewIds = U /\ TriedIds = T /\ TriedIds \ Lost = T
        /\ T \cup U = Ids /\ T \cap U = {}
    BY SavedFacts DEF TriedOf, UntriedOf, Ids
  <1>2. /\ Ids \subseteq Nat /\ IsFiniteSet(Ids) /\ IsFiniteSet(T) /\ IsFiniteSet(U)
        /\ Cardinality(T) = nTried /\ Cardinality(U) = nNew /\ nTried \in Nat /\ nNew \in Nat
    BY TidyFacts DEF AddrInv, Tidy, Typed, Numbered, Ids
  <1>3. N = nTried + nNew /\ N \in Nat
    <2>1. Cardinality(T \cup U) = Cardinality(T) + Cardinality(U) - Cardinality(T \cap U)
      BY <1>2, FS_Union
    <2>2. Cardinality(T \cap U) = 0
      BY <1>1, FS_EmptySet, Zenon
    <2>3. N = Cardinality(T \cup U)
      BY <1>1, Zenon
    <2> QED BY <1>2, <2>1, <2>2, <2>3
  <1>4. N <= nIdCount
    <2>1. nIdCount \in Nat /\ Ids \in SUBSET (0..(nIdCount - 1))
      BY SizeAssumption DEF AddrInv
    <2>2. IsFiniteSet(0..(nIdCount - 1)) /\ Cardinality(0..(nIdCount - 1)) = nIdCount
      <3>1. 0 \in Int /\ nIdCount - 1 \in Int /\ nIdCount \in Nat
        BY <2>1
      <3>2. /\ IsFiniteSet(0..(nIdCount - 1))
            /\ Cardinality(0..(nIdCount - 1)) =
                  IF 0 > nIdCount - 1 THEN 0 ELSE (nIdCount - 1) - 0 + 1
        BY <3>1, FS_Interval, Zenon
      <3> QED BY <3>1, <3>2
    <2> QED BY <2>1, <2>2, FS_Subset
  <1>5. /\ \A n \in T : id[n] = nNew + Below(T, n)
        /\ \A n \in U : id[n] = Below(U, n)
    BY <1>1 DEF IdOnLoad, TriedOf, UntriedOf
  <1> HIDE DEF T, U
  <1>6. /\ \A n \in T : Below(T, n) \in Nat /\ Below(T, n) < nTried
        /\ \A m, n \in T : Below(T, m) = Below(T, n) => m = n
    BY <1>1, <1>2, BelowFacts
  <1>7. /\ \A n \in U : Below(U, n) \in Nat /\ Below(U, n) < nNew
        /\ \A m, n \in U : Below(U, m) = Below(U, n) => m = n
    BY <1>1, <1>2, BelowFacts
  <1>8. /\ \A n \in T : id[n] \in nNew..(N - 1)
        /\ \A n \in U : id[n] \in 0..(nNew - 1)
    <2>1. ASSUME NEW n \in T PROVE id[n] \in nNew..(N - 1)
      <3>1. id[n] = nNew + Below(T, n) /\ Below(T, n) \in Nat /\ Below(T, n) < nTried
        BY <1>5, <1>6
      <3> QED BY <1>2, <1>3, <3>1
    <2>2. ASSUME NEW n \in U PROVE id[n] \in 0..(nNew - 1)
      <3>1. id[n] = Below(U, n) /\ Below(U, n) \in Nat /\ Below(U, n) < nNew
        BY <1>5, <1>7
      <3> QED BY <1>2, <3>1
    <2> QED BY <2>1, <2>2
  <1>8a. \A n \in Ids : id[n] \in E
    <2>1. nNew..(N - 1) \subseteq E /\ 0..(nNew - 1) \subseteq E
      BY <1>2, <1>3
    <2> QED BY <1>1, <1>8, <2>1, Zenon
  <1>9. ASSUME NEW m \in Ids, NEW n \in Ids, id[m] = id[n] PROVE m = n
    <2>1. CASE m \in T /\ n \in T
      <3>1. nNew + Below(T, m) = nNew + Below(T, n) /\ Below(T, m) \in Nat /\ Below(T, n) \in Nat
        BY <1>5, <1>6, <1>9, <2>1
      <3>2. Below(T, m) = Below(T, n)
        BY <1>2, <3>1
      <3> QED BY <1>6, <2>1, <3>2
    <2>2. CASE m \in U /\ n \in U
      BY <1>5, <1>7, <1>9, <2>2
    <2>3. CASE m \in T /\ n \in U
      <3>1. id[m] \in nNew..(N - 1) /\ id[m] \in 0..(nNew - 1)
        BY <1>8, <1>9, <2>3
      <3> QED BY <1>2, <1>3, <3>1
    <2>4. CASE m \in U /\ n \in T
      <3>1. id[m] \in nNew..(N - 1) /\ id[m] \in 0..(nNew - 1)
        BY <1>8, <1>9, <2>4
      <3> QED BY <1>2, <1>3, <3>1
    <2> QED BY <1>1, <2>1, <2>2, <2>3, <2>4
  <1>10. id \in [Ids -> E]
    BY <1>8a
  <1>11. id \in Injection(Ids, E)
    BY <1>9, <1>10, Fun_IsInj
  <1>12. IsFiniteSet(E) /\ Cardinality(E) = N
    BY <1>3, FS_Interval
  <1>13. id \in Surjection(Ids, E)
    BY <1>11, <1>12, FS_Injection
  <1>14. \A m \in E : \E n \in Ids : id[n] = m
    BY <1>10, <1>13 DEF Surjection, Range
  <1>15. \A m \in E : at[m] \in Ids /\ id[at[m]] = m
    BY <1>14
  <1>16. at \in [E -> Ids]
    BY <1>15
  <1>17. \A n \in Ids : at[id[n]] = n
    BY <1>8a, <1>9, <1>15
  <1>18. Renames(id, at, N)
    BY <1>3, <1>10, <1>15, <1>16, <1>17 DEF Renames
  <1>19. {id[n] : n \in Ids} = E
    BY <1>8a, <1>14
  <1> QED BY <1>3, <1>4, <1>18, <1>19

(* What loading makes of the tables.                                         *)
Loads(id, at, N) ==
    /\ nIdCount' = N
    /\ mapInfo' \in [0..(N - 1) -> Info]
    /\ \A m \in 0..(N - 1) :
          /\ mapInfo'[m].addr = mapInfo[at[m]].addr
          /\ mapInfo'[m].source = mapInfo[at[m]].source
          /\ mapInfo'[m].fInTried = mapInfo[at[m]].fInTried
          /\ mapInfo'[m].nRefCount = Cardinality(NewOf(vvNew, at[m]))
          /\ mapInfo'[m].nRandomPos = m + 1
    /\ mapAddr' = [h \in Hosts |-> IF mapAddr[h] \in Ids THEN id[mapAddr[h]] ELSE NoId]
    /\ vRandom' = [i \in 1..N |-> i - 1]
    /\ vvNew' = [b \in NewBuckets |-> {id[n] : n \in vvNew[b]}]
    /\ vvTried' = [k \in TriedBuckets |-> {id[n] : n \in vvTried[k]}]
    /\ nTried' = nTried /\ nNew' = nNew

LEMMA RestartLoads ==
    ASSUME AddrInv, Restart
    PROVE  \E id, at, N : /\ Renames(id, at, N) /\ Loads(id, at, N)
                          /\ N = nTried + nNew /\ N <= nIdCount
  <1> DEFINE kept == (NewIds \cup TriedIds) \ Lost
             number == [n \in kept |-> IdOnLoad(n)]
             image(S) == {number[n] : n \in S}
             from(m) == CHOOSE n \in kept : number[n] = m
  <1>1. /\ nIdCount' = Cardinality(kept)
        /\ mapInfo' = [m \in image(kept) |->
              [mapInfo[from(m)] EXCEPT
                  !.nRandomPos = m + 1,
                  !.nRefCount = Cardinality({b \in NewBuckets : from(m) \in vvNew[b]})]]
        /\ mapAddr' = [h \in Hosts |->
              IF mapAddr[h] \in kept THEN number[mapAddr[h]] ELSE NoId]
        /\ vRandom' = [i \in 1..Cardinality(kept) |-> i - 1]
        /\ vvNew' = [b \in NewBuckets |-> image(vvNew[b])]
        /\ vvTried' = [k \in TriedBuckets |->
              image({n \in TriedIds \ Lost : TriedBucket[mapInfo[n].addr] = k})]
        /\ nTried' = nTried - Cardinality(Lost)
        /\ nNew' = nNew
    BY Zenon DEF Restart
  <1> DEFINE id == [n \in Ids |-> IdOnLoad(n)]
             N == Cardinality(Ids)
             E == 0..(N - 1)
             at == [m \in E |-> CHOOSE n \in Ids : id[n] = m]
  <1>2. kept = Ids /\ TriedIds \ Lost = TriedIds /\ Lost = {} /\ number = id
    BY SavedFacts
  <1>3. /\ Renames(id, at, N) /\ N = nTried + nNew /\ N <= nIdCount
        /\ {id[n] : n \in Ids} = E
    <2>1. /\ id = [n \in Ids |-> IdOnLoad(n)] /\ N = Cardinality(Ids)
          /\ at = [m \in 0..(N - 1) |-> CHOOSE n \in Ids : id[n] = m]
      OBVIOUS
    <2> HIDE DEF id, N, at
    <2> QED BY <2>1, LoadRenames
  <1>4. \A m \in E : from(m) = at[m] /\ at[m] \in Ids /\ mapInfo[at[m]] \in Info
    <2>1. \A m \in E : at[m] = CHOOSE n \in Ids : id[n] = m
      OBVIOUS
    <2>2. \A m : from(m) = CHOOSE n \in Ids : id[n] = m
      BY <1>2, Zenon
    <2>3. mapInfo \in [Ids -> Info]
      BY DEF AddrInv, Tidy, Typed, Ids
    <2> HIDE DEF at, id
    <2>4. \A m \in E : at[m] \in Ids
      BY <1>3 DEF Renames
    <2>5. \A m \in E : from(m) = at[m]
      BY <2>1, <2>2, Zenon
    <2> QED BY <2>3, <2>4, <2>5
  <1>5. image(kept) = E
    BY <1>2, <1>3, Zenon
  <1> HIDE DEF at, id, from, kept, N
  <1>6. mapInfo' = [m \in E |->
              [mapInfo[from(m)] EXCEPT
                  !.nRandomPos = m + 1,
                  !.nRefCount = Cardinality({b \in NewBuckets : from(m) \in vvNew[b]})]]
    BY <1>1, <1>5, Zenon
  <1>7. ASSUME NEW m \in E
        PROVE  /\ mapInfo'[m] \in Info
               /\ mapInfo'[m].addr = mapInfo[at[m]].addr
               /\ mapInfo'[m].source = mapInfo[at[m]].source
               /\ mapInfo'[m].fInTried = mapInfo[at[m]].fInTried
               /\ mapInfo'[m].nRefCount = Cardinality(NewOf(vvNew, at[m]))
               /\ mapInfo'[m].nRandomPos = m + 1
    <2>1. from(m) = at[m] /\ mapInfo[at[m]] \in Info
      BY <1>4
    <2>2. PICK r \in Info : r = mapInfo[at[m]]
      BY <2>1
    <2>3. PICK c \in Nat : c = Cardinality(NewOf(vvNew, at[m]))
      BY NewOfFinite
    <2>4. mapInfo'[m] = [r EXCEPT !.nRandomPos = m + 1, !.nRefCount = c]
      BY <1>6, <2>1, <2>2, <2>3 DEF NewOf
    <2>5. m + 1 \in Nat
      BY <1>3 DEF Renames
    <2> DEFINE e == mapInfo'[m]
    <2>6. /\ e \in Info /\ e.addr = r.addr /\ e.source = r.source /\ e.fInTried = r.fInTried
          /\ e.nRefCount = c /\ e.nRandomPos = m + 1
      <3>1. e = [r EXCEPT !.nRandomPos = m + 1, !.nRefCount = c]
        BY <2>4
      <3> HIDE DEF e
      <3> QED BY <2>5, <3>1 DEF Info
    <2> QED BY <2>2, <2>3, <2>6
  <1>8. mapInfo' \in [E -> Info]
    <2>1. mapInfo' = [m \in E |-> mapInfo'[m]]
      BY <1>6
    <2> QED BY <1>7, <2>1
  <1>9. \A S : image(S) = {id[n] : n \in S}
    BY <1>2
  <1>10. /\ mapAddr' = [h \in Hosts |-> IF mapAddr[h] \in Ids THEN id[mapAddr[h]] ELSE NoId]
         /\ vRandom' = [i \in 1..N |-> i - 1] /\ nIdCount' = N
    BY <1>1, <1>2 DEF N
  <1>11. vvNew' = [b \in NewBuckets |-> {id[n] : n \in vvNew[b]}]
    BY <1>1, <1>9, Zenon
  <1>12. vvTried' = [k \in TriedBuckets |-> {id[n] : n \in vvTried[k]}]
    <2>1. \A k \in TriedBuckets :
             vvTried[k] = {n \in TriedIds \ Lost : TriedBucket[mapInfo[n].addr] = k}
      BY <1>2, SavedFacts
    <2> QED BY <1>1, <1>9, <2>1, Zenon
  <1>13. nTried' = nTried /\ nNew' = nNew
    <2>1. Cardinality(Lost) = 0 /\ nTried \in Nat
      BY <1>2, FS_EmptySet, TidyFacts DEF AddrInv
    <2>2. nTried' = nTried - Cardinality(Lost) /\ nNew' = nNew
      BY <1>1, Zenon
    <2> QED BY <2>1, <2>2
  <1>14. Loads(id, at, N)
    BY <1>7, <1>8, <1>10, <1>11, <1>12, <1>13 DEF Loads
  <1> QED BY <1>3, <1>14

LEMMA RestartStep ==
    ASSUME AddrInv, Restart
    PROVE  /\ AddrInv' /\ Known(mapInfo', vvNew') = Known(mapInfo, vvNew)
           /\ \A n \in TriedIds : mapAddr'[Host[mapInfo[n].addr]] # NoId
  <1>0. PICK id, at, N : /\ Renames(id, at, N) /\ Loads(id, at, N)
                         /\ N = nTried + nNew /\ N <= nIdCount
    BY RestartLoads
  <1> DEFINE E == 0..(N - 1)
             S == [i \in 1..N |-> i - 1]
  <1>1. /\ N \in Nat /\ id \in [Ids -> E] /\ at \in [E -> Ids]
        /\ \A n \in Ids : id[n] \in E /\ at[id[n]] = n
        /\ \A m \in E : at[m] \in Ids /\ id[at[m]] = m
    BY <1>0 DEF Renames
  <1>2. /\ nIdCount' = N /\ DOMAIN mapInfo' = E /\ mapInfo' \in [E -> Info]
        /\ nTried' = nTried /\ nNew' = nNew
    BY <1>0 DEF Loads
  <1>3. \A m \in E : /\ mapInfo'[m].addr = mapInfo[at[m]].addr
                     /\ mapInfo'[m].source = mapInfo[at[m]].source
                     /\ mapInfo'[m].fInTried = mapInfo[at[m]].fInTried
                     /\ mapInfo'[m].nRefCount = Cardinality(NewOf(vvNew, at[m]))
                     /\ mapInfo'[m].nRandomPos = m + 1
    BY <1>0 DEF Loads
  <1>4. /\ mapAddr' = [h \in Hosts |-> IF mapAddr[h] \in Ids THEN id[mapAddr[h]] ELSE NoId]
        /\ vRandom' = S
    BY <1>0 DEF Loads
  <1>5. /\ vvNew' = [b \in NewBuckets |-> {id[n] : n \in vvNew[b]}]
        /\ vvTried' = [k \in TriedBuckets |-> {id[n] : n \in vvTried[k]}]
    BY <1>0 DEF Loads
  <1>6. /\ vvNew \in [NewBuckets -> SUBSET Ids] /\ vvTried \in [TriedBuckets -> SUBSET Ids]
        /\ IsFiniteSet(Ids) /\ \A n \in Ids : n # NoId /\ mapInfo[n] \in Info
        /\ IsFiniteSet(TriedOf(mapInfo)) /\ IsFiniteSet(UntriedOf(mapInfo))
        /\ nTried \in Nat /\ nNew \in Nat
    BY TidyFacts DEF AddrInv, Tidy, Typed, Counted, Numbered, Ids
  <1>7. /\ vvNew' \in [NewBuckets -> SUBSET E] /\ vvTried' \in [TriedBuckets -> SUBSET E]
        /\ \A b \in NewBuckets : \A m \in E : m \in vvNew'[b] <=> at[m] \in vvNew[b]
        /\ \A k \in TriedBuckets : \A m \in E : m \in vvTried'[k] <=> at[m] \in vvTried[k]
    BY <1>1, <1>5, <1>6
  <1>8. \A m \in E : /\ NewOf(vvNew', m) = NewOf(vvNew, at[m])
                     /\ InTried(m)' = InTried(at[m])
    BY <1>7 DEF NewOf, InTried
  <1>9. Typed(mapInfo)'
    BY <1>1, <1>2, <1>7 DEF Typed
  <1>10. Positions(mapInfo, vRandom)'
    <2>1. S \in [1..N -> E]
      BY <1>1
    <2>2. S \in Seq(E) /\ Len(S) = N
      BY <1>1, <2>1, FunctionIsSeq
    <2>3. \A i \in 1..N : S[i] = i - 1 /\ i - 1 \in E
      BY <1>1
    <2> HIDE DEF S
    <2>4. vRandom' \in Seq(DOMAIN mapInfo')
      BY <1>2, <1>4, <2>2
    <2>5. ASSUME NEW m \in DOMAIN mapInfo'
          PROVE  mapInfo'[m].nRandomPos \in 1..Len(vRandom') /\ vRandom'[mapInfo'[m].nRandomPos] = m
      <3>1. m \in E /\ mapInfo'[m].nRandomPos = m + 1
        BY <1>2, <1>3
      <3>2. m + 1 \in 1..N /\ (m + 1) - 1 = m
        BY <1>1, <3>1
      <3> QED BY <1>4, <2>2, <2>3, <3>1, <3>2
    <2>6. ASSUME NEW i \in 1..Len(vRandom') PROVE mapInfo'[vRandom'[i]].nRandomPos = i
      <3>1. i \in 1..N /\ vRandom'[i] = i - 1 /\ i - 1 \in E
        BY <1>4, <2>2, <2>3
      <3>2. mapInfo'[i - 1].nRandomPos = (i - 1) + 1
        BY <1>3, <3>1
      <3> QED BY <1>1, <3>1, <3>2
    <2> QED BY <2>4, <2>5, <2>6 DEF Positions
  <1>11. Hosted(mapInfo, mapAddr)'
    <2>1. /\ mapAddr \in [Hosts -> Ids \cup {NoId}]
          /\ \A n \in Ids : mapAddr[Host[mapInfo[n].addr]] = n /\ Host[mapInfo[n].addr] \in Hosts
          /\ \A h \in Hosts : mapAddr[h] # NoId => Host[mapInfo[mapAddr[h]].addr] = h
      BY TidyFacts DEF AddrInv, Tidy, Hosted, Ids
    <2>2. \A h \in Hosts : mapAddr'[h] = IF mapAddr[h] \in Ids THEN id[mapAddr[h]] ELSE NoId
      BY <1>4
    <2>3. mapAddr' \in [Hosts -> E \cup {NoId}]
      BY <1>1, <1>4
    <2>4. ASSUME NEW m \in E PROVE mapAddr'[Host[mapInfo'[m].addr]] = m
      <3>1. at[m] \in Ids /\ id[at[m]] = m /\ mapInfo'[m].addr = mapInfo[at[m]].addr
        BY <1>1, <1>3
      <3>2. mapAddr[Host[mapInfo[at[m]].addr]] = at[m] /\ Host[mapInfo[at[m]].addr] \in Hosts
        BY <2>1, <3>1
      <3> QED BY <2>2, <3>1, <3>2
    <2>5. ASSUME NEW h \in Hosts, mapAddr'[h] # NoId PROVE Host[mapInfo'[mapAddr'[h]].addr] = h
      <3>1. mapAddr[h] \in Ids /\ mapAddr'[h] = id[mapAddr[h]]
        BY <2>2, <2>5
      <3>2. mapAddr'[h] \in E /\ at[mapAddr'[h]] = mapAddr[h] /\ mapAddr[h] # NoId
        BY <1>1, <1>6, <3>1
      <3> QED BY <1>3, <2>1, <3>2
    <2> QED BY <1>2, <2>3, <2>4, <2>5 DEF Hosted, Hosts, NoId
  <1>12. Counted(mapInfo, vvNew, NoId)'
    <2>1. ASSUME NEW m \in E PROVE mapInfo'[m].nRefCount = Cardinality(NewOf(vvNew', m)) + 0
      <3>1. mapInfo'[m].nRefCount = Cardinality(NewOf(vvNew', m))
        BY <1>3, <1>8, Zenon
      <3> QED BY <3>1, NewOfFinite
    <2>2. \A m \in E : m # NoId
      BY <1>1 DEF NoId
    <2> QED BY <1>2, <1>7, <2>1, <2>2 DEF Counted, NewOf, NoId
  <1>13. Sorted(mapInfo, vvNew)'
    <2> SUFFICES ASSUME NEW m \in E
                 PROVE  IF mapInfo'[m].fInTried
                        THEN /\ NewOf(vvNew', m) = {}
                             /\ InTried(m)' = {TriedBucket[mapInfo'[m].addr]}
                        ELSE mapInfo'[m].nRefCount \in 1..MaxRefs /\ InTried(m)' = {}
      BY <1>2 DEF Sorted, NewOf, InTried
    <2>1. at[m] \in Ids
      BY <1>1
    <2>2. IF mapInfo[at[m]].fInTried
          THEN NewOf(vvNew, at[m]) = {} /\ InTried(at[m]) = {TriedBucket[mapInfo[at[m]].addr]}
          ELSE mapInfo[at[m]].nRefCount \in 1..MaxRefs /\ InTried(at[m]) = {}
      BY <2>1 DEF AddrInv, Tidy, Sorted, Ids
    <2>3. mapInfo[at[m]].nRefCount = Cardinality(NewOf(vvNew, at[m]))
      <3>1. mapInfo[at[m]].nRefCount = Cardinality(NewOf(vvNew, at[m])) + 0
        BY <1>6, <2>1 DEF AddrInv, Tidy, Counted, Ids
      <3> QED BY <3>1, NewOfFinite
    <2>4. /\ NewOf(vvNew', m) = NewOf(vvNew, at[m]) /\ InTried(m)' = InTried(at[m])
          /\ mapInfo'[m].addr = mapInfo[at[m]].addr
          /\ mapInfo'[m].fInTried = mapInfo[at[m]].fInTried
          /\ mapInfo'[m].nRefCount = mapInfo[at[m]].nRefCount
      BY <1>3, <1>8, <2>3
    <2> QED BY <2>2, <2>4
  <1>14. ASSUME NEW M \in SUBSET Ids, NEW M1, M1 = {id[n] : n \in M}
         PROVE  IsFiniteSet(M1) /\ Cardinality(M1) = Cardinality(M)
    <2>1. IsFiniteSet(M)
      BY <1>6, FS_Subset
    <2>2. \A m, n \in M : id[m] = id[n] => m = n
      BY <1>1
    <2>3. /\ IsFiniteSet({id[n] : n \in M})
          /\ Cardinality({id[n] : n \in M}) = Cardinality(M)
      BY <2>1, <2>2, ImageSize
    <2> QED BY <1>14, <2>3, Zenon
  <1>15. Numbered(mapInfo, vRandom, nNew)'
    <2>1. /\ TriedOf(mapInfo') = {id[n] : n \in TriedOf(mapInfo)}
          /\ UntriedOf(mapInfo') = {id[n] : n \in UntriedOf(mapInfo)}
      <3>1. /\ \A m \in E : m \in TriedOf(mapInfo') <=> at[m] \in TriedOf(mapInfo)
            /\ \A m \in E : m \in UntriedOf(mapInfo') <=> at[m] \in UntriedOf(mapInfo)
        BY <1>1, <1>2, <1>3 DEF TriedOf, UntriedOf, Ids
      <3>2. /\ TriedOf(mapInfo') \subseteq E /\ UntriedOf(mapInfo') \subseteq E
            /\ TriedOf(mapInfo) \subseteq Ids /\ UntriedOf(mapInfo) \subseteq Ids
        BY <1>2 DEF TriedOf, UntriedOf, Ids
      <3>3. ASSUME NEW A \in SUBSET E, NEW B \in SUBSET Ids, \A m \in E : m \in A <=> at[m] \in B
            PROVE  A = {id[n] : n \in B}
        <4>1. ASSUME NEW m \in A PROVE m \in {id[n] : n \in B}
          <5>1. at[m] \in B /\ id[at[m]] = m
            BY <1>1, <3>3
          <5> QED BY <5>1
        <4>2. ASSUME NEW n \in B PROVE id[n] \in A
          <5>1. id[n] \in E /\ at[id[n]] = n
            BY <1>1
          <5> QED BY <3>3, <5>1
        <4> QED BY <4>1, <4>2
      <3> QED BY <3>1, <3>2, <3>3
    <2>2. TriedOf(mapInfo) \in SUBSET Ids /\ UntriedOf(mapInfo) \in SUBSET Ids
      BY DEF TriedOf, UntriedOf, Ids
    <2>3. /\ Cardinality(TriedOf(mapInfo')) = Cardinality(TriedOf(mapInfo))
          /\ Cardinality(UntriedOf(mapInfo')) = Cardinality(UntriedOf(mapInfo))
      BY <1>14, <2>1, <2>2
    <2>4. Cardinality(TriedOf(mapInfo)) = nTried /\ Cardinality(UntriedOf(mapInfo)) = nNew
      BY DEF AddrInv, Tidy, Numbered
    <2>5. IsFiniteSet(E)
      BY <1>1, FS_Interval
    <2>6. Len(S) = N
      <3>1. S \in [1..N -> E]
        BY <1>1
      <3> QED BY <1>1, <3>1, FunctionIsSeq
    <2>7. Len(vRandom') = nTried' + nNew'
      BY <1>0, <1>2, <1>4, <2>6
    <2> QED BY <1>2, <1>6, <2>3, <2>4, <2>5, <2>7 DEF Numbered, TriedOf, UntriedOf
  <1>16. Bounded(vvNew)'
    <2>1. ASSUME NEW b \in NewBuckets PROVE Cardinality(vvNew'[b]) <= NewSize
      <3>1. vvNew[b] \in SUBSET Ids /\ vvNew'[b] = {id[n] : n \in vvNew[b]}
        BY <1>5, <1>6
      <3>2. Cardinality(vvNew'[b]) = Cardinality(vvNew[b])
        BY <1>14, <3>1
      <3> QED BY <3>2 DEF AddrInv, Tidy, Bounded
    <2> QED BY <2>1 DEF Bounded
  <1>17. ASSUME NEW k \in TriedBuckets PROVE Cardinality(vvTried'[k]) <= TriedSize
    <2>1. vvTried[k] \in SUBSET Ids /\ vvTried'[k] = {id[n] : n \in vvTried[k]}
      BY <1>5, <1>6
    <2>2. Cardinality(vvTried'[k]) = Cardinality(vvTried[k])
      BY <1>14, <2>1
    <2> QED BY <2>2 DEF AddrInv
  <1>18. nIdCount' \in 0..MaxIds /\ Ids' = E
    BY <1>0, <1>1, <1>2, SizeAssumption DEF AddrInv, Ids
  <1>19. AddrInv'
    <2>1. Ids' \subseteq 0..(nIdCount' - 1)
      BY <1>2, <1>18
    <2> QED BY <1>9, <1>10, <1>11, <1>12, <1>13, <1>15, <1>16, <1>17, <1>18, <2>1
            DEF AddrInv, Tidy
  <1>20. Known(mapInfo', vvNew') = Known(mapInfo, vvNew)
    <2> DEFINE as(info, new, n) ==
                 [addr |-> info[n].addr, source |-> info[n].source, tried |-> info[n].fInTried,
                  buckets |-> {b \in NewBuckets : n \in new[b]}]
    <2>1. ASSUME NEW m \in E PROVE as(mapInfo', vvNew', m) = as(mapInfo, vvNew, at[m])
      <3>1. {b \in NewBuckets : m \in vvNew'[b]} = {b \in NewBuckets : at[m] \in vvNew[b]}
        BY <1>8 DEF NewOf
      <3> QED BY <1>3, <3>1
    <2>2. /\ Known(mapInfo', vvNew') = {as(mapInfo', vvNew', m) : m \in E}
          /\ Known(mapInfo, vvNew) = {as(mapInfo, vvNew, n) : n \in Ids}
      BY <1>2, Zenon DEF Known, Ids
    <2> HIDE DEF as
    <2>3. ASSUME NEW m \in E PROVE as(mapInfo', vvNew', m) \in {as(mapInfo, vvNew, n) : n \in Ids}
      BY <1>1, <2>1
    <2>4. ASSUME NEW n \in Ids PROVE as(mapInfo, vvNew, n) \in {as(mapInfo', vvNew', m) : m \in E}
      <3>1. id[n] \in E /\ at[id[n]] = n
        BY <1>1
      <3>2. as(mapInfo', vvNew', id[n]) = as(mapInfo, vvNew, n)
        BY <2>1, <3>1
      <3> QED BY <3>1, <3>2
    <2>5. {as(mapInfo', vvNew', m) : m \in E} = {as(mapInfo, vvNew, n) : n \in Ids}
      BY <2>3, <2>4, Zenon
    <2> QED BY <2>2, <2>5, Zenon
  <1>21. ASSUME NEW n \in TriedIds PROVE mapAddr'[Host[mapInfo[n].addr]] # NoId
    <2>1. n \in Ids
      BY DEF TriedIds
    <2>2. mapAddr[Host[mapInfo[n].addr]] = n /\ Host[mapInfo[n].addr] \in Hosts
      BY <2>1, TidyFacts DEF AddrInv, Tidy, Hosted, Ids
    <2>3. mapAddr'[Host[mapInfo[n].addr]] = id[n]
      BY <1>4, <2>1, <2>2
    <2>4. id[n] \in E
      BY <1>1, <2>1
    <2> QED BY <1>1, <2>3, <2>4 DEF NoId
  <1> QED BY <1>19, <1>20, <1>21

-----------------------------------------------------------------------------
(* The theorems.                                                             *)

LEMMA AddrInit ==
    ASSUME Init
    PROVE  AddrInv
  <1>1. /\ mapInfo = [n \in {} |-> n] /\ Ids = {} /\ DOMAIN mapInfo = {}
        /\ mapAddr = [h \in Hosts |-> NoId] /\ vRandom = <<>>
        /\ vvNew = [b \in NewBuckets |-> {}] /\ vvTried = [k \in TriedBuckets |-> {}]
        /\ nNew = 0 /\ nTried = 0 /\ nIdCount = 0
    BY DEF Init, Ids
  <1>2. /\ Cardinality({}) = 0 /\ IsFiniteSet({})
        /\ NewSize \in Nat /\ TriedSize \in Nat /\ MaxIds \in Nat
    BY FS_EmptySet, SizeAssumption
  <1>3. TriedOf(mapInfo) = {} /\ UntriedOf(mapInfo) = {}
    BY <1>1 DEF TriedOf, UntriedOf
  <1>4. Typed(mapInfo)
    BY <1>1 DEF Typed
  <1>5. Positions(mapInfo, vRandom)
    BY <1>1 DEF Positions
  <1>6. Hosted(mapInfo, mapAddr)
    BY <1>1 DEF Hosted
  <1>7. Counted(mapInfo, vvNew, NoId)
    BY <1>1 DEF Counted
  <1>8. Sorted(mapInfo, vvNew)
    BY <1>1 DEF Sorted
  <1>9. Numbered(mapInfo, vRandom, nNew)
    <2>1. /\ Cardinality(TriedOf(mapInfo)) = 0 /\ Cardinality(UntriedOf(mapInfo)) = 0
          /\ IsFiniteSet(DOMAIN mapInfo)
      BY <1>1, <1>2, <1>3, Zenon
    <2>2. Len(vRandom) = 0
      BY <1>1
    <2> QED BY <1>1, <2>1, <2>2 DEF Numbered
  <1>10. Bounded(vvNew)
    BY <1>1, <1>2 DEF Bounded
  <1>11. \A k \in TriedBuckets : Cardinality(vvTried[k]) <= TriedSize
    BY <1>1, <1>2
  <1>12. nIdCount \in 0..MaxIds /\ Ids \subseteq 0..(nIdCount - 1)
    BY <1>1, <1>2
  <1> QED BY <1>4, <1>5, <1>6, <1>7, <1>8, <1>9, <1>10, <1>11, <1>12 DEF AddrInv, Tidy

(* What TriedIsKept says of a step.                                          *)
KeepsTried == \A n \in TriedIds : mapAddr'[Host[mapInfo[n].addr]] # NoId

LEMMA AddrStep ==
    ASSUME AddrInv, [Next]_vars
    PROVE  /\ AddrInv' /\ KeepsTried
           /\ Restart => Known(mapInfo', vvNew') = Known(mapInfo, vvNew)
  <1>1. ASSUME AddrInv', TriedStay PROVE KeepsTried
    <2> SUFFICES ASSUME NEW n \in TriedIds PROVE mapAddr'[Host[mapInfo[n].addr]] # NoId
      BY DEF KeepsTried
    <2>1. n \in DOMAIN mapInfo' /\ mapInfo'[n].addr = mapInfo[n].addr
      BY <1>1 DEF TriedStay
    <2>2. mapAddr'[Host[mapInfo'[n].addr]] = n
      BY <1>1, <2>1 DEF AddrInv, Tidy, Hosted
    <2>3. n \in Nat
      BY <1>1, <2>1 DEF AddrInv, Tidy, Typed
    <2> QED BY <2>1, <2>2, <2>3 DEF NoId
  <1>2. AddrInv' /\ KeepsTried
    <2>1. CASE \E s \in Services, src \in Sources : AddNew(s, src) \/ AddAgain(s, src)
      BY <1>1, <2>1, AddNewStep, AddAgainStep
    <2>2. CASE \E s \in Services : Good(s)
      BY <1>1, <2>2, GoodStep
    <2>3. CASE \E pick \in [1..nNodes -> 1..Len(vRandom)] : GetAddr(pick)
      BY <1>1, <2>3, GetAddrStep
    <2>4. CASE Restart
      BY <2>4, RestartStep DEF KeepsTried
    <2>5. CASE UNCHANGED vars
      <3>1. AddrInv'
        BY <2>5 DEF vars, AddrInv, Tidy, Typed, Positions, Hosted, Counted, Sorted, Numbered,
                    Bounded, NewOf, TriedOf, UntriedOf, InTried, Ids
      <3>2. TriedStay
        BY <2>5 DEF vars, TriedStay, TriedIds, Ids
      <3> QED BY <1>1, <3>1, <3>2
    <2> QED BY <2>1, <2>2, <2>3, <2>4, <2>5 DEF Next
  <1> QED BY <1>2, RestartStep

(* The tables of addrman.h stay consistent: AddrInv is an invariant.         *)
THEOREM AddrInvariant == Spec => []AddrInv
  <1>1. Init => AddrInv
    BY AddrInit
  <1>2. AddrInv /\ [Next]_vars => AddrInv'
    BY AddrStep
  <1> QED BY <1>1, <1>2, PTL DEF Spec

(* The tables of CAddrMan keep their types, and ids stay below nIdCount.     *)
THEOREM AddrManTypeCorrect == Spec => []TypeOK
  <1>1. AddrInv => TypeOK
    <2> SUFFICES ASSUME AddrInv PROVE TypeOK
      OBVIOUS
    <2>1. nIdCount \in 0..MaxIds /\ Ids \subseteq 0..(nIdCount - 1) /\ MaxIds \in Nat
      BY SizeAssumption DEF AddrInv
    <2>2. Ids \subseteq 0..(MaxIds - 1)
      BY <2>1
    <2>3. nTried \in Nat /\ nNew \in Nat
      BY TidyFacts DEF AddrInv, Tidy, Numbered
    <2> QED BY <2>1, <2>2, <2>3
            DEF AddrInv, Tidy, Typed, Positions, Hosted, Counted, TypeOK, Ids
  <1> QED BY <1>1, AddrInvariant, PTL

(* CAddrMan::Check_ succeeds after every call, and after a restart.          *)
THEOREM CheckAlwaysPasses == Spec => []Check
  <1>1. AddrInv => Check
    <2> SUFFICES ASSUME AddrInv PROVE Check
      OBVIOUS
    <2>1. \A n \in Ids : n # NoId
      BY TidyFacts DEF AddrInv, Ids
    <2>2. \A n : InNew(n) = NewOf(vvNew, n)
      BY DEF InNew, NewOf
    <2>3. NewIds = UntriedOf(mapInfo) /\ TriedIds = TriedOf(mapInfo)
      BY SavedFacts
    <2>4. /\ Len(vRandom) = nTried + nNew
          /\ Cardinality(TriedOf(mapInfo)) = nTried /\ Cardinality(UntriedOf(mapInfo)) = nNew
      BY DEF AddrInv, Tidy, Numbered
    <2>5. Cardinality(TriedIds) = nTried /\ Cardinality(NewIds) = nNew
      BY <2>3, <2>4, Zenon
    <2>6. ASSUME NEW n \in Ids
          PROVE  LET info == mapInfo[n] IN
                 /\ info.nRefCount = Cardinality(InNew(n))
                 /\ info.fInTried => InNew(n) = {} /\ InTried(n) = {TriedBucket[info.addr]}
                 /\ ~info.fInTried => info.nRefCount \in 1..MaxRefs /\ InTried(n) = {}
                 /\ mapAddr[Host[info.addr]] = n
                 /\ info.nRandomPos \in 1..Len(vRandom) /\ vRandom[info.nRandomPos] = n
      <3>1. mapInfo[n].nRefCount = Cardinality(NewOf(vvNew, n)) + 0
        BY <2>1 DEF AddrInv, Tidy, Counted, Ids
      <3>2. mapInfo[n].nRefCount = Cardinality(NewOf(vvNew, n))
        BY <3>1, NewOfFinite
      <3>3. mapInfo[n].nRefCount = Cardinality(InNew(n))
        BY <2>2, <3>2, Zenon
      <3>4. IF mapInfo[n].fInTried
            THEN InNew(n) = {} /\ InTried(n) = {TriedBucket[mapInfo[n].addr]}
            ELSE mapInfo[n].nRefCount \in 1..MaxRefs /\ InTried(n) = {}
        BY <2>2 DEF AddrInv, Tidy, Sorted, Ids
      <3>5. /\ mapAddr[Host[mapInfo[n].addr]] = n
            /\ mapInfo[n].nRandomPos \in 1..Len(vRandom) /\ vRandom[mapInfo[n].nRandomPos] = n
        BY DEF AddrInv, Tidy, Hosted, Positions, Ids
      <3> QED BY <3>3, <3>4, <3>5
    <2> QED BY <2>4, <2>5, <2>6 DEF Check
  <1> QED BY <1>1, AddrInvariant, PTL

(* No bucket grows over its size, whatever the sizes are: in MakeTried       *)
(* "there is certainly place there" for the entry that is evicted.           *)
THEOREM BucketsNeverOverflow == Spec => []BucketsBounded
  <1>1. AddrInv => BucketsBounded
    BY DEF AddrInv, Tidy, Bounded, BucketsBounded
  <1> QED BY <1>1, AddrInvariant, PTL

(* No call forgets a host that is in a tried bucket.                         *)
THEOREM TriedHostsAreKept == Spec => TriedIsKept
  <1>1. AddrInv /\ [Next]_vars =>
           [\A n \in TriedIds : mapAddr'[Host[mapInfo[n].addr]] # NoId]_vars
    BY AddrStep DEF KeepsTried
  <1> QED BY <1>1, AddrInvariant, PTL DEF Spec, TriedIsKept

(* Loading peers.dat gives back the entries and buckets that were saved:     *)
(* Lost is empty, and numbering the entries again is a bijection.            *)
THEOREM RestartKeepsAddresses == Spec => RestartKeeps
  <1>1. AddrInv /\ [Next]_vars =>
           [Restart => Known(mapInfo', vvNew') = Known(mapInfo, vvNew)]_vars
    BY AddrStep
  <1> QED BY <1>1, AddrInvariant, PTL DEF Spec, RestartKeeps
=============================================================================
