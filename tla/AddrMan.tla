------------------------------ MODULE AddrMan -------------------------------
(***************************************************************************)
(* CAddrMan (addrman.h, addrman.cpp): the addresses of peers, in buckets   *)
(* of "new" ones, heard of, and "tried" ones, connected to, with the       *)
(* indexes by host and in random order, and peers.dat.                     *)
(*                                                                         *)
(* Every call takes the lock cs for its whole length, so it is one step.   *)
(* Times and statistics are abstracted: they decide whether Add_ does      *)
(* nothing, and whom ShrinkNew and SelectTried pick, and each pick is      *)
(* possible for some history.  Attempt_, Connected_ and Select_ change     *)
(* only them.  The order within a tried bucket is not observable.          *)
(***************************************************************************)
EXTENDS Integers, FiniteSets, Sequences

CONSTANTS
    Services,      \* CService: host and port
    Host,          \* the CNetAddr of a service
    Sources,       \* peers and seeds that tell about addresses
    NewBuckets, TriedBuckets,
    NewBucket,     \* CAddrInfo::GetNewBucket, by service and source
    TriedBucket,   \* CAddrInfo::GetTriedBucket
    NewSize,       \* ADDRMAN_NEW_BUCKET_SIZE
    TriedSize,     \* ADDRMAN_TRIED_BUCKET_SIZE
    MaxRefs,       \* ADDRMAN_NEW_BUCKETS_PER_ADDRESS
    GetAddrPct, GetAddrMax, \* ADDRMAN_GETADDR_MAX_PCT, ADDRMAN_GETADDR_MAX
    MaxIds         \* bound on nIdCount

ASSUME BucketAssumption ==
    /\ NewBucket \in [Services \X Sources -> NewBuckets]
    /\ TriedBucket \in [Services -> TriedBuckets]
    /\ DOMAIN Host = Services
    /\ IsFiniteSet(NewBuckets) /\ IsFiniteSet(TriedBuckets)

ASSUME SizeAssumption ==
    /\ {NewSize, TriedSize, MaxRefs} \subseteq Nat \ {0}
    /\ GetAddrPct \in 0..100 /\ GetAddrMax \in Nat /\ MaxIds \in Nat

VARIABLES
    nIdCount,
    mapInfo,   \* id -> CAddrInfo
    mapAddr,   \* host -> id, NoId when unknown
    vRandom,   \* the ids in random order; nRandomPos counts from 1 here
    vvNew, vvTried,
    nNew, nTried

vars == <<nIdCount, mapInfo, mapAddr, vRandom, vvNew, vvTried, nNew, nTried>>

Hosts == {Host[s] : s \in Services}
NoId == -1
Ids == DOMAIN mapInfo

Init ==
    /\ nIdCount = 0
    /\ mapInfo = [n \in {} |-> n]
    /\ mapAddr = [h \in Hosts |-> NoId]
    /\ vRandom = <<>>
    /\ vvNew = [b \in NewBuckets |-> {}]
    /\ vvTried = [k \in TriedBuckets |-> {}]
    /\ nNew = 0 /\ nTried = 0

-----------------------------------------------------------------------------
(* The parts that Add_ changes, as one value, and the steps it is made of.   *)

Tables == [info |-> mapInfo, byHost |-> mapAddr, random |-> vRandom,
           new |-> vvNew, nNew |-> nNew]
Become(t) ==
    /\ mapInfo' = t.info /\ mapAddr' = t.byHost /\ vRandom' = t.random
    /\ vvNew' = t.new /\ nNew' = t.nNew

Create(id, s, src) ==
    [info |-> [n \in Ids \cup {id} |->
                  IF n # id THEN mapInfo[n]
                  ELSE [addr |-> s, source |-> src, nRefCount |-> 0,
                        fInTried |-> FALSE, nRandomPos |-> Len(vRandom) + 1]],
     byHost |-> [mapAddr EXCEPT ![Host[s]] = id],
     random |-> Append(vRandom, id),
     new |-> vvNew,
     nNew |-> nNew + 1]

(* Mutant: the position of the entry that fills the gap is not updated.      *)
SwapRandomVectorOnly(info, random, p, q) ==
    [info |-> info,
     random |-> [random EXCEPT ![p] = random[q], ![q] = random[p]]]

SwapRandom(info, random, p, q) ==
    [info |-> [n \in DOMAIN info |->
                  IF n = random[p] THEN [info[n] EXCEPT !.nRandomPos = q]
                  ELSE IF n = random[q] THEN [info[n] EXCEPT !.nRandomPos = p]
                  ELSE info[n]],
     random |-> [random EXCEPT ![p] = random[q], ![q] = random[p]]]

(* The entry leaves the tables: it is swapped to the end of vRandom.         *)
Delete(t, id) ==
    LET last == Len(t.random)
        swapped == SwapRandom(t.info, t.random, t.info[id].nRandomPos, last)
    IN  [info |-> [n \in DOMAIN t.info \ {id} |-> swapped.info[n]],
         byHost |-> [t.byHost EXCEPT ![Host[t.info[id].addr]] = NoId],
         random |-> SubSeq(swapped.random, 1, last - 1),
         new |-> t.new,
         nNew |-> t.nNew - 1]

WithRefs(info, n, count) == [info EXCEPT ![n] = [info[n] EXCEPT !.nRefCount = count]]

(* ShrinkNew: bucket b gives up the entry "victim", which is deleted when    *)
(* that was its last bucket.                                                 *)
ShrinkNew(t, b, victim) ==
    LET less == [info |-> WithRefs(t.info, victim, t.info[victim].nRefCount - 1),
                 byHost |-> t.byHost, random |-> t.random, nNew |-> t.nNew,
                 new |-> [t.new EXCEPT ![b] = t.new[b] \ {victim}]]
    IN  IF less.info[victim].nRefCount = 0 THEN Delete(less, victim) ELSE less

(* The end of Add_: id, which is not yet in bucket b, is put there.          *)
InsertNew(t, id, b) ==
    LET counted == [t EXCEPT !.info = WithRefs(t.info, id, t.info[id].nRefCount + 1)]
        Inserted(u) == [u EXCEPT !.new = [u.new EXCEPT ![b] = u.new[b] \cup {id}]]
    IN
    \/ /\ Cardinality(t.new[b]) = NewSize
       /\ \E victim \in t.new[b] : Become(Inserted(ShrinkNew(counted, b, victim)))
    \/ /\ Cardinality(t.new[b]) # NewSize
       /\ Become(Inserted(counted))

(* Add_ of a host that is not known.                                         *)
AddNew(s, src) ==
    /\ mapAddr[Host[s]] = NoId
    /\ nIdCount < MaxIds
    /\ nIdCount' = nIdCount + 1
    /\ InsertNew(Create(nIdCount, s, src), nIdCount, NewBucket[s, src])
    /\ UNCHANGED <<vvTried, nTried>>

(* Add_ of a known host: it may enter a further bucket, chosen by the        *)
(* service that is recorded.                                                 *)
AddAgain(s, src) ==
    LET id == mapAddr[Host[s]] IN
    /\ id # NoId
    /\ ~mapInfo[id].fInTried
    /\ mapInfo[id].nRefCount # MaxRefs
    /\ LET b == NewBucket[mapInfo[id].addr, src] IN
          /\ id \notin vvNew[b]
          /\ InsertNew(Tables, id, b)
    /\ UNCHANGED <<nIdCount, vvTried, nTried>>

-----------------------------------------------------------------------------
(* Good_ and MakeTried.                                                      *)

(* A new entry becomes a tried one and leaves all its new buckets.           *)
Restated(info, n, count, tried) ==
    [info EXCEPT ![n] = [info[n] EXCEPT !.nRefCount = count, !.fInTried = tried]]
Promoted(id) ==
    Restated(mapInfo, id,
             mapInfo[id].nRefCount - Cardinality({b \in NewBuckets : id \in vvNew[b]}), TRUE)
WithoutNew(id) == [b \in NewBuckets |-> vvNew[b] \ {id}]

Place(id) ==
    LET k == TriedBucket[mapInfo[id].addr] IN
    /\ Cardinality(vvTried[k]) < TriedSize
    /\ mapInfo' = Promoted(id)
    /\ vvNew' = WithoutNew(id)
    /\ vvTried' = [vvTried EXCEPT ![k] = vvTried[k] \cup {id}]
    /\ nTried' = nTried + 1
    /\ nNew' = nNew - 1

(* Mutant: the bucket is taken to have place when it has one entry too many. *)
HasPlaceLoose(bucket) == Cardinality(bucket) <= NewSize

HasPlace(bucket) == Cardinality(bucket) < NewSize

(* Mutant: the evicted entry is overwritten and goes nowhere.                *)
EvictForgets(id, origin, old) ==
    LET k == TriedBucket[mapInfo[id].addr] IN
    /\ Cardinality(vvTried[k]) >= TriedSize
    /\ old \in vvTried[k]
    /\ mapInfo' = [n \in Ids \ {old} |-> Promoted(id)[n]]
    /\ mapAddr' = [mapAddr EXCEPT ![Host[mapInfo[old].addr]] = NoId]
    /\ vvNew' = WithoutNew(id)
    /\ vvTried' = [vvTried EXCEPT ![k] = (vvTried[k] \ {old}) \cup {id}]
    /\ UNCHANGED <<nNew, nTried>>

(* The tried bucket is full: the entry "old" goes back to its new bucket or, *)
(* when that is full, to the one that id came from.                          *)
Evict(id, origin, old) ==
    LET k == TriedBucket[mapInfo[id].addr]
        home == NewBucket[mapInfo[old].addr, mapInfo[old].source]
        back == IF HasPlace(WithoutNew(id)[home]) THEN home ELSE origin
    IN
    /\ Cardinality(vvTried[k]) >= TriedSize
    /\ old \in vvTried[k]
    /\ mapInfo' = Restated(Promoted(id), old, 1, FALSE)
    /\ vvNew' = [WithoutNew(id) EXCEPT ![back] = WithoutNew(id)[back] \cup {old}]
    /\ vvTried' = [vvTried EXCEPT ![k] = (vvTried[k] \ {old}) \cup {id}]
    /\ UNCHANGED <<mapAddr, nNew, nTried>>

(* Good_: a connection to s succeeded.  It must be the recorded service of   *)
(* its host, and not be tried already.                                       *)
Candidate(s, id) == id = mapAddr[Host[s]] /\ id # NoId /\ mapInfo[id].addr = s
                    /\ ~mapInfo[id].fInTried

Good(s) ==
    \E id \in Ids :
        /\ Candidate(s, id)
        /\ \E origin \in NewBuckets :
              /\ id \in vvNew[origin]
              /\ \/ Place(id) /\ UNCHANGED mapAddr
                 \/ \E old \in Ids : Evict(id, origin, old)
        /\ UNCHANGED <<nIdCount, vRandom>>

-----------------------------------------------------------------------------
(* GetAddr_ shuffles the front of vRandom; pick[n] is the random position    *)
(* that is swapped to place n.                                               *)
nNodes ==
    LET share == (GetAddrPct * Len(vRandom)) \div 100
    IN  IF share > GetAddrMax THEN GetAddrMax ELSE share

Shuffled(pick) ==
    LET shuffled[n \in 0..Len(vRandom)] ==
            IF n = 0 THEN [info |-> mapInfo, random |-> vRandom]
            ELSE SwapRandom(shuffled[n - 1].info, shuffled[n - 1].random, n, pick[n])
    IN  shuffled[nNodes]

GetAddr(pick) ==
    /\ \A n \in 1..nNodes : pick[n] >= n
    /\ mapInfo' = Shuffled(pick).info
    /\ vRandom' = Shuffled(pick).random
    /\ UNCHANGED <<nIdCount, mapAddr, vvNew, vvTried, nNew, nTried>>

-----------------------------------------------------------------------------
(* peers.dat: saved and loaded again.  The new entries are written first,    *)
(* then the tried ones, each in the order of their ids; then the new         *)
(* buckets, which refer to entries by their place in the file.  Loading      *)
(* numbers the entries in the order of the file and sorts the tried ones     *)
(* into their buckets by address.                                            *)

NewIds == {n \in Ids : mapInfo[n].nRefCount # 0}
TriedIds == {n \in Ids : mapInfo[n].fInTried}

Below(S, n) == Cardinality({m \in S : m < n})

(* Tried entries for which loading finds no place in their bucket (nLost).   *)
Lost ==
    {n \in TriedIds :
        Below({m \in TriedIds : TriedBucket[mapInfo[m].addr] = TriedBucket[mapInfo[n].addr]}, n)
            >= TriedSize}

(* Mutant: the place in the file counts every entry before n.                *)
IdOnLoadOfAll(n) ==
    IF mapInfo[n].fInTried THEN nNew + Below(TriedIds \ Lost, n) ELSE Below(Ids, n)

(* The id of entry n after loading.                                          *)
IdOnLoad(n) ==
    IF mapInfo[n].fInTried THEN nNew + Below(TriedIds \ Lost, n) ELSE Below(NewIds, n)

Restart ==
    LET kept == (NewIds \cup TriedIds) \ Lost
        id == [n \in kept |-> IdOnLoad(n)]
        Renumbered(S) == {id[n] : n \in S}
        at(m) == CHOOSE n \in kept : id[n] = m
    IN
    /\ nIdCount' = Cardinality(kept)
    /\ mapInfo' = [m \in Renumbered(kept) |->
          [mapInfo[at(m)] EXCEPT
              !.nRandomPos = m + 1,
              !.nRefCount = Cardinality({b \in NewBuckets : at(m) \in vvNew[b]})]]
    /\ mapAddr' = [h \in Hosts |->
          IF mapAddr[h] \in kept THEN id[mapAddr[h]] ELSE NoId]
    /\ vRandom' = [i \in 1..Cardinality(kept) |-> i - 1]
    /\ vvNew' = [b \in NewBuckets |-> Renumbered(vvNew[b])]
    /\ vvTried' = [k \in TriedBuckets |->
          Renumbered({n \in TriedIds \ Lost : TriedBucket[mapInfo[n].addr] = k})]
    /\ nTried' = nTried - Cardinality(Lost)
    /\ UNCHANGED nNew

-----------------------------------------------------------------------------
Next ==
    \/ \E s \in Services, src \in Sources : AddNew(s, src) \/ AddAgain(s, src)
    \/ \E s \in Services : Good(s)
    \/ \E pick \in [1..nNodes -> 1..Len(vRandom)] : GetAddr(pick)
    \/ Restart

Spec == Init /\ [][Next]_vars

-----------------------------------------------------------------------------
(* Properties.                                                               *)

Info == [addr : Services, source : Sources, nRefCount : Nat, fInTried : BOOLEAN,
         nRandomPos : Nat]

(* Types of the tables.                                                      *)
TypeOK ==
    /\ nIdCount \in 0..MaxIds
    /\ Ids \subseteq 0..(MaxIds - 1) /\ mapInfo \in [Ids -> Info]
    /\ mapAddr \in [Hosts -> Ids \cup {NoId}]
    /\ vRandom \in Seq(Ids)
    /\ vvNew \in [NewBuckets -> SUBSET Ids]
    /\ vvTried \in [TriedBuckets -> SUBSET Ids]
    /\ nNew \in Nat /\ nTried \in Nat

InNew(n) == {b \in NewBuckets : n \in vvNew[b]}
InTried(n) == {k \in TriedBuckets : n \in vvTried[k]}

(* Check_, which a debug build evaluates around every call: the reference    *)
(* counts are the numbers of new buckets, an entry is either tried or new    *)
(* and in the right buckets, hosts and positions lead back to the entry, the *)
(* counters are right (Select_ would loop for ever if they were not).        *)
Check ==
    /\ Len(vRandom) = nTried + nNew
    /\ \A n \in Ids :
          LET info == mapInfo[n] IN
          /\ info.nRefCount = Cardinality(InNew(n))
          /\ info.fInTried => InNew(n) = {} /\ InTried(n) = {TriedBucket[info.addr]}
          /\ ~info.fInTried => info.nRefCount \in 1..MaxRefs /\ InTried(n) = {}
          /\ mapAddr[Host[info.addr]] = n
          /\ info.nRandomPos \in 1..Len(vRandom) /\ vRandom[info.nRandomPos] = n
    /\ Cardinality(TriedIds) = nTried /\ Cardinality(NewIds) = nNew

(* No bucket grows over its size ("there is certainly place there",          *)
(* MakeTried, of the bucket that an evicted entry falls back to).            *)
BucketsBounded ==
    /\ \A b \in NewBuckets : Cardinality(vvNew[b]) <= NewSize
    /\ \A k \in TriedBuckets : Cardinality(vvTried[k]) <= TriedSize

(* A host that was connected to once is not forgotten in one step: when its  *)
(* entry is evicted from the tried buckets it is known, as a new one.        *)
TriedIsKept ==
    [][\A n \in TriedIds : mapAddr'[Host[mapInfo[n].addr]] # NoId]_vars

(* What an entry is, whatever its id.                                        *)
Known(info, new) ==
    {[addr |-> info[n].addr, source |-> info[n].source, tried |-> info[n].fInTried,
      buckets |-> {b \in NewBuckets : n \in new[b]}] : n \in DOMAIN info}

(* Saving and loading peers.dat gives the same entries in the same buckets.  *)
RestartKeeps == [][Restart => Known(mapInfo', vvNew') = Known(mapInfo, vvNew)]_vars

=============================================================================
