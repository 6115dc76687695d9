--------------------------- MODULE BlockDownload ----------------------------
(***************************************************************************)
(* How a node L fetches the chain of its peer P: getblocks, inv, getdata   *)
(* and block messages over one connection, P's batches with the continue   *)
(* inv, P's memory of what L knows, and L's orphans and filter of          *)
(* duplicate getblocks (main.cpp, net.cpp, net.h).                         *)
(*                                                                         *)
(* P has one chain, and a block is its height.  L has that chain up to     *)
(* have, and may have a branch of its own that leaves it at fork and is    *)
(* its best chain until have is higher than own.  All blocks of P are      *)
(* acceptable to L.  They have no other peers, so that L sends its first   *)
(* getblocks on every connection.  L's inv to P is left out: all that it   *)
(* could announce are blocks of P's own chain, accepted from orphans of an *)
(* earlier connection.  Times are left out: a request that repeats an      *)
(* earlier one waits any while, and first requests overtake it.            *)
(***************************************************************************)
EXTENDS Integers, Sequences, SequencesExt, FiniteSets, FiniteSetsExt

CONSTANTS
    Limit,          \* blocks in the answer to a getblocks (500)
    KnownSize,      \* size of setInventoryKnown (1000)
    InvSize,        \* entries of an inv or getdata message (1000)
    PowBlocks,      \* heights of the proof-of-work blocks of P's chain
    Recent,         \* a block this many below the tip is younger than nStakeMinAge
    StartHeight,    \* height of P's chain when L connects
    MaxHeight,      \* bound: height of P's chain
    MaxConnects     \* bound: connections between the two

ASSUME DownloadAssumption ==
    /\ Limit \in Nat \ {0} /\ KnownSize \in Nat \ {0} /\ InvSize \in Nat \ {0}
    /\ PowBlocks \subseteq Nat /\ 1 \in PowBlocks  \* nothing to stake before block 1
    /\ Recent \in Nat
    /\ MaxHeight \in Nat /\ StartHeight \in 1..MaxHeight /\ MaxConnects \in Nat

VARIABLES
    tip,            \* P: height of its best block
    known, toSend,  \* P: setInventoryKnown and vInventoryToSend of L
    hashContinue,   \* P: the block that triggers the continue inv, or 0
    have, orphans,  \* L: height up to which it has the chain; mapOrphanBlocks
    fork, own,      \* L: where its own branch leaves P's chain; its height
    meet,           \* the block that P finds for the locator of that branch
    askFor,         \* L: mapAskFor, with the mark of a repeated request
    asked,          \* L: mapAlreadyAskedFor, of all connections
    last,           \* L: pindexLastGetBlocksBegin and hashLastGetBlocksEnd
    toL, toP,       \* messages under way
    connects,       \* connections made
    from,           \* history: where the first getblocks of the connection starts
    fresh,          \* history: nothing was left of an earlier one when it began
    goal            \* history: the block that L missed when P last had a new one

serverVars == <<tip, known, toSend, hashContinue>>
clientVars == <<have, orphans, fork, own, meet, askFor, asked, last>>
connection == <<connects, from, fresh, goal>>
downloadVars == <<serverVars, clientVars, toL, toP, connection>>

OwnBranch == -1     \* the best block of L when it is on its own branch
NoStop == 0         \* uint256(0)

Heights == 1..MaxHeight
GetBlocks(begin, stop) == [type |-> "getblocks", begin |-> begin, stop |-> stop]
Inv(s) == [type |-> "inv", blocks |-> s]
GetData(s) == [type |-> "getdata", blocks |-> s]
Block(h) == [type |-> "block", height |-> h]

(* The elements of a sequence at the places S, in their order.               *)
At(s, S) ==
    LET at[i \in 0..Len(s)] ==
            IF i = 0 THEN <<>> ELSE IF i \in S THEN Append(at[i - 1], s[i]) ELSE at[i - 1]
    IN at[Len(s)]

(* Mutant: what does not fill a message is not sent.                         *)
SplitFull(s) == [k \in 1..Len(s) \div InvSize |-> SubSeq(s, (k - 1) * InvSize + 1, k * InvSize)]

(* The parts of a sequence that SendMessages puts in one message each.       *)
Split(s) ==
    [k \in 1..(Len(s) + InvSize - 1) \div InvSize |->
        SubSeq(s, (k - 1) * InvSize + 1, Min({k * InvSize, Len(s)}))]

(* pindexBest of L.                                                          *)
BestOf(h) == IF own > fork /\ h <= own THEN OwnBranch ELSE h

(* PushGetBlocks for each request <<begin, stop>> of the sequence: one that  *)
(* equals the last one is not sent.                                          *)
PushGetBlocks(requests) ==
    LET all == <<last>> \o requests
        sent == At(requests, {i \in DOMAIN requests : requests[i] # all[i]})
    IN /\ last' = all[Len(all)]
       /\ toP' = toP \o [k \in DOMAIN sent |-> GetBlocks(sent[k][1], sent[k][2])]

(* Mutant: what was asked for is not asked for again.                        *)
AskForOnce(s) ==
    LET new == At(s, {k \in DOMAIN s : s[k] \notin asked})
    IN /\ askFor' = askFor \o [k \in DOMAIN new |-> [block |-> new[k], again |-> FALSE]]
       /\ asked' = asked \cup Range(s)

(* AskFor each block of the sequence.                                        *)
AskFor(s) ==
    /\ askFor' = askFor \o
          [k \in DOMAIN s |-> [block |-> s[k],
                               again |-> s[k] \in asked \/ \E j \in 1..k - 1 : s[j] = s[k]]]
    /\ asked' = asked \cup Range(s)

DownloadInit ==
    /\ tip = StartHeight /\ fork \in 0..tip /\ own \in fork..tip /\ meet \in 0..fork
    /\ own = fork => meet = fork
    /\ own < meet + Limit        \* bound: the branch of L is shorter than a batch
    /\ have = fork /\ orphans = {}
    /\ known = <<>> /\ toSend = <<>> /\ hashContinue = 0
    /\ askFor = <<>> /\ asked = {} /\ last = <<BestOf(fork), NoStop>>
    /\ toL = <<>> /\ toP = <<GetBlocks(BestOf(fork), NoStop)>>
    /\ connects = 1 /\ from = meet /\ fresh = TRUE /\ goal = 0

-----------------------------------------------------------------------------
(* L.                                                                        *)

AlreadyHave(h) == h <= have \/ h \in orphans

(* GetOrphanRoot, and WantedByOrphan: the block before it.                   *)
GetOrphanRoot(os, h) == CHOOSE r \in os : r..h \subseteq os /\ r - 1 \notin os

(* The inv message: the new blocks are asked for; an orphan, and a last      *)
(* block that L has, make it ask for more inventory.                         *)
ReceiveInv ==
    /\ toL # <<>> /\ Head(toL).type = "inv"
    /\ LET s == Head(toL).blocks
           calls == {i \in DOMAIN s : s[i] \in orphans \/ (s[i] <= have /\ i = Len(s))}
           requests == [i \in DOMAIN s |->
                           IF s[i] \in orphans
                           THEN <<BestOf(have), GetOrphanRoot(orphans, s[i])>> ELSE <<s[i], NoStop>>]
       IN /\ AskFor(At(s, {i \in DOMAIN s : ~AlreadyHave(s[i])}))
          /\ PushGetBlocks(At(requests, calls))
    /\ toL' = Tail(toL)
    /\ UNCHANGED <<serverVars, have, orphans, fork, own, meet, connection>>

(* Mutant: what an orphan misses is not asked for.                           *)
ReceiveOrphanSilent(initialDownload) ==
    /\ toL # <<>> /\ Head(toL).type = "block"
    /\ LET h == Head(toL).height
       IN /\ ~AlreadyHave(h) /\ h > have + 1
          /\ orphans' = orphans \cup {h}
    /\ toL' = Tail(toL)
    /\ asked' = asked \ {Head(toL).height}
    /\ UNCHANGED <<serverVars, have, fork, own, meet, askFor, last, toP, connection>>

(* ProcessBlock of a block whose previous block is missing.  Whether L asks  *)
(* for that block directly depends on IsInitialBlockDownload.                *)
ReceiveOrphan(initialDownload) ==
    /\ toL # <<>> /\ Head(toL).type = "block"
    /\ LET h == Head(toL).height
           root == GetOrphanRoot(orphans \cup {h}, h)
       IN /\ ~AlreadyHave(h) /\ h > have + 1
          /\ orphans' = orphans \cup {h}
          /\ PushGetBlocks(<<<<BestOf(have), root>>>>)
          /\ IF initialDownload THEN UNCHANGED askFor /\ asked' = asked \ {h}
             ELSE /\ askFor' = Append(askFor, [block |-> root - 1, again |-> root - 1 \in asked])
                  /\ asked' = (asked \cup {root - 1}) \ {h}
    /\ toL' = Tail(toL)
    /\ UNCHANGED <<serverVars, have, fork, own, meet, connection>>

(* ProcessBlock of the next block, and of the orphans that waited for it.    *)
ReceiveNext ==
    /\ toL # <<>> /\ Head(toL).type = "block" /\ Head(toL).height = have + 1
    /\ have' = Max({k \in have + 1..MaxHeight : (have + 2)..k \subseteq orphans})
    /\ orphans' = {h \in orphans : h > have'}
    /\ asked' = asked \ {Head(toL).height}
    /\ toL' = Tail(toL)
    /\ UNCHANGED <<serverVars, fork, own, meet, askFor, last, toP, connection>>

(* "already have block".                                                     *)
ReceiveAgain ==
    /\ toL # <<>> /\ Head(toL).type = "block" /\ AlreadyHave(Head(toL).height)
    /\ toL' = Tail(toL)
    /\ UNCHANGED <<serverVars, clientVars, toP, connection>>

(* The places of mapAskFor whose time may have come together.  First         *)
(* requests go out in order, and none waits for a repeated one, which comes  *)
(* "2 minutes after the last" request for the block: in any order.           *)
Due ==
    {S \in SUBSET DOMAIN askFor \ {{}} :
        \A k \in S : \A j \in 1..k - 1 : askFor[j].again \/ j \in S}

MissingAt(S) ==
    LET due == At(askFor, {k \in S : ~AlreadyHave(askFor[k].block)})
        parts == Split([k \in DOMAIN due |-> due[k].block])
    IN [k \in DOMAIN parts |-> GetData(parts[k])]

(* Mutant: a request for a block that L has by now is not erased.            *)
SendGetDataKeepHad ==
    /\ \E S \in Due :
          /\ askFor' = At(askFor, {k \in DOMAIN askFor : k \notin S \/ AlreadyHave(askFor[k].block)})
          /\ toP' = toP \o MissingAt(S)
    /\ UNCHANGED <<serverVars, have, orphans, fork, own, meet, asked, last, toL, connection>>

(* SendMessages: the requests whose time has come, if they are still         *)
(* missing.                                                                  *)
SendGetData ==
    /\ \E S \in Due :
          /\ askFor' = At(askFor, DOMAIN askFor \ S)
          /\ toP' = toP \o MissingAt(S)
    /\ UNCHANGED <<serverVars, have, orphans, fork, own, meet, asked, last, toL, connection>>

-----------------------------------------------------------------------------
(* P.                                                                        *)

(* PushInventory: what L is known to have is left out.                       *)
Unknown(s) == At(s, {i \in DOMAIN s : s[i] \notin Range(known)})

(* GetLastBlockIndex(pindexBest, false).                                     *)
LastPow == Max({h \in 1..tip : h \in PowBlocks})

(* CBlockLocator::GetBlockIndex.  The locator of a block on P's chain starts *)
(* with that block; that of L's branch skips ever more blocks on its way     *)
(* down and may skip the fork.                                               *)
Located(begin) == IF begin = OwnBranch THEN meet ELSE begin

ReceiveGetBlocks ==
    /\ toP # <<>> /\ Head(toP).type = "getblocks"
    /\ LET b == Located(Head(toP).begin)
           stop == Head(toP).stop
           end == Min({b + Limit, tip})
           send(n) == [i \in 1..n - b |-> b + i]
       IN \/ /\ stop \in b + 1..end
             /\ toSend' = toSend \o Unknown(send(stop - 1) \o
                    IF stop # tip /\ stop + Recent > tip THEN <<tip>> ELSE <<>>)
             /\ UNCHANGED hashContinue
          \/ /\ stop \notin b + 1..end
             /\ toSend' = toSend \o Unknown(send(end))
             /\ hashContinue' = IF end = b + Limit THEN end ELSE hashContinue
    /\ toP' = Tail(toP)
    /\ UNCHANGED <<tip, known, clientVars, toL, connection>>

(* Mutant: no inv after the last block of a batch.                           *)
ReceiveGetDataNoContinue ==
    /\ toP # <<>> /\ Head(toP).type = "getdata"
    /\ LET s == Head(toP).blocks IN toL' = toL \o [i \in DOMAIN s |-> Block(s[i])]
    /\ toP' = Tail(toP)
    /\ UNCHANGED <<tip, known, toSend, hashContinue, clientVars, connection>>

(* The blocks asked for, and after the last one of a batch the inv that is   *)
(* to trigger the next getblocks.                                            *)
ReceiveGetData ==
    /\ toP # <<>> /\ Head(toP).type = "getdata"
    /\ LET s == Head(toP).blocks
           blocks == [i \in DOMAIN s |-> Block(s[i])]
           at == {i \in DOMAIN s : s[i] = hashContinue}
       IN /\ toL' = toL \o IF at = {} THEN blocks
                            ELSE InsertAt(blocks, Min(at) + 1, Inv(<<LastPow>>))
          /\ hashContinue' = IF at = {} THEN hashContinue ELSE 0
    /\ toP' = Tail(toP)
    /\ UNCHANGED <<tip, known, toSend, clientVars, connection>>

(* mruset: the KnownSize last of what was inserted.                          *)
Remembered(s) == SubSeq(s, Max({1, Len(s) - KnownSize + 1}), Len(s))

(* SendMessages goes through vInventoryToSend and inserts each entry in      *)
(* setInventoryKnown; what was not yet there (at the places S) is announced. *)
SendInv ==
    /\ toSend # <<>>
    /\ \E S \in SUBSET DOMAIN toSend :
          LET knownAt(i) == Remembered(known \o At(toSend, {j \in S : j < i}))
              new == At(toSend, S)
              parts == Split(new)
          IN /\ \A i \in DOMAIN toSend : i \in S <=> toSend[i] \notin Range(knownAt(i))
             /\ known' = Remembered(known \o new)
             /\ toL' = toL \o [k \in DOMAIN parts |-> Inv(parts[k])]
    /\ toSend' = <<>>
    /\ UNCHANGED <<tip, hashContinue, clientVars, toP, connection>>

(* P accepts a new best block and announces it.                              *)
NewBlock ==
    /\ tip < MaxHeight
    /\ tip' = tip + 1
    /\ toSend' = toSend \o Unknown(<<tip + 1>>)
    /\ goal' = have + 1
    /\ UNCHANGED <<known, hashContinue, clientVars, toL, toP, connects, from, fresh>>

(* The connection is lost with all messages under way; a new one starts from *)
(* new CNode objects and, in the version message, a getblocks.               *)
Connect ==
    /\ connects < MaxConnects /\ connects' = connects + 1
    /\ known' = <<>> /\ toSend' = <<>> /\ hashContinue' = 0
    /\ askFor' = <<>> /\ last' = <<BestOf(have), NoStop>>
    /\ toL' = <<>> /\ toP' = <<GetBlocks(BestOf(have), NoStop)>>
    /\ from' = Located(BestOf(have)) /\ goal' = 0
    /\ UNCHANGED <<tip, have, fork, own, meet>>

(* Only the connection is lost ...                                           *)
Reconnect ==
    /\ Connect
    /\ fresh' = (orphans = {} /\ asked = {})
    /\ UNCHANGED <<orphans, asked>>

(* ... or L is started again, and has forgotten what is not on disk.         *)
Restart == Connect /\ orphans' = {} /\ asked' = {} /\ fresh' = TRUE

-----------------------------------------------------------------------------
Handle ==
    \/ ReceiveInv \/ ReceiveNext \/ ReceiveAgain \/ SendGetData
    \/ \E initialDownload \in BOOLEAN : ReceiveOrphan(initialDownload)
    \/ ReceiveGetBlocks \/ ReceiveGetData \/ SendInv

DownloadNext == Handle \/ NewBlock \/ Reconnect \/ Restart

DownloadSpec == DownloadInit /\ [][DownloadNext]_downloadVars

(* Both message threads run for ever: what has arrived is handled and what   *)
(* waits is sent.                                                            *)
FairDownload == DownloadSpec /\ WF_downloadVars(Handle)

-----------------------------------------------------------------------------
(* Properties.                                                               *)

(* Nothing is under way and nothing waits to be sent.                        *)
Quiet == toL = <<>> /\ toP = <<>> /\ toSend = <<>> /\ askFor = <<>>

MessagesToL == [type : {"inv"}, blocks : Seq(1..tip)] \cup [type : {"block"}, height : 1..tip]
MessagesToP ==
    [type : {"getblocks"}, begin : 0..tip \cup {OwnBranch}, stop : 0..tip]
        \cup [type : {"getdata"}, blocks : Seq(1..tip)]

DownloadTypeOK ==
    /\ tip \in Heights /\ have \in 0..tip /\ orphans \subseteq 1..tip
    /\ fork \in 0..tip /\ own \in 0..tip /\ meet \in 0..have /\ from \in 0..have
    /\ known \in Seq(1..tip) /\ Len(known) <= KnownSize
    /\ toSend \in Seq(1..tip) /\ hashContinue \in 0..tip
    /\ askFor \in Seq([block : 1..tip, again : BOOLEAN]) /\ asked \subseteq 1..tip
    /\ last \in (0..tip \cup {OwnBranch}) \X (0..tip)
    /\ toL \in Seq(MessagesToL) /\ toP \in Seq(MessagesToP)
    /\ connects \in Nat /\ fresh \in BOOLEAN /\ goal \in 0..have + 1

Concerns(m, h) ==
    \/ m.type \in {"inv", "getdata"} /\ h \in Range(m.blocks)
    \/ m.type = "block" /\ m.height = h

(* Block h is announced to L, or L is going to ask for it, has asked for it  *)
(* or is being sent it; and the same if P only is going to announce it.      *)
Announced(h) ==
    \/ \E m \in Range(toL) \cup Range(toP) : Concerns(m, h)
    \/ \E a \in Range(askFor) : a.block = h
UnderWay(h) == h \in Range(toSend) \/ Announced(h)

(* What P leaves out of its inventory, because L is known to have it, L has  *)
(* or gets: however requests are delayed, repeated or dropped, nothing that  *)
(* was announced is lost.                                                    *)
KnownComes == \A h \in Range(known) : AlreadyHave(h) \/ Announced(h)

(* Every connection brings L a batch further, whatever an earlier one left   *)
(* behind of orphans and requests: it does not fall silent before.           *)
BatchArrives == Quiet => have >= Min({tip, from + Limit})

(* The exchange never goes round in circles: after the last new block and    *)
(* the last connection L and P fall silent.                                  *)
ExchangeEnds == <>[]Quiet

(* A connection that begins with no orphan and no request left over from an  *)
(* earlier one does not stop short of the last proof-of-work block of P's    *)
(* chain: getblocks, continue inv and the orphan it brings lead from batch   *)
(* to batch.                                                                 *)
DownloadedToPow == Quiet /\ fresh => have >= LastPow

(* A best block that P announces always brings L further, though it may      *)
(* first be an orphan and L may have stalled before: L does not fall silent  *)
(* without the block it missed then.                                         *)
NewBlockResumes == Quiet => have >= goal

(* "When this block is requested, we'll send an inv that'll make them        *)
(* getblocks the next batch of inventory": L does not stop before it has all *)
(* of P's chain.                                                             *)
DownloadCompletes == Quiet => have = tip

=============================================================================
