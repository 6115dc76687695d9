----------------------------- MODULE NetProofs ------------------------------
(***************************************************************************)
(* Proofs about Connections, for any number of nodes, services, threads    *)
(* and slots: no thread uses a deleted node to which it has a reference,   *)
(* and outbound slots are conserved until two threads meet on a grant.     *)
(* Then about BlockDownload, for all sizes of batches,                     *)
(* inventory and messages: what was announced is not lost, a connection    *)
(* brings at least a batch, and a new block brings the next missing one.   *)
(***************************************************************************)
EXTENDS Connections, BlockDownload, NaturalsInduction, WellFoundedInduction,
        FiniteSetTheorems, TLAPS

(* The socket thread is removing a node.                                     *)
Removing == {"posting", "clearing", "closing"}

(* The threads' positions agree with what they hold.                         *)
ThreadPart ==
    /\ closing \in Nodes <=> sockPc \in Removing
    /\ sockCopy # {} => sockPc = "service"
    /\ msgCopy # {} => msgPc = "handle"
    /\ \A t \in Openers : openPc[t] \in WithNode => openNode[t] \in Nodes
    /\ \A t \in Openers : openPc[t] = "found" => openNode[t] \in alive \cup {NoNode}

(* A node is connected, being closed, or waiting to be deleted.              *)
PlacePart ==
    /\ vNodes \cap vNodesDisconnected = {}
    /\ closing \notin vNodes \cup vNodesDisconnected
    /\ sockPc \in Removing => closing \in alive

(* The references that node n must have: one for each thread that works on   *)
(* it, and until it is closed the one of its creator, once the flag is set   *)
(* by which CloseNode knows that there is one to release.                    *)
One(P) == IF P THEN 1 ELSE 0
Creator(n) == One(n \in vNodes \cup {closing} /\ n \in fNetworkNode \cup fInbound)
Needed(n) ==
    One(n \in sockCopy) + One(n \in msgCopy) + Cardinality(Holding(n)) + Creator(n)

RefPart == \A n \in alive : nRefCount[n] >= Needed(n)

(* Until two threads meet on a grant, each is alone with it from the test of *)
(* fHaveGrant on: what it saw is still so.                                   *)
Inside == {"posting", "clearing", "setting"}
GrantPart ==
    races = 0 =>
        /\ \A t, u \in Openers :
              t # u /\ openPc[t] \in Inside /\ openPc[u] \in Inside => openNode[t] # openNode[u]
        /\ sockPc \in {"posting", "clearing"} =>
              /\ closing \in grantOutbound
              /\ \A t \in Openers : openPc[t] \in Inside => openNode[t] # closing
        /\ \A t \in Openers : openPc[t] \in {"posting", "clearing"} => openNode[t] \in grantOutbound
        /\ \A t \in Openers : openPc[t] = "setting" => openNode[t] \notin grantOutbound

ConnInv ==
    /\ TypeOK /\ ThreadPart /\ PlacePart /\ NodesInUseLive /\ RefPart
    /\ GrantPart /\ GrantsConserved

-----------------------------------------------------------------------------
(* Counting.                                                                 *)

LEMMA FiniteSubset ==
    /\ \A S : S \subseteq Nodes => IsFiniteSet(S) /\ Cardinality(S) \in Nat
    /\ \A S : S \subseteq Openers => IsFiniteSet(S) /\ Cardinality(S) \in Nat
  BY ConnectionsAssumption, FS_Subset, FS_CardinalityType

LEMMA HoldingType ==
    ASSUME NEW n
    PROVE  IsFiniteSet(Holding(n)) /\ Cardinality(Holding(n)) \in Nat
  BY FiniteSubset DEF Holding

-----------------------------------------------------------------------------
(* Types.                                                                    *)

LEMMA TypeInit == Init => TypeOK
  BY ConnectionsAssumption DEF Init, TypeOK, WithNode

LEMMA RefTypes ==
    ASSUME TypeOK, NEW S
    PROVE  /\ AddRef(S) => nRefCount' \in [Nodes -> Int]
           /\ Release(S) => nRefCount' \in [Nodes -> Int]
  BY DEF TypeOK, AddRef, Release

LEMMA NewNodeTypes ==
    ASSUME TypeOK, NEW n \in Nodes, NEW h \in Hosts \cup {NoHost}, NewNode(n, h)
    PROVE  /\ alive' \subseteq Nodes /\ vNodes' \subseteq Nodes /\ vNodesDisconnected' \subseteq Nodes
           /\ addr' \in [Nodes -> Hosts \cup {NoHost}] /\ nRefCount' \in [Nodes -> Int]
           /\ fDisconnect' \subseteq Nodes /\ fNetworkNode' \subseteq Nodes
           /\ grantOutbound' \subseteq Nodes
  BY DEF TypeOK, NewNode

LEMMA GoTypes ==
    ASSUME TypeOK, NEW t \in Openers,
           NEW pc \in {"idle", "granted", "connect", "found", "dial", "undefined"} \cup WithNode,
           NEW h \in Hosts \cup {NoHost}, NEW n \in Nodes \cup {NoNode}, Go(t, pc, h, n)
    PROVE  /\ openPc' \in [Openers -> {"idle", "granted", "connect", "found", "dial", "undefined"}
                                           \cup WithNode]
           /\ openHost' \in [Openers -> Hosts \cup {NoHost}]
           /\ openNode' \in [Openers -> Nodes \cup {NoNode}]
  BY DEF TypeOK, Go

LEMMA TypeStep == ConnInv /\ [Next]_vars => TypeOK'
  <1> SUFFICES ASSUME ConnInv, [Next]_vars PROVE TypeOK'
    OBVIOUS
  <1> USE DEF nodeVars, grantVars, sockVars, msgVars, openVars, WithNode
  <1>0. TypeOK /\ ThreadPart
    BY DEF ConnInv
  <1>1. CASE EnterDisconnect
    BY <1>0, <1>1 DEF EnterDisconnect, TypeOK
  <1>2. ASSUME NEW n \in Nodes, RemoveNode(n) PROVE TypeOK'
    <2>1. races' \in Nat /\ closing' = n /\ sockPc' \in {"posting", "closing"}
      BY <1>0, <1>2 DEF RemoveNode, TypeOK
    <2>2. vNodes' \subseteq Nodes
      BY <1>0, <1>2 DEF RemoveNode, TypeOK
    <2> QED BY <1>0, <1>2, <2>1, <2>2 DEF RemoveNode, TypeOK
  <1>13. CASE PostGrant \/ ClearGrant
    BY <1>0, <1>13 DEF PostGrant, ClearGrant, TypeOK
  <1>3. CASE CloseNode
    <2>1. nRefCount' \in [Nodes -> Int]
      BY <1>0, <1>3, RefTypes DEF CloseNode
    <2> QED BY <1>0, <1>3, <2>1 DEF CloseNode, TypeOK, ThreadPart, Removing
  <1>4. CASE DeleteNodes
    <2>1. openNode' \in [Openers -> Nodes \cup {NoNode}]
      BY <1>0, <1>4 DEF DeleteNodes, TypeOK
    <2>2. Cardinality(grantOutbound \cap Deletable) \in Nat
      BY <1>0, FiniteSubset DEF TypeOK
    <2> QED BY <1>0, <1>4, <2>1, <2>2 DEF DeleteNodes, TypeOK
  <1>5. ASSUME NEW n \in Nodes, NEW h \in Hosts, AcceptConnection(n, h) PROVE TypeOK'
    BY <1>0, <1>5, NewNodeTypes DEF AcceptConnection, TypeOK
  <1>6. CASE ServiceSockets
    <2>1. nRefCount' \in [Nodes -> Int]
      BY <1>0, <1>6, RefTypes DEF ServiceSockets
    <2> QED BY <1>0, <1>6, <2>1 DEF ServiceSockets, TypeOK
  <1>7. CASE EndOfLoop
    <2>1. nRefCount' \in [Nodes -> Int]
      BY <1>0, <1>7, RefTypes DEF EndOfLoop
    <2> QED BY <1>0, <1>7, <2>1 DEF EndOfLoop, TypeOK
  <1>8. ASSUME NEW n \in Nodes, CloseSocketDisconnect(n) PROVE TypeOK'
    BY <1>0, <1>8 DEF CloseSocketDisconnect, TypeOK
  <1>9. CASE PollNodes
    <2>1. nRefCount' \in [Nodes -> Int]
      BY <1>0, <1>9, RefTypes DEF PollNodes
    <2> QED BY <1>0, <1>9, <2>1 DEF PollNodes, TypeOK
  <1>10. CASE EndOfPoll
    <2>1. nRefCount' \in [Nodes -> Int]
      BY <1>0, <1>10, RefTypes DEF EndOfPoll
    <2> QED BY <1>0, <1>10, <2>1 DEF EndOfPoll, TypeOK
  <1>11. ASSUME NEW t \in Openers, Opener(t) PROVE TypeOK'
    <2>0. openHost[t] \in Hosts \cup {NoHost} /\ openNode[t] \in Nodes \cup {NoNode}
      BY <1>0 DEF TypeOK
    <2>1. CASE AcquireGrant(t)
      <3>1. semOutbound' \in Nat
        BY <1>0, <2>1 DEF AcquireGrant, TypeOK
      <3>2. Go(t, "granted", NoHost, NoNode)
        BY <2>1 DEF AcquireGrant
      <3> QED BY <1>0, <2>1, <3>1, <3>2, GoTypes DEF AcquireGrant, TypeOK
    <2>2. CASE GiveUp(t)
      <3>1. semOutbound' \in Nat
        BY <1>0, <2>2 DEF GiveUp, TypeOK
      <3>2. Go(t, "idle", NoHost, NoNode)
        BY <2>2 DEF GiveUp
      <3> QED BY <1>0, <2>2, <3>1, <3>2, GoTypes DEF GiveUp, TypeOK
    <2>3. ASSUME NEW h \in Hosts, ChooseAddress(t, h) PROVE TypeOK'
      BY <1>0, <2>3, GoTypes DEF ChooseAddress, TypeOK
    <2>4. CASE FindNode(t)
      <3>1. Connected(openHost[t]) \subseteq Nodes
        BY <1>0 DEF Connected, TypeOK
      <3>2. /\ openPc' \in [Openers -> {"idle", "granted", "connect", "found", "dial", "undefined"}
                                           \cup WithNode]
            /\ openHost' \in [Openers -> Hosts \cup {NoHost}]
            /\ openNode' \in [Openers -> Nodes \cup {NoNode}]
        BY <1>0, <2>0, <2>4, <3>1, GoTypes DEF FindNode
      <3> QED BY <1>0, <2>4, <3>2 DEF FindNode, TypeOK
    <2>5. CASE RefFound(t)
      <3>1. nRefCount' \in [Nodes -> Int]
        BY <1>0, <2>5, RefTypes DEF RefFound
      <3> QED BY <1>0, <2>0, <2>5, <3>1, GoTypes DEF RefFound, TypeOK
    <2>6. CASE RefUndefined(t)
      BY <1>0, <2>6, GoTypes DEF RefUndefined, TypeOK
    <2>7. ASSUME NEW n \in Nodes, ConnectNode(t, n) PROVE TypeOK'
      <3>1. NewNode(n, openHost[t]) /\ Go(t, "made", NoHost, n)
        BY <2>7 DEF ConnectNode
      <3> QED BY <1>0, <2>0, <2>7, <3>1, GoTypes, NewNodeTypes DEF ConnectNode, TypeOK
    <2>8. CASE EnterGrant(t) \/ PostFound(t) \/ ClearFound(t) \/ MoveTo(t)
      <3>1. openNode[t] \in Nodes
        BY <1>0, <2>8 DEF EnterGrant, PostFound, ClearFound, MoveTo, ThreadPart
      <3>2. semOutbound' \in Nat /\ grantOutbound' \subseteq Nodes /\ races' \in Nat
        BY <1>0, <2>8, <3>1 DEF EnterGrant, PostFound, ClearFound, MoveTo, TypeOK
      <3>3. \E pc \in WithNode : Go(t, pc, NoHost, openNode[t])
        BY <2>8 DEF EnterGrant, PostFound, ClearFound, MoveTo
      <3> QED BY <1>0, <2>0, <2>8, <3>2, <3>3, GoTypes
              DEF EnterGrant, PostFound, ClearFound, MoveTo, TypeOK
    <2>9. CASE SetNetworkNode(t)
      <3>1. openNode[t] \in Nodes
        BY <1>0, <2>9 DEF SetNetworkNode, ThreadPart
      <3> QED BY <1>0, <2>9, <3>1, GoTypes DEF SetNetworkNode, TypeOK
    <2> QED BY <1>11, <2>1, <2>2, <2>3, <2>4, <2>5, <2>6, <2>7, <2>8, <2>9 DEF Opener
  <1>12. CASE UNCHANGED vars
    BY <1>0, <1>12 DEF vars, TypeOK
  <1> QED BY <1>1, <1>2, <1>13, <1>3, <1>4, <1>5, <1>6, <1>7, <1>8, <1>9, <1>10, <1>11, <1>12
          DEF Next, SocketThread, MessageThread

-----------------------------------------------------------------------------
(* Outbound slots.                                                           *)

Grantees == {t \in Openers : HasGrant(t)}
Granted == {"granted", "connect", "found", "dial", "made", "posting", "clearing", "setting",
            "undefined"}

(* A thread that goes on holds a grant or not by where it goes.              *)
LEMMA GranteesGo ==
    ASSUME TypeOK, NEW t \in Openers, NEW pc, NEW h, NEW n, Go(t, pc, h, n)
    PROVE  Cardinality(Grantees') =
               Cardinality(Grantees) + One(pc \in Granted /\ ~HasGrant(t))
                                     - One(pc \notin Granted /\ HasGrant(t))
  <1>1. IsFiniteSet(Grantees) /\ Cardinality(Grantees) \in Nat
    BY FiniteSubset DEF Grantees
  <1>2. \A u \in Openers : openPc'[u] = IF u = t THEN pc ELSE openPc[u]
    BY DEF Go, TypeOK
  <1>3. CASE pc \in Granted
    <2>1. Grantees' = Grantees \cup {t}
      BY <1>2, <1>3 DEF Grantees, HasGrant, Granted
    <2>2. t \in Grantees <=> HasGrant(t)
      BY DEF Grantees
    <2> QED BY <1>1, <1>3, <2>1, <2>2, FS_AddElement DEF One
  <1>4. CASE pc \notin Granted
    <2>1. Grantees' = Grantees \ {t}
      BY <1>2, <1>4 DEF Grantees, HasGrant, Granted
    <2>2. t \in Grantees <=> HasGrant(t)
      BY DEF Grantees
    <2>3. Cardinality(Grantees') = IF HasGrant(t) THEN Cardinality(Grantees) - 1 ELSE Cardinality(Grantees)
      BY <1>1, <2>1, <2>2, FS_RemoveElement
    <2> QED BY <1>1, <1>4, <2>3 DEF One
  <1> QED BY <1>3, <1>4

-----------------------------------------------------------------------------
(* References.                                                               *)

(* A thread that goes on holds a node or not by where it goes.               *)
LEMMA HoldingGo ==
    ASSUME TypeOK, NEW t \in Openers, NEW pc, NEW h, NEW n, NEW m, Go(t, pc, h, n)
    PROVE  /\ pc \in WithNode /\ n = m => Holding(m)' = Holding(m) \cup {t}
           /\ ~(pc \in WithNode /\ n = m) => Holding(m)' = Holding(m) \ {t}
  <1>1. \A u \in Openers : openPc'[u] = IF u = t THEN pc ELSE openPc[u]
    BY DEF Go, TypeOK
  <1>2. \A u \in Openers : openNode'[u] = IF u = t THEN n ELSE openNode[u]
    BY DEF Go, TypeOK
  <1> QED BY <1>1, <1>2 DEF Holding

(* The same, counted.                                                        *)
LEMMA HoldingCount ==
    ASSUME TypeOK, NEW t \in Openers, NEW pc, NEW h, NEW n, NEW m, Go(t, pc, h, n)
    PROVE  Cardinality(Holding(m)') =
               Cardinality(Holding(m))
                   + One(pc \in WithNode /\ n = m /\ t \notin Holding(m))
                   - One(~(pc \in WithNode /\ n = m) /\ t \in Holding(m))
  <1>1. IsFiniteSet(Holding(m)) /\ Cardinality(Holding(m)) \in Nat
    BY HoldingType
  <1>2. CASE pc \in WithNode /\ n = m
    <2>1. Cardinality(Holding(m)') =
              IF t \in Holding(m) THEN Cardinality(Holding(m)) ELSE Cardinality(Holding(m)) + 1
      BY <1>1, <1>2, HoldingGo, FS_AddElement
    <2> QED BY <1>1, <1>2, <2>1 DEF One
  <1>3. CASE ~(pc \in WithNode /\ n = m)
    <2>1. Cardinality(Holding(m)') =
              IF t \in Holding(m) THEN Cardinality(Holding(m)) - 1 ELSE Cardinality(Holding(m))
      BY <1>1, <1>3, HoldingGo, FS_RemoveElement
    <2> QED BY <1>1, <1>3, <2>1 DEF One
  <1> QED BY <1>2, <1>3

(* A node that nobody needs is in no copy and in no opener's hands.          *)
LEMMA Unneeded ==
    ASSUME TypeOK, RefPart, NEW n \in alive, nRefCount[n] <= 0
    PROVE  n \notin sockCopy /\ n \notin msgCopy /\ Holding(n) = {}
  <1>1. nRefCount[n] \in Int /\ nRefCount[n] >= Needed(n)
    BY DEF TypeOK, RefPart
  <1>2. Cardinality(Holding(n)) \in Nat /\ IsFiniteSet(Holding(n))
    BY HoldingType
  <1>3. One(n \in sockCopy) = 0 /\ One(n \in msgCopy) = 0 /\ Cardinality(Holding(n)) = 0
    BY <1>1, <1>2 DEF Needed, Creator, One
  <1> QED BY <1>2, <1>3, FS_EmptySet DEF One

(* The pointers that DeleteNodes finds dangling have no reference.           *)
LEMMA HoldingDelete ==
    ASSUME TypeOK, RefPart, NodesInUseLive, DeleteNodes
    PROVE  /\ \A u \in Openers : openPc[u] \in WithNode =>
                 openNode[u] \notin Deletable /\ openNode'[u] = openNode[u]
           /\ \A m : Holding(m)' = Holding(m)
  <1>1. ASSUME NEW u \in Openers, openPc[u] \in WithNode
        PROVE  openNode[u] \notin Deletable /\ openNode'[u] = openNode[u]
    <2>1. openNode[u] \in alive /\ u \in Holding(openNode[u])
      BY <1>1 DEF NodesInUseLive, Holding
    <2>2. openNode[u] \notin Deletable
      BY <2>1, Unneeded DEF Deletable
    <2> QED BY <2>2 DEF DeleteNodes
  <1>2. openPc' = openPc
    BY DEF DeleteNodes
  <1>3. ASSUME NEW m, NEW u \in Openers, openPc[u] \in WithNode
        PROVE  openNode'[u] = m <=> openNode[u] = m
    BY <1>1, <1>3
  <1> QED BY <1>1, <1>2, <1>3 DEF Holding

-----------------------------------------------------------------------------
(* The positions of the threads.                                             *)

LEMMA GoPart ==
    ASSUME TypeOK, ThreadPart, alive \subseteq alive',
           NEW t \in Openers, NEW pc, NEW h, NEW n, Go(t, pc, h, n),
           pc \in WithNode => n \in Nodes,
           pc = "found" => n \in alive
    PROVE  /\ \A u \in Openers : openPc'[u] \in WithNode => openNode'[u] \in Nodes
           /\ \A u \in Openers : openPc'[u] = "found" => openNode'[u] \in alive' \cup {NoNode}
  <1>1. \A u \in Openers : openPc'[u] = IF u = t THEN pc ELSE openPc[u]
    BY DEF Go, TypeOK
  <1>2. \A u \in Openers : openNode'[u] = IF u = t THEN n ELSE openNode[u]
    BY DEF Go, TypeOK
  <1> QED BY <1>1, <1>2 DEF ThreadPart

LEMMA ThreadStep == ConnInv /\ [Next]_vars => ThreadPart'
  <1> SUFFICES ASSUME ConnInv, [Next]_vars PROVE ThreadPart'
    OBVIOUS
  <1> USE DEF nodeVars, grantVars, sockVars, msgVars, openVars, WithNode
  <1>0. TypeOK /\ ThreadPart /\ NodesInUseLive /\ RefPart /\ NoNode \notin Nodes
    BY ConnectionsAssumption DEF ConnInv
  <1>1. CASE EnterDisconnect
    BY <1>0, <1>1 DEF EnterDisconnect, ThreadPart, Removing
  <1>2. ASSUME NEW n \in Nodes, RemoveNode(n) PROVE ThreadPart'
    BY <1>0, <1>2 DEF RemoveNode, ThreadPart, Removing
  <1>3. CASE PostGrant \/ ClearGrant \/ CloseNode
    BY <1>0, <1>3 DEF PostGrant, ClearGrant, CloseNode, ThreadPart, Removing
  <1>4. CASE DeleteNodes
    <2>1. \A u \in Openers : /\ openPc[u] \in WithNode => openNode'[u] = openNode[u]
                             /\ openPc[u] = "found" => openNode'[u] \in alive' \cup {NoNode}
      BY <1>0, <1>4, HoldingDelete DEF DeleteNodes, ThreadPart
    <2> QED BY <1>0, <1>4, <2>1 DEF DeleteNodes, ThreadPart, Removing
  <1>5. ASSUME NEW n \in Nodes, NEW h \in Hosts, AcceptConnection(n, h) PROVE ThreadPart'
    BY <1>0, <1>5 DEF AcceptConnection, NewNode, ThreadPart
  <1>6. CASE ServiceSockets
    BY <1>0, <1>6 DEF ServiceSockets, ThreadPart, Removing
  <1>7. CASE EndOfLoop
    BY <1>0, <1>7 DEF EndOfLoop, ThreadPart, Removing
  <1>8. ASSUME NEW n \in Nodes, CloseSocketDisconnect(n) PROVE ThreadPart'
    BY <1>0, <1>8 DEF CloseSocketDisconnect, ThreadPart
  <1>9. CASE PollNodes
    BY <1>0, <1>9 DEF PollNodes, ThreadPart
  <1>10. CASE EndOfPoll
    BY <1>0, <1>10 DEF EndOfPoll, ThreadPart
  <1>11. ASSUME NEW t \in Openers, Opener(t) PROVE ThreadPart'
    <2>0. UNCHANGED <<sockVars, msgVars>> /\ alive \subseteq alive'
      BY <1>11 DEF Opener, AcquireGrant, GiveUp, ChooseAddress, FindNode, RefFound, RefUndefined,
                   ConnectNode, NewNode, EnterGrant, PostFound, ClearFound, MoveTo, SetNetworkNode
    <2>1. ASSUME NEW pc, NEW h, NEW n, Go(t, pc, h, n),
                 pc \in WithNode => n \in Nodes, pc = "found" => n \in alive
          PROVE  ThreadPart'
      <3>1. /\ \A u \in Openers : openPc'[u] \in WithNode => openNode'[u] \in Nodes
            /\ \A u \in Openers : openPc'[u] = "found" => openNode'[u] \in alive' \cup {NoNode}
        BY <1>0, <2>0, <2>1, GoPart
      <3> QED BY <1>0, <2>0, <3>1 DEF ThreadPart
    <2>2. CASE FindNode(t)
      <3>1. Connected(openHost[t]) \subseteq alive
        BY <1>0 DEF Connected, NodesInUseLive
      <3> QED BY <2>1, <2>2, <3>1 DEF FindNode
    <2>3. openPc[t] \in WithNode => openNode[t] \in Nodes
      BY <1>0 DEF ThreadPart
    <2>4. openPc[t] = "found" /\ openNode[t] # NoNode => openNode[t] \in Nodes
      BY <1>0 DEF ThreadPart, TypeOK
    <2> QED BY <1>11, <2>1, <2>2, <2>3, <2>4
            DEF Opener, AcquireGrant, GiveUp, ChooseAddress, RefFound, RefUndefined, ConnectNode,
                EnterGrant, PostFound, ClearFound, MoveTo, SetNetworkNode
  <1>12. CASE UNCHANGED vars
    BY <1>0, <1>12 DEF vars, ThreadPart
  <1> QED BY <1>1, <1>2, <1>3, <1>4, <1>5, <1>6, <1>7, <1>8, <1>9, <1>10, <1>11, <1>12
          DEF Next, SocketThread, MessageThread

-----------------------------------------------------------------------------
(* The places of the nodes.                                                  *)

LEMMA PlaceStep == ConnInv /\ [Next]_vars => PlacePart'
  <1> SUFFICES ASSUME ConnInv, [Next]_vars PROVE PlacePart'
    OBVIOUS
  <1> USE DEF nodeVars, grantVars, sockVars, msgVars, openVars, WithNode
  <1>0. /\ TypeOK /\ ThreadPart /\ PlacePart /\ NodesInUseLive /\ NoNode \notin Nodes
        /\ vNodes \subseteq Nodes /\ vNodesDisconnected \subseteq Nodes
    BY ConnectionsAssumption DEF ConnInv, TypeOK
  <1>1. CASE UNCHANGED <<alive, vNodes, vNodesDisconnected, closing, sockPc>>
    BY <1>0, <1>1 DEF PlacePart
  <1>2. CASE EnterDisconnect \/ ServiceSockets \/ EndOfLoop \/ PostGrant \/ ClearGrant
    BY <1>0, <1>2 DEF EnterDisconnect, ServiceSockets, EndOfLoop, PostGrant, ClearGrant, PlacePart,
                      Removing
  <1>3. ASSUME NEW n \in Nodes, RemoveNode(n) PROVE PlacePart'
    BY <1>0, <1>3 DEF RemoveNode, ToDisconnect, PlacePart, NodesInUseLive
  <1>4. CASE CloseNode
    <2>1. closing \in Nodes
      BY <1>0, <1>4 DEF CloseNode, ThreadPart, Removing
    <2> QED BY <1>0, <1>4, <2>1 DEF CloseNode, PlacePart, Removing
  <1>5. CASE DeleteNodes
    BY <1>0, <1>5 DEF DeleteNodes, PlacePart, Removing
  <1>6. ASSUME NEW n, NEW h, NewNode(n, h), UNCHANGED sockVars PROVE PlacePart'
    <2>1. n \in Nodes /\ n \notin alive /\ n \notin vNodesDisconnected
      BY <1>0, <1>6 DEF NewNode, NodesInUseLive
    <2>2. n # closing
      BY <1>0, <2>1 DEF PlacePart, ThreadPart
    <2> QED BY <1>0, <1>6, <2>1, <2>2 DEF NewNode, PlacePart
  <1> QED BY <1>1, <1>2, <1>3, <1>4, <1>5, <1>6
          DEF Next, SocketThread, MessageThread, Opener, vars, AcceptConnection,
              CloseSocketDisconnect, PollNodes, EndOfPoll, AcquireGrant, GiveUp, ChooseAddress,
              FindNode, RefFound, RefUndefined, ConnectNode, EnterGrant, PostFound, ClearFound,
              MoveTo, SetNetworkNode

-----------------------------------------------------------------------------
(* No node in use is deleted.                                                *)

LEMMA LiveStep == ConnInv /\ [Next]_vars => NodesInUseLive'
  <1> SUFFICES ASSUME ConnInv, [Next]_vars PROVE NodesInUseLive'
    OBVIOUS
  <1> USE DEF nodeVars, grantVars, sockVars, msgVars, openVars
  <1>0. /\ TypeOK /\ ThreadPart /\ PlacePart /\ NodesInUseLive /\ RefPart
        /\ NoNode \notin Nodes
    BY ConnectionsAssumption DEF ConnInv
  <1> DEFINE live == /\ vNodes \subseteq alive /\ vNodesDisconnected \subseteq alive
                     /\ sockCopy \subseteq alive /\ msgCopy \subseteq alive
             held == \A u \in Openers : openPc[u] \in WithNode => openNode[u] \in alive
  <1>1. live /\ held
    BY <1>0 DEF NodesInUseLive
  <1>2. SUFFICES live' /\ held'
    BY DEF NodesInUseLive
  <1>3. CASE CloseNode
    BY <1>0, <1>1, <1>3 DEF CloseNode, PlacePart, Removing
  <1>4. CASE DeleteNodes
    <2>1. \A n \in Deletable : n \notin vNodes /\ n \in alive /\ nRefCount[n] <= 0
      BY <1>0, <1>1 DEF Deletable, PlacePart
    <2>2. \A n \in Deletable : n \notin sockCopy /\ n \notin msgCopy
      BY <1>0, <2>1, Unneeded
    <2>3. held'
      BY <1>0, <1>1, <1>4, HoldingDelete DEF DeleteNodes
    <2> QED BY <1>1, <1>4, <2>1, <2>2, <2>3 DEF DeleteNodes
  <1>5. ASSUME NEW t \in Openers, Opener(t) PROVE live' /\ held'
    <2>1. live' /\ alive \subseteq alive'
      BY <1>1, <1>5 DEF Opener, AcquireGrant, GiveUp, ChooseAddress, FindNode, RefFound,
                   RefUndefined, ConnectNode, NewNode, EnterGrant, PostFound, ClearFound, MoveTo,
                   SetNetworkNode
    <2>2. ASSUME NEW pc, NEW h, NEW n, Go(t, pc, h, n), pc \in WithNode => n \in alive'
          PROVE  held'
      <3>1. \A u \in Openers : openPc'[u] = IF u = t THEN pc ELSE openPc[u]
        BY <1>0, <2>2 DEF Go, TypeOK
      <3>2. \A u \in Openers : openNode'[u] = IF u = t THEN n ELSE openNode[u]
        BY <1>0, <2>2 DEF Go, TypeOK
      <3> QED BY <1>1, <2>1, <2>2, <3>1, <3>2
    <2>3. openPc[t] \in WithNode => openNode[t] \in alive
      BY <1>1
    <2>4. openPc[t] = "found" /\ openNode[t] # NoNode => openNode[t] \in alive
      BY <1>0 DEF ThreadPart
    <2> HIDE DEF held
    <2>5. held'
      BY <1>5, <2>1, <2>2, <2>3, <2>4
         DEF Opener, AcquireGrant, GiveUp, ChooseAddress, FindNode, RefFound, RefUndefined,
             ConnectNode, NewNode, EnterGrant, PostFound, ClearFound, MoveTo, SetNetworkNode, WithNode
    <2> QED BY <2>1, <2>5
  <1> QED BY <1>1, <1>3, <1>4, <1>5
          DEF Next, SocketThread, MessageThread, vars, EnterDisconnect, RemoveNode, PostGrant,
              ClearGrant, AcceptConnection, NewNode, ServiceSockets, EndOfLoop,
              CloseSocketDisconnect, PollNodes, EndOfPoll

-----------------------------------------------------------------------------
(* Every reference that is needed is counted.                                *)

LEMMA RefStep == ConnInv /\ [Next]_vars => RefPart'
  <1> SUFFICES ASSUME ConnInv, [Next]_vars, NEW m \in alive' PROVE nRefCount'[m] >= Needed(m)'
    BY DEF RefPart
  <1> USE DEF nodeVars, grantVars, sockVars, msgVars, openVars, WithNode
  <1>0. TypeOK /\ ThreadPart /\ PlacePart /\ NodesInUseLive /\ RefPart
    BY DEF ConnInv
  <1> DEFINE held == Cardinality(Holding(m))
  <1>1. held \in Nat /\ m \in Nodes
    <2>1. TypeOK'
      BY TypeStep
    <2> QED BY <2>1, HoldingType DEF TypeOK
  <1>2. nRefCount[m] \in Int /\ (m \in alive => nRefCount[m] >= Needed(m))
    BY <1>0, <1>1 DEF TypeOK, RefPart
  <1>3. UNCHANGED <<openPc, openNode>> => held' = held
    BY DEF Holding
  <1>4. CASE EnterDisconnect
    BY <1>1, <1>2, <1>3, <1>4 DEF EnterDisconnect, Needed, Creator
  <1>5. ASSUME NEW n \in Nodes, RemoveNode(n) PROVE nRefCount'[m] >= Needed(m)'
    <2>1. vNodes' \cup {closing'} \subseteq vNodes \cup {closing}
      BY <1>5 DEF RemoveNode, ToDisconnect
    <2>2. Creator(m)' <= Creator(m)
      BY <1>5, <2>1 DEF RemoveNode, Creator, One
    <2> HIDE DEF held
    <2> QED BY <1>1, <1>2, <1>3, <1>5, <2>2 DEF RemoveNode, Needed, Creator, One, held
  <1>16. CASE PostGrant \/ ClearGrant
    BY <1>1, <1>2, <1>3, <1>16 DEF PostGrant, ClearGrant, Needed, Creator
  <1>6. CASE CloseNode
    <2>1. closing \notin vNodes /\ closing' \notin Nodes
      BY <1>0, <1>6, ConnectionsAssumption DEF CloseNode, PlacePart
    <2>2. nRefCount'[m] = nRefCount[m] - IF m \in {closing} \cap (fNetworkNode \cup fInbound) THEN 1 ELSE 0
      BY <1>1, <1>6 DEF CloseNode, Release
    <2> QED BY <1>1, <1>2, <1>3, <1>6, <2>1, <2>2 DEF CloseNode, Needed, Creator, One
  <1>7. CASE DeleteNodes
    <2>1. held' = held
      BY <1>0, <1>7, HoldingDelete
    <2> QED BY <1>1, <1>2, <1>7, <2>1 DEF DeleteNodes, Needed, Creator
  <1>8. CASE ServiceSockets
    <2>1. nRefCount'[m] = nRefCount[m] + IF m \in vNodes THEN 1 ELSE 0
      BY <1>1, <1>8 DEF ServiceSockets, AddRef
    <2>2. m \in alive /\ sockCopy = {}
      BY <1>0, <1>8 DEF ServiceSockets, ThreadPart, Removing
    <2> QED BY <1>1, <1>2, <1>3, <1>8, <2>1, <2>2 DEF ServiceSockets, Needed, Creator, One
  <1>9. CASE EndOfLoop
    <2>1. nRefCount'[m] = nRefCount[m] - IF m \in sockCopy THEN 1 ELSE 0
      BY <1>1, <1>9 DEF EndOfLoop, Release
    <2> QED BY <1>1, <1>2, <1>3, <1>9, <2>1 DEF EndOfLoop, Needed, Creator, One
  <1>10. ASSUME NEW n \in Nodes, CloseSocketDisconnect(n) PROVE nRefCount'[m] >= Needed(m)'
    BY <1>1, <1>2, <1>3, <1>10 DEF CloseSocketDisconnect, Needed, Creator
  <1>11. CASE PollNodes
    <2>1. nRefCount'[m] = nRefCount[m] + IF m \in vNodes THEN 1 ELSE 0
      BY <1>1, <1>11 DEF PollNodes, AddRef
    <2>2. m \in alive /\ msgCopy = {}
      BY <1>0, <1>11 DEF PollNodes, ThreadPart
    <2> QED BY <1>1, <1>2, <1>3, <1>11, <2>1, <2>2 DEF PollNodes, Needed, Creator, One
  <1>12. CASE EndOfPoll
    <2>1. nRefCount'[m] = nRefCount[m] - IF m \in msgCopy THEN 1 ELSE 0
      BY <1>1, <1>12 DEF EndOfPoll, Release
    <2> QED BY <1>1, <1>2, <1>3, <1>12, <2>1 DEF EndOfPoll, Needed, Creator, One
  <1>13. ASSUME NEW n \in Nodes, NEW h \in Hosts, AcceptConnection(n, h) PROVE nRefCount'[m] >= Needed(m)'
    <2>1. CASE m = n
      <3>1. m \notin sockCopy /\ m \notin msgCopy /\ Holding(m) = {} /\ nRefCount'[m] = 1
        BY <1>0, <1>13, <2>1 DEF AcceptConnection, NewNode, NodesInUseLive, TypeOK, Holding
      <3>2. held' = 0
        BY <1>3, <1>13, <3>1, FS_EmptySet DEF AcceptConnection
      <3> QED BY <1>13, <3>1, <3>2 DEF AcceptConnection, Needed, Creator, One
    <2>2. CASE m # n
      <3>1. m \in alive /\ nRefCount'[m] = nRefCount[m]
        BY <1>0, <1>1, <1>13, <2>2 DEF AcceptConnection, NewNode, TypeOK
      <3> QED BY <1>1, <1>2, <1>3, <1>13, <2>2, <3>1 DEF AcceptConnection, NewNode, Needed, Creator
    <2> QED BY <2>1, <2>2
  <1>14. ASSUME NEW t \in Openers, Opener(t) PROVE nRefCount'[m] >= Needed(m)'
    <2>0. ASSUME NEW pc, NEW h, NEW n, Go(t, pc, h, n)
          PROVE  held' = held + One(pc \in WithNode /\ n = m /\ t \notin Holding(m))
                              - One(~(pc \in WithNode /\ n = m) /\ t \in Holding(m))
      BY <1>0, <2>0, HoldingCount
    <2>1. t \in Holding(m) <=> openPc[t] \in WithNode /\ openNode[t] = m
      BY DEF Holding
    <2> HIDE DEF held
    <2>2. CASE AcquireGrant(t) \/ GiveUp(t) \/ FindNode(t) \/ RefUndefined(t)
                 \/ \E h \in Hosts : ChooseAddress(t, h)
      <3>1. held' = held
        BY <1>1, <2>0, <2>1, <2>2
           DEF AcquireGrant, GiveUp, FindNode, RefUndefined, ChooseAddress, One
      <3> QED BY <1>1, <1>2, <2>2, <3>1
              DEF AcquireGrant, GiveUp, FindNode, RefUndefined, ChooseAddress, Needed, Creator, held
    <2>3. CASE RefFound(t)
      <3>1. nRefCount'[m] = nRefCount[m] + One(openNode[t] = m)
        BY <1>1, <1>2, <2>3 DEF RefFound, AddRef, One
      <3>2. held' = held + One(openNode[t] = m)
        BY <1>1, <2>0, <2>1, <2>3 DEF RefFound, One
      <3> QED BY <1>1, <1>2, <2>3, <3>1, <3>2 DEF RefFound, Needed, Creator, One, held
    <2>4. ASSUME NEW n \in Nodes, ConnectNode(t, n) PROVE nRefCount'[m] >= Needed(m)'
      <3>1. CASE m = n
        <4>1. m \notin sockCopy /\ m \notin msgCopy /\ Holding(m) = {} /\ nRefCount'[m] = 1
          BY <1>0, <2>4, <3>1 DEF ConnectNode, NewNode, NodesInUseLive, TypeOK, Holding
        <4>2. held = 0
          BY <4>1, FS_EmptySet DEF held
        <4>3. held' = 1
          BY <2>0, <2>1, <2>4, <3>1, <4>1, <4>2 DEF ConnectNode, One
        <4>4. m \notin fNetworkNode' /\ m \notin fInbound'
          BY <2>4, <3>1 DEF ConnectNode, NewNode
        <4> QED BY <2>4, <4>1, <4>3, <4>4 DEF ConnectNode, Needed, Creator, One, held
      <3>2. CASE m # n
        <4>1. m \in alive /\ nRefCount'[m] = nRefCount[m]
          BY <1>0, <1>1, <2>4, <3>2 DEF ConnectNode, NewNode, TypeOK
        <4>2. held' = held
          BY <1>1, <2>0, <2>1, <2>4, <3>2 DEF ConnectNode, One
        <4> QED BY <1>1, <1>2, <2>4, <3>2, <4>1, <4>2 DEF ConnectNode, NewNode, Needed, Creator, held
      <3> QED BY <3>1, <3>2
    <2>5. CASE EnterGrant(t) \/ PostFound(t) \/ ClearFound(t) \/ MoveTo(t)
      <3>1. openPc[t] \in WithNode /\ \E pc \in WithNode : Go(t, pc, NoHost, openNode[t])
        BY <2>5 DEF EnterGrant, PostFound, ClearFound, MoveTo
      <3>2. held' = held
        BY <1>1, <2>0, <2>1, <3>1 DEF One
      <3> QED BY <1>1, <1>2, <2>5, <3>2
              DEF EnterGrant, PostFound, ClearFound, MoveTo, Needed, Creator, held
    <2>6. CASE SetNetworkNode(t)
      <3>1. held' = held - One(openNode[t] = m)
        BY <1>1, <2>0, <2>1, <2>6 DEF SetNetworkNode, One
      <3>2. Creator(m)' <= Creator(m) + One(openNode[t] = m)
        BY <2>6 DEF SetNetworkNode, Creator, One
      <3>3. Creator(m) \in Nat /\ Creator(m)' \in Nat
        BY DEF Creator, One
      <3> QED BY <1>1, <1>2, <2>6, <3>1, <3>2, <3>3 DEF SetNetworkNode, Needed, One, held
    <2> QED BY <1>14, <2>2, <2>3, <2>4, <2>5, <2>6 DEF Opener
  <1>15. CASE UNCHANGED vars
    BY <1>1, <1>2, <1>3, <1>15 DEF vars, Needed, Creator
  <1> QED BY <1>4, <1>5, <1>6, <1>7, <1>8, <1>9, <1>10, <1>11, <1>12, <1>13, <1>14, <1>15, <1>16
          DEF Next, SocketThread, MessageThread

-----------------------------------------------------------------------------
(* Threads alone with a grant.                                               *)

(* The threads have not met before a step after which they have not.         *)
LEMMA NoRaceBefore ==
    ASSUME TypeOK, [Next]_vars, races' = 0
    PROVE  races = 0
  <1> USE DEF nodeVars, grantVars, sockVars, msgVars, openVars
  <1>0. races \in Nat
    BY DEF TypeOK
  <1>1. ASSUME NEW n \in Nodes, RemoveNode(n) PROVE races = 0
    BY <1>0, <1>1 DEF RemoveNode
  <1>2. ASSUME NEW t \in Openers, EnterGrant(t) PROVE races = 0
    BY <1>0, <1>2 DEF EnterGrant
  <1>3. CASE UNCHANGED races
    BY <1>3
  <1> QED BY <1>1, <1>2, <1>3
          DEF Next, SocketThread, MessageThread, Opener, vars, EnterDisconnect, PostGrant,
              ClearGrant, CloseNode, DeleteNodes, AcceptConnection, ServiceSockets, EndOfLoop,
              CloseSocketDisconnect, PollNodes, EndOfPoll, AcquireGrant, GiveUp, ChooseAddress,
              FindNode, RefFound, RefUndefined, ConnectNode, PostFound, ClearFound, MoveTo,
              SetNetworkNode

LEMMA GrantPartStep == ConnInv /\ [Next]_vars => GrantPart'
  <1> SUFFICES ASSUME ConnInv, [Next]_vars, races' = 0 PROVE GrantPart'
    BY DEF GrantPart
  <1> USE DEF nodeVars, grantVars, sockVars, msgVars, openVars
  <1>0. TypeOK /\ RefPart /\ NodesInUseLive /\ GrantPart /\ races = 0
    BY NoRaceBefore DEF ConnInv
  <1>1. ASSUME NEW n \in Nodes, RemoveNode(n) PROVE GrantPart'
    <2>1. n \in grantOutbound => OpenersInside(n) = {}
      BY <1>0, <1>1 DEF RemoveNode
    <2>2. n \in grantOutbound => \A t \in Openers : openPc[t] \in Inside => openNode[t] # n
      BY <2>1 DEF OpenersInside, Inside
    <2>3. /\ sockPc' \in {"posting", "clearing"} => n \in grantOutbound
          /\ closing' = n /\ UNCHANGED <<grantOutbound, openPc, openNode>>
      BY <1>1 DEF RemoveNode
    <2> QED BY <1>0, <2>2, <2>3 DEF GrantPart
  <1>2. CASE PostGrant
    BY <1>0, <1>2 DEF PostGrant, GrantPart
  <1>3. CASE ClearGrant
    BY <1>0, <1>3 DEF ClearGrant, GrantPart, Inside
  <1>4. CASE DeleteNodes
    <2>1. \A t \in Openers : openPc[t] \in Inside =>
             openNode[t] \notin Deletable /\ openNode'[t] = openNode[t]
      BY <1>0, <1>4, HoldingDelete DEF Inside, WithNode
    <2> QED BY <1>0, <1>4, <2>1 DEF DeleteNodes, GrantPart, Inside
  <1>5. CASE /\ UNCHANGED <<grantOutbound, races, openPc, openNode, closing>>
             /\ sockPc' \in {"posting", "clearing"} => sockPc' = sockPc
    BY <1>0, <1>5 DEF GrantPart
  <1>6. ASSUME NEW t \in Openers, Opener(t) PROVE GrantPart'
    <2>1. ASSUME NEW pc, NEW h, NEW n, Go(t, pc, h, n)
          PROVE  \A u \in Openers : /\ openPc'[u] = IF u = t THEN pc ELSE openPc[u]
                                    /\ openNode'[u] = IF u = t THEN n ELSE openNode[u]
      BY <1>0, <2>1 DEF Go, TypeOK
    <2>2. ASSUME NEW pc, NEW h, NEW n, Go(t, pc, h, n), pc \notin Inside,
                 UNCHANGED <<grantOutbound, races, sockVars>>
          PROVE  GrantPart'
      <3>1. \A u \in Openers : openPc'[u] \in Inside => openPc'[u] = openPc[u] /\ openNode'[u] = openNode[u]
        BY <2>1, <2>2
      <3> QED BY <1>0, <2>2, <3>1 DEF GrantPart, Inside
    <2>3. CASE \/ AcquireGrant(t) \/ GiveUp(t) \/ FindNode(t) \/ RefFound(t) \/ RefUndefined(t)
               \/ SetNetworkNode(t) \/ (\E h \in Hosts : ChooseAddress(t, h))
               \/ (\E n \in Nodes : ConnectNode(t, n))
      BY <2>2, <2>3 DEF AcquireGrant, GiveUp, FindNode, RefFound, RefUndefined, SetNetworkNode,
                        ChooseAddress, ConnectNode, NewNode, Inside
    <2>4. CASE EnterGrant(t)
      <3> DEFINE n == openNode[t]
      <3>1. /\ OpenersInside(n) = {} /\ ~SocketInside(n)
            /\ Go(t, IF n \in grantOutbound THEN "posting" ELSE "setting", NoHost, n)
            /\ UNCHANGED <<grantOutbound, sockVars>>
        BY <1>0, <2>4 DEF EnterGrant
      <3>2. /\ \A u \in Openers : openPc[u] \in Inside => openNode[u] # n
            /\ sockPc \in {"posting", "clearing"} => closing # n
        BY <3>1 DEF OpenersInside, SocketInside, Inside
      <3>3. \A u \in Openers : /\ openPc'[u] = IF u = t
                                               THEN IF n \in grantOutbound THEN "posting" ELSE "setting"
                                               ELSE openPc[u]
                               /\ openNode'[u] = openNode[u]
        BY <2>1, <3>1
      <3> QED BY <1>0, <3>1, <3>2, <3>3 DEF GrantPart, Inside
    <2>5. CASE PostFound(t)
      <3>1. /\ openPc[t] = "posting" /\ UNCHANGED <<grantOutbound, races, sockVars>>
            /\ \A u \in Openers : /\ openPc'[u] = IF u = t THEN "clearing" ELSE openPc[u]
                                  /\ openNode'[u] = openNode[u]
        BY <2>1, <2>5 DEF PostFound
      <3> QED BY <1>0, <3>1 DEF GrantPart, Inside
    <2>6. CASE ClearFound(t)
      <3>1. /\ openPc[t] = "clearing" /\ UNCHANGED <<races, sockVars>>
            /\ grantOutbound' = grantOutbound \ {openNode[t]}
            /\ \A u \in Openers : /\ openPc'[u] = IF u = t THEN "setting" ELSE openPc[u]
                                  /\ openNode'[u] = openNode[u]
        BY <2>1, <2>6 DEF ClearFound
      <3> QED BY <1>0, <3>1 DEF GrantPart, Inside
    <2>7. CASE MoveTo(t)
      <3>1. /\ openPc[t] = "setting" /\ UNCHANGED <<races, sockVars>>
            /\ grantOutbound' = grantOutbound \cup {openNode[t]}
            /\ \A u \in Openers : /\ openPc'[u] = IF u = t THEN "moved" ELSE openPc[u]
                                  /\ openNode'[u] = openNode[u]
        BY <2>1, <2>7 DEF MoveTo
      <3> QED BY <1>0, <3>1 DEF GrantPart, Inside
    <2> QED BY <1>6, <2>3, <2>4, <2>5, <2>6, <2>7 DEF Opener
  <1>7. CASE CloseNode
    BY <1>0, <1>7 DEF CloseNode, GrantPart
  <1> QED BY <1>1, <1>2, <1>3, <1>4, <1>5, <1>6, <1>7
          DEF Next, SocketThread, MessageThread, vars, EnterDisconnect, AcceptConnection, NewNode,
              ServiceSockets, EndOfLoop, CloseSocketDisconnect, PollNodes, EndOfPoll

LEMMA GrantInit == Init => GrantPart /\ GrantsConserved
  <1> SUFFICES ASSUME Init PROVE GrantPart /\ GrantsConserved
    OBVIOUS
  <1>1. grantOutbound \ Posted = {} /\ {t \in Openers : HasGrant(t)} = {}
    BY DEF Init, HasGrant
  <1>2. GrantPart
    BY DEF Init, GrantPart, Inside
  <1> QED BY <1>1, <1>2, FS_EmptySet, ConnectionsAssumption DEF Init, GrantsConserved

LEMMA GrantStep == ConnInv /\ [Next]_vars => GrantsConserved'
  <1> SUFFICES ASSUME ConnInv, [Next]_vars, races' = 0 PROVE GrantsConserved'
    BY DEF GrantsConserved
  <1> USE DEF nodeVars, grantVars, sockVars, msgVars, openVars
  <1> DEFINE kept == grantOutbound \ Posted
             total == semOutbound + Cardinality(kept) + Cardinality(Grantees)
  <1>0. races = 0
    BY NoRaceBefore DEF ConnInv
  <1>1. /\ TypeOK /\ RefPart /\ NodesInUseLive /\ GrantPart /\ semOutbound \in Nat
        /\ kept \subseteq Nodes /\ IsFiniteSet(kept) /\ Cardinality(kept) \in Nat
        /\ Cardinality(Grantees) \in Nat /\ MaxOutbound \in Nat
        /\ total = MaxOutbound
    BY <1>0, FiniteSubset, ConnectionsAssumption DEF ConnInv, TypeOK, GrantsConserved, Grantees
  <1>2. SUFFICES total' = MaxOutbound
    BY DEF GrantsConserved, Grantees
  <1>3. openPc' = openPc => Grantees' = Grantees
    BY DEF Grantees, HasGrant
  <1>4. \A n : n \in Posted <=>
             /\ n \in Nodes
             /\ \/ sockPc = "clearing" /\ closing = n
                \/ \E t \in Openers : openPc[t] = "clearing" /\ openNode[t] = n
    BY DEF Posted, OpenersInside
  <1>5. \A n : n \in Posted' <=>
             /\ n \in Nodes
             /\ \/ sockPc' = "clearing" /\ closing' = n
                \/ \E t \in Openers : openPc'[t] = "clearing" /\ openNode'[t] = n
    BY DEF Posted, OpenersInside
  <1> HIDE DEF kept, Posted
  <1>6. ASSUME UNCHANGED <<semOutbound, openPc>>, kept' = kept PROVE total' = MaxOutbound
    BY <1>1, <1>3, <1>6
  <1>7. CASE /\ UNCHANGED <<semOutbound, grantOutbound, openPc, openNode>>
             /\ sockPc # "clearing" /\ sockPc' # "clearing"
    <2>1. Posted' = Posted
      BY <1>4, <1>5, <1>7
    <2> QED BY <1>6, <1>7, <2>1 DEF kept
  <1>8. CASE UNCHANGED <<semOutbound, grantOutbound, openPc, openNode, sockPc, closing>>
    <2>1. Posted' = Posted
      BY <1>4, <1>5, <1>8
    <2> QED BY <1>6, <1>8, <2>1 DEF kept
  <1>9. CASE PostGrant
    <2>1. /\ sockPc = "posting" /\ sockPc' = "clearing" /\ semOutbound' = semOutbound + 1
          /\ UNCHANGED <<grantOutbound, openPc, openNode, closing>>
      BY <1>9 DEF PostGrant
    <2>2. closing \in grantOutbound /\ \A t \in Openers : openPc[t] \in Inside => openNode[t] # closing
      BY <1>0, <1>1, <2>1 DEF GrantPart
    <2>3. closing \in Nodes /\ closing \notin Posted /\ closing \in kept
      BY <1>1, <1>4, <2>1, <2>2 DEF Inside, TypeOK, kept
    <2>4. kept' = kept \ {closing}
      BY <1>4, <1>5, <2>1, <2>3 DEF kept
    <2>5. Cardinality(kept') = Cardinality(kept) - 1
      BY <1>1, <2>3, <2>4, FS_RemoveElement
    <2> QED BY <1>1, <1>3, <2>1, <2>5
  <1>10. CASE ClearGrant
    <2>1. /\ sockPc = "clearing" /\ sockPc' = "closing" /\ UNCHANGED <<semOutbound, openPc, openNode, closing>>
          /\ grantOutbound' = grantOutbound \ {closing}
      BY <1>10 DEF ClearGrant
    <2>2. kept' = kept
      BY <1>1, <1>4, <1>5, <2>1 DEF kept, TypeOK
    <2> QED BY <1>6, <2>1, <2>2
  <1>11. CASE DeleteNodes
    <2>1. /\ sockPc = "disconnect" /\ sockPc' = "accept" /\ openPc' = openPc
          /\ grantOutbound' = grantOutbound \ Deletable
          /\ semOutbound' = semOutbound + Cardinality(grantOutbound \cap Deletable)
      BY <1>11 DEF DeleteNodes
    <2>2. \A t \in Openers : openPc[t] = "clearing" =>
             openNode[t] \notin Deletable /\ openNode'[t] = openNode[t]
      BY <1>1, <1>11, HoldingDelete DEF WithNode
    <2>3. Posted' = Posted /\ Posted \cap Deletable = {}
      BY <1>4, <1>5, <2>1, <2>2
    <2>4. kept' = kept \ Deletable /\ kept \cap Deletable = grantOutbound \cap Deletable
      BY <2>1, <2>3 DEF kept
    <2>5. /\ Cardinality(kept \ Deletable) = Cardinality(kept) - Cardinality(kept \cap Deletable)
          /\ Cardinality(kept \cap Deletable) \in Nat
      BY <1>1, FS_Difference, FiniteSubset
    <2>6. Cardinality(kept') = Cardinality(kept) - Cardinality(grantOutbound \cap Deletable)
      BY <2>4, <2>5
    <2>7. Cardinality(grantOutbound \cap Deletable) \in Nat
      BY <2>4, <2>5
    <2>8. Grantees' = Grantees
      BY <1>3, <2>1
    <2> HIDE DEF Grantees
    <2> QED BY <1>1, <2>1, <2>6, <2>7, <2>8
  <1>12. ASSUME NEW t \in Openers, Opener(t) PROVE total' = MaxOutbound
    <2>1. ASSUME NEW pc, NEW h, NEW n, Go(t, pc, h, n)
          PROVE  /\ Cardinality(Grantees') =
                       Cardinality(Grantees) + One(pc \in Granted /\ ~HasGrant(t))
                                             - One(pc \notin Granted /\ HasGrant(t))
                 /\ \A u \in Openers : /\ openPc'[u] = IF u = t THEN pc ELSE openPc[u]
                                       /\ openNode'[u] = IF u = t THEN n ELSE openNode[u]
      BY <1>1, <2>1, GranteesGo DEF Go, TypeOK
    <2>2. ASSUME NEW pc, NEW h, NEW n, Go(t, pc, h, n), pc # "clearing", openPc[t] # "clearing",
                 UNCHANGED <<grantOutbound, sockVars>>
          PROVE  kept' = kept
      <3>1. Posted' = Posted
        BY <1>4, <1>5, <2>1, <2>2
      <3> QED BY <2>2, <3>1 DEF kept
    <2>3. CASE AcquireGrant(t)
      <3>1. Cardinality(Grantees') = Cardinality(Grantees) + 1 /\ kept' = kept
        BY <1>1, <2>1, <2>2, <2>3 DEF AcquireGrant, One, Granted, HasGrant
      <3> QED BY <1>1, <2>3, <3>1 DEF AcquireGrant
    <2>4. CASE GiveUp(t)
      <3>1. Cardinality(Grantees') = Cardinality(Grantees) - 1 /\ kept' = kept
        BY <1>1, <2>1, <2>2, <2>4 DEF GiveUp, One, Granted, HasGrant
      <3> QED BY <1>1, <2>4, <3>1 DEF GiveUp
    <2>5. CASE \/ FindNode(t) \/ RefFound(t) \/ RefUndefined(t) \/ EnterGrant(t)
               \/ SetNetworkNode(t) \/ (\E h \in Hosts : ChooseAddress(t, h))
               \/ (\E n \in Nodes : ConnectNode(t, n))
      <3>1. /\ UNCHANGED <<semOutbound, grantOutbound, sockVars>>
            /\ openPc[t] \in {"granted", "connect", "found", "dial", "made", "moved"}
        BY <2>5 DEF FindNode, RefFound, RefUndefined, EnterGrant, SetNetworkNode, ChooseAddress,
                    ConnectNode, NewNode
      <3>3. PICK pc, h, n : Go(t, pc, h, n) /\ pc # "clearing" /\ (pc \in Granted <=> HasGrant(t))
        <4>1. CASE FindNode(t)
          BY <4>1 DEF FindNode, Granted, HasGrant
        <4>2. CASE RefFound(t) \/ RefUndefined(t)
          BY <4>2 DEF RefFound, RefUndefined, Granted, HasGrant
        <4>3. CASE EnterGrant(t)
          BY <4>3 DEF EnterGrant, Granted, HasGrant
        <4>4. CASE SetNetworkNode(t)
          BY <4>4 DEF SetNetworkNode, Granted, HasGrant
        <4>5. CASE \E h \in Hosts : ChooseAddress(t, h)
          BY <4>5 DEF ChooseAddress, Granted, HasGrant
        <4>6. CASE \E n \in Nodes : ConnectNode(t, n)
          BY <4>6 DEF ConnectNode, Granted, HasGrant
        <4> QED BY <2>5, <4>1, <4>2, <4>3, <4>4, <4>5, <4>6
      <3>4. openPc[t] # "clearing"
        BY <3>1
      <3>2. Cardinality(Grantees') = Cardinality(Grantees) /\ kept' = kept
        BY <1>1, <2>1, <2>2, <3>1, <3>3, <3>4 DEF One
      <3> QED BY <1>1, <3>1, <3>2
    <2>6. CASE PostFound(t)
      <3> DEFINE n == openNode[t]
      <3>1. /\ openPc[t] = "posting" /\ UNCHANGED <<grantOutbound, sockVars>>
            /\ semOutbound' = semOutbound + 1 /\ Go(t, "clearing", NoHost, n)
        BY <2>6 DEF PostFound
      <3>2. Cardinality(Grantees') = Cardinality(Grantees)
        BY <1>1, <2>1, <3>1 DEF One, Granted, HasGrant
      <3>3. n \in Nodes /\ n \in grantOutbound /\ n \notin Posted
        <4>1. n \in grantOutbound /\ n \in Nodes
          BY <1>0, <1>1, <3>1 DEF GrantPart, TypeOK
        <4>2. ~(sockPc = "clearing" /\ closing = n)
          BY <1>0, <1>1, <3>1 DEF GrantPart, Inside
        <4>3. \A u \in Openers : openPc[u] = "clearing" => openNode[u] # n
          BY <1>0, <1>1, <3>1 DEF GrantPart, Inside
        <4> QED BY <1>4, <4>1, <4>2, <4>3
      <3>4. kept' = kept \ {n}
        BY <1>4, <1>5, <2>1, <3>1, <3>3 DEF kept
      <3>5. Cardinality(kept') = Cardinality(kept) - 1
        BY <1>1, <3>3, <3>4, FS_RemoveElement DEF kept
      <3> QED BY <1>1, <3>1, <3>2, <3>5
    <2>7. CASE ClearFound(t)
      <3> DEFINE n == openNode[t]
      <3>1. /\ openPc[t] = "clearing" /\ UNCHANGED <<semOutbound, sockVars>>
            /\ grantOutbound' = grantOutbound \ {n} /\ Go(t, "setting", NoHost, n)
        BY <2>7 DEF ClearFound
      <3>2. Cardinality(Grantees') = Cardinality(Grantees)
        BY <1>1, <2>1, <3>1 DEF One, Granted, HasGrant
      <3>3. kept' = kept
        BY <1>1, <1>4, <1>5, <2>1, <3>1 DEF kept, TypeOK
      <3> QED BY <1>1, <3>1, <3>2, <3>3
    <2>8. CASE MoveTo(t)
      <3> DEFINE n == openNode[t]
      <3>1. /\ openPc[t] = "setting" /\ UNCHANGED <<semOutbound, sockVars>>
            /\ grantOutbound' = grantOutbound \cup {n} /\ Go(t, "moved", NoHost, n)
        BY <2>8 DEF MoveTo
      <3>2. Cardinality(Grantees') = Cardinality(Grantees) - 1
        BY <1>1, <2>1, <3>1 DEF One, Granted, HasGrant
      <3>3. n \notin grantOutbound /\ n \notin Posted
        <4>1. n \notin grantOutbound
          BY <1>0, <1>1, <3>1 DEF GrantPart
        <4>2. ~(sockPc = "clearing" /\ closing = n)
          BY <1>0, <1>1, <3>1 DEF GrantPart, Inside
        <4>3. \A u \in Openers : openPc[u] = "clearing" => openNode[u] # n
          BY <1>0, <1>1, <3>1 DEF GrantPart, Inside
        <4> QED BY <1>4, <4>1, <4>2, <4>3
      <3>4. kept' = kept \cup {n} /\ n \notin kept
        BY <1>4, <1>5, <2>1, <3>1, <3>3 DEF kept
      <3>5. Cardinality(kept') = Cardinality(kept) + 1
        BY <1>1, <3>4, FS_AddElement
      <3> QED BY <1>1, <3>1, <3>2, <3>5
    <2> QED BY <1>12, <2>3, <2>4, <2>5, <2>6, <2>7, <2>8 DEF Opener
  <1> QED BY <1>7, <1>8, <1>9, <1>10, <1>11, <1>12
          DEF Next, SocketThread, MessageThread, vars, EnterDisconnect, RemoveNode, CloseNode,
              AcceptConnection, NewNode, ServiceSockets, EndOfLoop, CloseSocketDisconnect,
              PollNodes, EndOfPoll

-----------------------------------------------------------------------------
LEMMA ConnInvInit == Init => ConnInv
  <1> SUFFICES ASSUME Init PROVE ConnInv
    OBVIOUS
  <1>1. TypeOK /\ GrantPart /\ GrantsConserved
    BY TypeInit, GrantInit
  <1>3. ThreadPart /\ PlacePart /\ RefPart
    BY ConnectionsAssumption DEF Init, ThreadPart, PlacePart, RefPart, Removing, WithNode
  <1>4. NodesInUseLive
    BY DEF Init, NodesInUseLive, WithNode
  <1> QED BY <1>1, <1>3, <1>4 DEF ConnInv

LEMMA ConnInvStep == ConnInv /\ [Next]_vars => ConnInv'
  BY TypeStep, ThreadStep, PlaceStep, LiveStep, RefStep, GrantPartStep, GrantStep DEF ConnInv

(* The inductive invariant: the places of the nodes, what the threads hold   *)
(* and the references that CNode::nRefCount must count for it.               *)
THEOREM ConnInvariant == Spec => []ConnInv
  BY ConnInvInit, ConnInvStep, PTL DEF Spec

(* The node tables, the counters and the threads' positions keep their       *)
(* types: no count leaves the integers and no slot of semOutbound is         *)
(* released or taken below zero.                                             *)
THEOREM ConnectionsTypeCorrect == Spec => []TypeOK
  <1>1. ConnInv => TypeOK
    BY DEF ConnInv
  <1> QED BY <1>1, ConnInvariant, PTL

(* "wait until threads are done using it" (ThreadSocketHandler2): whatever   *)
(* the threads do, no CNode is deleted while it is connected or while one of *)
(* them has a reference to it, races on its grant included.  The pointer     *)
(* that ConnectNode has from FindNode is not covered until it has AddRef'd.  *)
THEOREM NoReferencedNodeDeleted == Spec => []NodesInUseLive
  <1>1. ConnInv => NodesInUseLive
    BY DEF ConnInv
  <1> QED BY <1>1, ConnInvariant, PTL

(* CSemaphoreGrant: as long as no two threads have been inside Release or    *)
(* MoveTo of one grant at the same time, every outbound slot is free, with   *)
(* one thread or with one node, at every single access to fHaveGrant.        *)
THEOREM OutboundSlotsConserved == Spec => []GrantsConserved
  <1>1. ConnInv => GrantsConserved
    BY DEF ConnInv
  <1> QED BY <1>1, ConnInvariant, PTL

-----------------------------------------------------------------------------
(* BlockDownload: numbers and sequences.                                     *)

(* A set of natural numbers that is not empty has a least element: the       *)
(* inductions below look at the least counterexample.                        *)
LEMMA LeastNat ==
    ASSUME NEW T \in SUBSET Nat, T # {}
    PROVE  \E k \in T : \A j \in T : k <= j
  <1>1. PICK k \in T : \A j \in T : ~(<<j, k>> \in OpToRel(<, Nat))
    BY WFMin, NatLessThanWellFounded, Zenon
  <1>2. ASSUME NEW j \in T, ~(k <= j) PROVE FALSE
    <2>1. j < k /\ j \in Nat /\ k \in Nat
      BY <1>2
    <2>2. <<j, k>> \in OpToRel(<, Nat)
      BY <2>1, Zenon DEF OpToRel
    <2> QED BY <1>1, <2>2, Zenon
  <1> QED BY <1>2

(* A bounded one has a greatest element.                                     *)
LEMMA GreatestNat ==
    ASSUME NEW n \in Nat, NEW T \in SUBSET (0..n), T # {}
    PROVE  \E k \in T : \A j \in T : k >= j
  <1> DEFINE U == {d \in Nat : n - d \in T}
  <1>1. U # {}
    <2>1. PICK t \in T : TRUE
      OBVIOUS
    <2>2. n - t \in Nat /\ n - (n - t) = t
      BY <2>1
    <2> QED BY <2>1, <2>2
  <1>2. PICK d \in U : \A e \in U : d <= e
    BY <1>1, LeastNat
  <1>3. ASSUME NEW j \in T PROVE n - d >= j
    <2>1. j \in Nat /\ j <= n
      OBVIOUS
    <2>2. n - j \in Nat /\ n - (n - j) = j
      BY <2>1
    <2>3. n - j \in U
      BY <2>2
    <2>4. d <= n - j /\ d \in Nat
      BY <1>2, <2>3
    <2> QED BY <2>1, <2>4
  <1> QED BY <1>2, <1>3

(* The library's Min and Max of two numbers.                                 *)
LEMMA MinOfTwo ==
    ASSUME NEW a \in Int, NEW b \in Int
    PROVE  Min({a, b}) = IF a <= b THEN a ELSE b
  BY DEF Min

LEMMA MaxOfTwo ==
    ASSUME NEW a \in Int, NEW b \in Int
    PROVE  Max({a, b}) = IF a <= b THEN b ELSE a
  BY DEF Max

(* The function by which At is defined exists.                               *)
Selects(s, S, f, n) ==
    f = [i \in 0..n |-> IF i = 0 THEN <<>> ELSE IF i \in S THEN Append(f[i - 1], s[i]) ELSE f[i - 1]]

LEMMA SelectsExists ==
    ASSUME NEW s, NEW S, NEW n \in Nat
    PROVE  \E f : Selects(s, S, f, n)
  <1> DEFINE Without == {j \in Nat : ~\E f : Selects(s, S, f, j)}
  <1> SUFFICES ASSUME Without # {} PROVE FALSE
    OBVIOUS
  <1>1. PICK j \in Without : \A i \in Without : j <= i
    BY LeastNat
  <1>2. j \in Nat /\ ~\E f : Selects(s, S, f, j)
    BY <1>1
  <1>3. CASE j = 0
    <2> DEFINE f == [i \in 0..0 |-> <<>>]
    <2>1. f = [i \in 0..0 |-> IF i = 0 THEN <<>> ELSE IF i \in S THEN Append(f[i - 1], s[i]) ELSE f[i - 1]]
      OBVIOUS
    <2> QED BY <1>2, <1>3, <2>1 DEF Selects
  <1>4. CASE j # 0
    <2>1. j - 1 \in Nat /\ j - 1 < j
      BY <1>2, <1>4
    <2>2. PICK g : Selects(s, S, g, j - 1)
      BY <1>1, <1>2, <2>1
    <2>3. \A i \in 0..j - 1 : g[i] = IF i = 0 THEN <<>> ELSE IF i \in S THEN Append(g[i - 1], s[i]) ELSE g[i - 1]
      BY <2>2, Zenon DEF Selects
    <2> DEFINE f == [i \in 0..j |-> IF i < j THEN g[i] ELSE IF j \in S THEN Append(g[j - 1], s[j]) ELSE g[j - 1]]
    <2>4. ASSUME NEW i \in 0..j
          PROVE  f[i] = IF i = 0 THEN <<>> ELSE IF i \in S THEN Append(f[i - 1], s[i]) ELSE f[i - 1]
      <3>1. i # 0 => i - 1 \in 0..j /\ i - 1 < j /\ f[i - 1] = g[i - 1]
        BY <1>2
      <3>2. CASE i < j
        <4>1. i \in 0..j - 1 /\ f[i] = g[i]
          BY <1>2, <3>2
        <4> HIDE DEF f
        <4> QED BY <2>3, <3>1, <4>1
      <3>3. CASE i = j
        <4>1. f[i] = IF j \in S THEN Append(g[j - 1], s[j]) ELSE g[j - 1]
          BY <1>2, <3>3
        <4> HIDE DEF f
        <4> QED BY <1>4, <3>1, <3>3, <4>1
      <3> QED BY <1>2, <3>2, <3>3
    <2>5. f = [i \in 0..j |-> IF i = 0 THEN <<>> ELSE IF i \in S THEN Append(f[i - 1], s[i]) ELSE f[i - 1]]
      BY <2>4
    <2> QED BY <1>2, <2>5 DEF Selects
  <1> QED BY <1>3, <1>4

(* What At selects.                                                          *)
LEMMA AtFacts ==
    ASSUME NEW X, NEW s \in Seq(X), NEW S
    PROVE  At(s, S) \in Seq(X) /\ Range(At(s, S)) = {s[i] : i \in S \cap DOMAIN s}
  <1> DEFINE n == Len(s)
             f == CHOOSE g : Selects(s, S, g, n)
             Good(m) == /\ f[m] \in Seq(X)
                        /\ \A i \in 1..m : i \in S => \E k \in 1..Len(f[m]) : f[m][k] = s[i]
                        /\ \A k \in 1..Len(f[m]) : \E i \in 1..m : i \in S /\ f[m][k] = s[i]
  <1>0. n \in Nat /\ DOMAIN s = 1..n /\ \A i \in 1..n : s[i] \in X
    OBVIOUS
  <1>1. At(s, S) = f[n]
    BY DEF At, Selects
  <1>2. Selects(s, S, f, n)
    BY <1>0, SelectsExists
  <1> HIDE DEF f, n
  <1>3. \A i \in 0..n : f[i] = IF i = 0 THEN <<>> ELSE IF i \in S THEN Append(f[i - 1], s[i]) ELSE f[i - 1]
    BY <1>2, Zenon DEF Selects
  <1>4. ASSUME NEW m \in 0..n PROVE Good(m)
    <2> DEFINE Bad == {j \in 0..n : ~Good(j)}
    <2> SUFFICES ASSUME Bad # {} PROVE FALSE
      OBVIOUS
    <2>1. PICK j \in Bad : \A i \in Bad : j <= i
      <3>1. Bad \in SUBSET Nat
        BY <1>0
      <3> HIDE DEF Bad
      <3> QED BY <3>1, LeastNat
    <2>2. j \in 0..n /\ j \in Nat /\ ~Good(j)
      BY <1>0, <2>1
    <2>3. CASE j = 0
      <3>1. f[0] = <<>>
        BY <1>0, <1>3, <2>2, <2>3
      <3>2. Good(0)
        BY <3>1
      <3> QED BY <2>2, <2>3, <3>2
    <2>4. CASE j # 0
      <3>1. j - 1 \in 0..n /\ j - 1 \in Nat /\ j - 1 < j
        BY <1>0, <2>2, <2>4
      <3>2. Good(j - 1)
        <4> HIDE DEF Good
        <4> QED BY <2>1, <2>2, <3>1
      <3>3. f[j] = IF j \in S THEN Append(f[j - 1], s[j]) ELSE f[j - 1]
        BY <1>3, <2>2, <2>4
      <3>4. s[j] \in X
        BY <1>0, <2>2, <2>4
      <3>5. \A i \in 1..j : i = j \/ i \in 1..j - 1
        BY <2>2
      <3>6. \A i \in 1..j - 1 : i \in 1..j
        BY <2>2
      <3> DEFINE a == f[j - 1]
      <3>7. CASE j \notin S
        <4>1. f[j] = a
          BY <3>3, <3>7
        <4> QED BY <2>2, <3>2, <3>5, <3>6, <3>7, <4>1
      <3>8. CASE j \in S
        <4> HIDE DEF a
        <4>0. a \in Seq(X) /\ f[j] = Append(a, s[j])
          BY <3>2, <3>3, <3>8 DEF a
        <4>1. /\ f[j] \in Seq(X) /\ Len(a) \in Nat /\ Len(f[j]) = Len(a) + 1
              /\ \A k \in 1..Len(a) : f[j][k] = a[k]
              /\ f[j][Len(a) + 1] = s[j]
          BY <3>4, <4>0
        <4>2. \A k \in 1..Len(f[j]) : k \in 1..Len(a) \/ k = Len(a) + 1
          BY <4>1
        <4>2a. /\ \A k \in 1..Len(a) : k \in 1..Len(f[j])
               /\ Len(a) + 1 \in 1..Len(f[j])
          BY <4>1
        <4>3. \A i \in 1..j : i \in S => \E k \in 1..Len(f[j]) : f[j][k] = s[i]
          BY <3>2, <3>5, <4>1, <4>2a DEF a
        <4>4. \A k \in 1..Len(f[j]) : \E i \in 1..j : i \in S /\ f[j][k] = s[i]
          <5> SUFFICES ASSUME NEW k \in 1..Len(f[j]) PROVE \E i \in 1..j : i \in S /\ f[j][k] = s[i]
            OBVIOUS
          <5>1. CASE k \in 1..Len(a)
            <6>1. PICK i \in 1..j - 1 : i \in S /\ a[k] = s[i]
              BY <3>2, <5>1 DEF a
            <6> QED BY <3>6, <4>1, <5>1, <6>1
          <5>2. CASE k = Len(a) + 1
            <6>1. j \in 1..j
              BY <2>2, <2>4
            <6> QED BY <3>8, <4>1, <5>2, <6>1
          <5> QED BY <4>2, <5>1, <5>2
        <4> QED BY <2>2, <4>1, <4>3, <4>4
      <3> QED BY <3>7, <3>8
    <2> QED BY <2>3, <2>4
  <1>5. n \in 0..n
    BY <1>0
  <1>6. Good(n)
    <2> HIDE DEF Good
    <2> QED BY <1>4, <1>5
  <1> DEFINE t == At(s, S)
  <1>7. /\ t \in Seq(X)
        /\ \A i \in 1..n : i \in S => \E k \in 1..Len(t) : t[k] = s[i]
        /\ \A k \in 1..Len(t) : \E i \in 1..n : i \in S /\ t[k] = s[i]
    BY <1>1, <1>6
  <1> HIDE DEF t, Good
  <1>8. DOMAIN t = 1..Len(t)
    BY <1>7
  <1>9. Range(t) = {s[i] : i \in S \cap DOMAIN s}
    <2>1. ASSUME NEW x \in Range(t) PROVE x \in {s[i] : i \in S \cap DOMAIN s}
      <3>1. PICK k \in 1..Len(t) : x = t[k]
        BY <1>8 DEF Range
      <3> QED BY <1>0, <1>7, <3>1
    <2>2. ASSUME NEW x \in {s[i] : i \in S \cap DOMAIN s} PROVE x \in Range(t)
      <3>1. PICK i \in S \cap DOMAIN s : x = s[i]
        OBVIOUS
      <3>2. PICK k \in 1..Len(t) : t[k] = s[i]
        BY <1>0, <1>7, <3>1
      <3> QED BY <1>8, <3>1, <3>2 DEF Range
    <2> QED BY <2>1, <2>2
  <1> QED BY <1>7, <1>9 DEF t

(* The elements of sequences that are built from others.                     *)
LEMMA ConcatRange ==
    ASSUME NEW X, NEW s \in Seq(X), NEW t \in Seq(X)
    PROVE  s \o t \in Seq(X) /\ Range(s \o t) = Range(s) \cup Range(t)
  <1>1. /\ s \o t \in Seq(X) /\ DOMAIN (s \o t) = 1..(Len(s) + Len(t))
        /\ DOMAIN s = 1..Len(s) /\ DOMAIN t = 1..Len(t) /\ Len(s) \in Nat /\ Len(t) \in Nat
    OBVIOUS
  <1>2. /\ \A i \in 1..Len(s) : i \in 1..(Len(s) + Len(t)) /\ (s \o t)[i] = s[i]
        /\ \A i \in 1..Len(t) : Len(s) + i \in 1..(Len(s) + Len(t)) /\ (s \o t)[Len(s) + i] = t[i]
    BY <1>1
  <1>3. ASSUME NEW i \in 1..(Len(s) + Len(t)), i \notin 1..Len(s)
        PROVE  i - Len(s) \in 1..Len(t) /\ (s \o t)[i] = t[i - Len(s)]
    <2>1. i - Len(s) \in 1..Len(t) /\ Len(s) + (i - Len(s)) = i
      BY <1>1, <1>3
    <2> QED BY <1>2, <2>1
  <1>4. ASSUME NEW x \in Range(s \o t) PROVE x \in Range(s) \cup Range(t)
    BY <1>1, <1>2, <1>3 DEF Range
  <1>5. ASSUME NEW x \in Range(s) \cup Range(t) PROVE x \in Range(s \o t)
    BY <1>1, <1>2 DEF Range
  <1> QED BY <1>1, <1>4, <1>5

(* Head and Tail.                                                            *)
LEMMA TailRange ==
    ASSUME NEW X, NEW s \in Seq(X), s # <<>>
    PROVE  /\ Tail(s) \in Seq(X) /\ Head(s) \in X /\ Head(s) \in Range(s)
           /\ Range(Tail(s)) \subseteq Range(s) /\ Range(s) = {Head(s)} \cup Range(Tail(s))
  <1>1. /\ Len(s) \in Nat /\ Len(s) # 0 /\ DOMAIN s = 1..Len(s) /\ Tail(s) \in Seq(X)
        /\ Head(s) = s[1] /\ DOMAIN Tail(s) = 1..(Len(s) - 1) /\ Head(s) \in X
    OBVIOUS
  <1>2. \A i \in 1..(Len(s) - 1) : Tail(s)[i] = s[i + 1] /\ i + 1 \in 1..Len(s)
    BY <1>1
  <1>3. \A i \in 1..Len(s) : i # 1 => i - 1 \in 1..(Len(s) - 1) /\ (i - 1) + 1 = i
    BY <1>1
  <1>4. \A i \in 1..Len(s) : i # 1 => i - 1 \in 1..(Len(s) - 1) /\ Tail(s)[i - 1] = s[i]
    BY <1>2, <1>3
  <1>5. 1 \in 1..Len(s)
    BY <1>1
  <1>6. ASSUME NEW x \in Range(Tail(s)) PROVE x \in Range(s)
    BY <1>1, <1>2 DEF Range
  <1>7. ASSUME NEW x \in Range(s) PROVE x = Head(s) \/ x \in Range(Tail(s))
    BY <1>1, <1>4 DEF Range
  <1>8. Head(s) \in Range(s)
    BY <1>1, <1>5 DEF Range
  <1> QED BY <1>1, <1>6, <1>7, <1>8

(* The elements of a sequence.                                               *)
LEMMA SeqRange ==
    ASSUME NEW X, NEW s \in Seq(X)
    PROVE  /\ Range(s) \subseteq X /\ DOMAIN s = 1..Len(s) /\ Len(s) \in Nat
           /\ Range(s) = {} <=> s = <<>>
           /\ \A i \in DOMAIN s : s[i] \in Range(s) /\ s[i] \in X
  <1>1. DOMAIN s = 1..Len(s) /\ Len(s) \in Nat /\ \A i \in DOMAIN s : s[i] \in X
    OBVIOUS
  <1>2. s = <<>> <=> DOMAIN s = {}
    OBVIOUS
  <1> QED BY <1>1, <1>2 DEF Range

LEMMA SingleRange ==
    ASSUME NEW X, NEW x \in X
    PROVE  <<x>> \in Seq(X) /\ Range(<<x>>) = {x}
  <1>1. <<x>> \in Seq(X) /\ DOMAIN <<x>> = {1} /\ <<x>>[1] = x
    OBVIOUS
  <1> QED BY <1>1 DEF Range

LEMMA MapSeq ==
    ASSUME NEW X, NEW n \in Nat, NEW f \in [1..n -> X]
    PROVE  f \in Seq(X) /\ Len(f) = n
  OBVIOUS

LEMMA SubSeqRange ==
    ASSUME NEW X, NEW s \in Seq(X), NEW a \in Nat, NEW b \in Nat, 1 <= a, b <= Len(s)
    PROVE  SubSeq(s, a, b) \in Seq(X) /\ Range(SubSeq(s, a, b)) = {s[i] : i \in a..b}
  <1>1. CASE a > b
    <2>1. SubSeq(s, a, b) = <<>> /\ a..b = {} /\ <<>> \in Seq(X)
      BY <1>1
    <2>2. Range(<<>>) = {}
      BY <2>1, SeqRange
    <2> QED BY <2>1, <2>2
  <1>2. CASE a <= b
    <2>1. /\ SubSeq(s, a, b) \in Seq(X) /\ Len(SubSeq(s, a, b)) = b - a + 1
          /\ \A i \in 1..(b - a + 1) : SubSeq(s, a, b)[i] = s[a + i - 1]
      BY <1>2
    <2>2. DOMAIN SubSeq(s, a, b) = 1..(b - a + 1)
      BY <2>1
    <2>3. ASSUME NEW x \in Range(SubSeq(s, a, b)) PROVE x \in {s[i] : i \in a..b}
      <3>1. PICK i \in 1..(b - a + 1) : x = SubSeq(s, a, b)[i]
        BY <2>2 DEF Range
      <3>2. x = s[a + i - 1] /\ a + i - 1 \in a..b
        BY <2>1, <3>1
      <3> QED BY <3>2
    <2>4. ASSUME NEW x \in {s[i] : i \in a..b} PROVE x \in Range(SubSeq(s, a, b))
      <3>1. PICK i \in a..b : x = s[i]
        OBVIOUS
      <3>2. i - a + 1 \in 1..(b - a + 1) /\ a + (i - a + 1) - 1 = i
        OBVIOUS
      <3>3. SubSeq(s, a, b)[i - a + 1] = s[a + (i - a + 1) - 1]
        BY <2>1, <3>2
      <3> QED BY <2>2, <3>1, <3>2, <3>3 DEF Range
    <2> QED BY <2>1, <2>3, <2>4
  <1> QED BY <1>1, <1>2

(* mruset keeps no more than KnownSize of what it was given.                 *)
LEMMA RememberedFacts ==
    ASSUME NEW X, NEW s \in Seq(X)
    PROVE  /\ Remembered(s) \in Seq(X) /\ Len(Remembered(s)) <= KnownSize
           /\ Range(Remembered(s)) \subseteq Range(s)
  <1> DEFINE a == Max({1, Len(s) - KnownSize + 1})
  <1>1. Len(s) \in Nat /\ DOMAIN s = 1..Len(s) /\ KnownSize \in Nat
    BY DownloadAssumption
  <1>2. a \in Nat /\ a >= 1 /\ a >= Len(s) - KnownSize + 1
    <2>1. 1 \in Int /\ Len(s) - KnownSize + 1 \in Int
      BY <1>1
    <2>2. a = IF 1 <= Len(s) - KnownSize + 1 THEN Len(s) - KnownSize + 1 ELSE 1
      BY <2>1, MaxOfTwo
    <2> QED BY <1>1, <2>2
  <1>3. Remembered(s) = SubSeq(s, a, Len(s))
    BY DEF Remembered
  <1> HIDE DEF a
  <1>4. SubSeq(s, a, Len(s)) \in Seq(X) /\ Range(SubSeq(s, a, Len(s))) = {s[i] : i \in a..Len(s)}
    BY <1>1, <1>2, SubSeqRange
  <1>5. {s[i] : i \in a..Len(s)} \subseteq Range(s)
    BY <1>1, <1>2 DEF Range
  <1>6. Len(SubSeq(s, a, Len(s))) <= KnownSize
    BY <1>1, <1>2
  <1> QED BY <1>3, <1>4, <1>5, <1>6

LEMMA DivFacts ==
    ASSUME NEW a \in Nat, NEW b \in Nat \ {0}
    PROVE  a \div b \in Nat /\ (a \div b) * b <= a /\ a < (a \div b) * b + b
  OBVIOUS

(* Splitting a sequence loses nothing.                                       *)
LEMMA SplitFacts ==
    ASSUME NEW X, NEW s \in Seq(X)
    PROVE  /\ Split(s) \in Seq(Seq(X))
           /\ \A h \in Range(s) : \E p \in Range(Split(s)) : h \in Range(p)
  <1> DEFINE n == Len(s)
             m == (n + InvSize - 1) \div InvSize
             end(k) == IF k * InvSize <= n THEN k * InvSize ELSE n
             part(k) == SubSeq(s, (k - 1) * InvSize + 1, end(k))
  <1>1. InvSize \in Nat \ {0} /\ n \in Nat /\ DOMAIN s = 1..n
    BY DownloadAssumption
  <1>2. m \in Nat /\ m * InvSize <= n + InvSize - 1 /\ n + InvSize - 1 < m * InvSize + InvSize
    <2>1. n + InvSize - 1 \in Nat
      BY <1>1
    <2> QED BY <1>1, <2>1, DivFacts
  <1>3. Split(s) = [k \in 1..m |-> part(k)]
    <2>1. \A k \in 1..m : Min({k * InvSize, n}) = end(k)
      <3> SUFFICES ASSUME NEW k \in 1..m PROVE Min({k * InvSize, n}) = end(k)
        OBVIOUS
      <3>1. k * InvSize \in Int /\ n \in Int
        BY <1>1, <1>2
      <3> QED BY <3>1, MinOfTwo
    <2> QED BY <2>1 DEF Split
  <1>4. ASSUME NEW k \in 1..m
        PROVE  part(k) \in Seq(X) /\ Range(part(k)) = {s[i] : i \in ((k - 1) * InvSize + 1)..end(k)}
    <2>1. (k - 1) * InvSize + 1 \in Nat /\ 1 <= (k - 1) * InvSize + 1
      BY <1>1, <1>2
    <2>2. end(k) \in Nat /\ end(k) <= Len(s)
      BY <1>1, <1>2
    <2> QED BY <2>1, <2>2, SubSeqRange
  <1> HIDE DEF m, part
  <1>5. Split(s) \in Seq(Seq(X))
    BY <1>2, <1>3, <1>4
  <1>6. ASSUME NEW h \in Range(s) PROVE \E p \in Range(Split(s)) : h \in Range(p)
    <2>1. PICK i \in 1..n : h = s[i]
      BY <1>1 DEF Range
    <2> DEFINE k == (i - 1) \div InvSize + 1
    <2>2. i - 1 \in Nat
      BY <1>1
    <2>3. /\ (i - 1) \div InvSize \in Nat
          /\ ((i - 1) \div InvSize) * InvSize <= i - 1 /\ i - 1 < ((i - 1) \div InvSize) * InvSize + InvSize
      BY <1>1, <2>2, DivFacts
    <2>4. k \in Nat /\ k >= 1 /\ (k - 1) * InvSize <= i - 1 /\ i - 1 < (k - 1) * InvSize + InvSize
      BY <2>3
    <2> HIDE DEF k
    <2>5. (k - 1) * InvSize + InvSize = k * InvSize
      BY <1>1, <2>4
    <2>6. k <= m
      <3>1. (k - 1) * InvSize + InvSize < m * InvSize + InvSize
        BY <1>1, <1>2, <2>4
      <3>2. (k - 1) * InvSize < m * InvSize
        BY <1>1, <1>2, <2>4, <3>1
      <3>3. k - 1 < m
        BY <1>1, <1>2, <2>4, <3>2
      <3> QED BY <1>2, <2>4, <3>3
    <2>7. k \in 1..m /\ i \in ((k - 1) * InvSize + 1)..end(k)
      BY <1>1, <1>2, <2>1, <2>4, <2>5, <2>6
    <2>8. h \in Range(part(k))
      BY <1>4, <2>1, <2>7
    <2>9. part(k) \in Range(Split(s))
      BY <1>3, <2>7 DEF Range
    <2> QED BY <2>8, <2>9
  <1> QED BY <1>5, <1>6

(* The block before the root of an orphan's chain is missing.                *)
LEMMA RootFacts ==
    ASSUME NEW os \in SUBSET Nat, NEW h \in os, 0 \notin os
    PROVE  GetOrphanRoot(os, h) \in os /\ GetOrphanRoot(os, h) - 1 \notin os
  <1> DEFINE T == {r \in os : r <= h /\ r..h \subseteq os}
  <1>1. h \in T
    OBVIOUS
  <1>2. PICK r \in T : \A j \in T : r <= j
    BY <1>1, LeastNat
  <1>3. r - 1 \notin os
    <2> SUFFICES ASSUME r - 1 \in os PROVE FALSE
      OBVIOUS
    <2>1. r - 1 \in Nat /\ r - 1 <= h
      BY <1>2
    <2>2. \A x \in (r - 1)..h : x = r - 1 \/ x \in r..h
      BY <1>2
    <2>3. r - 1 \in T
      BY <1>2, <2>1, <2>2
    <2> QED BY <1>2, <2>1, <2>3
  <1>4. \E q \in os : q..h \subseteq os /\ q - 1 \notin os
    BY <1>2, <1>3
  <1> QED BY <1>4 DEF GetOrphanRoot

-----------------------------------------------------------------------------
(* The invariant.                                                            *)

(* A getblocks: where it starts and where it stops.                          *)
Requests == (0..tip \cup {OwnBranch}) \X (0..tip)

(* What the messages are made of.                                            *)
LEMMA MessageFacts ==
    /\ \A s \in Seq(1..tip) : Inv(s) \in MessagesToL /\ GetData(s) \in MessagesToP
    /\ \A h \in 1..tip : Block(h) \in MessagesToL
    /\ \A r \in Requests : GetBlocks(r[1], r[2]) \in MessagesToP
    /\ \A m \in MessagesToL : /\ m.type \in {"inv", "block"}
                              /\ m.type = "inv" => m.blocks \in Seq(1..tip)
                              /\ m.type = "block" => m.height \in 1..tip
    /\ \A m \in MessagesToP : /\ m.type \in {"getblocks", "getdata"}
                              /\ m.type = "getdata" => m.blocks \in Seq(1..tip)
                              /\ m.type = "getblocks" => /\ <<m.begin, m.stop>> \in Requests
                                                         /\ m = GetBlocks(m.begin, m.stop)
  <1>1. \A s \in Seq(1..tip) : Inv(s) \in MessagesToL /\ GetData(s) \in MessagesToP
    BY DEF Inv, GetData, MessagesToL, MessagesToP
  <1>2. \A h \in 1..tip : Block(h) \in MessagesToL
    BY DEF Block, MessagesToL
  <1>3. \A r \in Requests : GetBlocks(r[1], r[2]) \in MessagesToP
    BY DEF Requests, GetBlocks, MessagesToP
  <1>4. ASSUME NEW m \in MessagesToL
        PROVE  /\ m.type \in {"inv", "block"}
               /\ m.type = "inv" => m.blocks \in Seq(1..tip)
               /\ m.type = "block" => m.height \in 1..tip
    BY DEF MessagesToL
  <1>5. ASSUME NEW m \in MessagesToP
        PROVE  /\ m.type \in {"getblocks", "getdata"}
               /\ m.type = "getdata" => m.blocks \in Seq(1..tip)
               /\ m.type = "getblocks" => /\ <<m.begin, m.stop>> \in Requests
                                          /\ m = GetBlocks(m.begin, m.stop)
    BY DEF MessagesToP, Requests, GetBlocks
  <1> QED BY <1>1, <1>2, <1>3, <1>4, <1>5

(* The blocks that a message is about.                                       *)
LEMMA ConcernsFacts ==
    ASSUME NEW h
    PROVE  /\ \A s : /\ Concerns(Inv(s), h) <=> h \in Range(s)
                     /\ Concerns(GetData(s), h) <=> h \in Range(s)
           /\ \A k : Concerns(Block(k), h) <=> h = k
           /\ \A b, e : ~Concerns(GetBlocks(b, e), h)
  BY DEF Concerns, Inv, GetData, Block, GetBlocks

(* L has block h, or will get it without anyone asking for it again; and the *)
(* same if P has still to announce it.                                       *)
HadOrAnnounced(h) == AlreadyHave(h) \/ Announced(h)

Secured(h) == AlreadyHave(h) \/ UnderWay(h)

(* Block h is in the answer to getblocks r.                                  *)
Covers(r, h) ==
    LET b == Located(r[1])
    IN b < h /\ h <= b + Limit /\ h <= tip /\ (r[2] <= b \/ h < r[2])

(* Getblocks r is on its way, or all blocks of its answer are secured.       *)
Sent(r) == GetBlocks(r[1], r[2]) \in Range(toP)

Answered(r) == Sent(r) \/ \A h \in 1..tip : Covers(r, h) => Secured(h)

(* The block after L's last one is never an orphan.                          *)
OrphanPart == \A o \in orphans : o > have + 1

(* The getblocks that the connection began with.                             *)
FirstPart == \E r \in Requests : Located(r[1]) = from /\ r[2] = NoStop /\ Answered(r)

(* L has the block that it missed when P had a new one, asks for it, or gets *)
(* a later block that will make it ask.                                      *)
GoalPart ==
    \/ goal <= have
    \/ \E r \in Requests : Sent(r) /\ Covers(r, goal)
    \/ \E n \in goal..tip : ~AlreadyHave(n) /\ UnderWay(n)

(* KnownComes is needed where PushInventory and SendMessages leave a block   *)
(* out, Answered(last) where PushGetBlocks drops a request.                  *)
DownloadInv ==
    /\ DownloadTypeOK /\ own < meet + Limit
    /\ OrphanPart /\ KnownComes /\ FirstPart /\ Answered(last) /\ GoalPart

(* The numbers and the sequences of a state that is of the right type.       *)
LEMMA NumFacts ==
    ASSUME DownloadTypeOK
    PROVE  /\ tip \in Nat /\ 1 <= tip /\ tip <= MaxHeight /\ MaxHeight \in Nat
           /\ have \in Nat /\ have <= tip
           /\ orphans \subseteq 1..tip /\ own \in Nat /\ fork \in Nat
           /\ meet \in Nat /\ meet <= have /\ from \in Nat /\ from <= have
           /\ goal \in Nat /\ goal <= have + 1
           /\ Limit \in Nat \ {0} /\ KnownSize \in Nat \ {0} /\ InvSize \in Nat \ {0}
  BY DownloadAssumption DEF DownloadTypeOK, Heights

LEMMA TypeFacts ==
    ASSUME DownloadTypeOK
    PROVE  /\ known \in Seq(1..tip) /\ toSend \in Seq(1..tip)
           /\ askFor \in Seq([block : 1..tip, again : BOOLEAN])
           /\ toL \in Seq(MessagesToL) /\ toP \in Seq(MessagesToP) /\ last \in Requests
  BY DEF DownloadTypeOK, Requests

(* PushGetBlocks sends each request, unless it is the last one of before.    *)
LEMMA PushFacts ==
    ASSUME DownloadTypeOK, NEW requests \in Seq(Requests), PushGetBlocks(requests)
    PROVE  /\ last' \in Requests /\ toP' \in Seq(MessagesToP) /\ Range(toP) \subseteq Range(toP')
           /\ \A r \in Range(requests) \cup {last'} : r = last \/ GetBlocks(r[1], r[2]) \in Range(toP')
  <1> DEFINE all == <<last>> \o requests
             S == {i \in DOMAIN requests : requests[i] # all[i]}
             sent == At(requests, S)
             new == [k \in DOMAIN sent |-> GetBlocks(sent[k][1], sent[k][2])]
             n == Len(requests)
  <1>1. last' = all[Len(all)] /\ toP' = toP \o new
    BY DEF PushGetBlocks
  <1>2. last \in Requests /\ toP \in Seq(MessagesToP)
    BY TypeFacts
  <1>3. /\ all \in Seq(Requests) /\ n \in Nat /\ Len(all) = n + 1 /\ all[1] = last
        /\ DOMAIN requests = 1..n
    BY <1>2
  <1>4. \A i \in 1..n : all[i + 1] = requests[i]
    BY <1>2
  <1>5. sent \in Seq(Requests) /\ Range(sent) = {requests[i] : i \in S \cap DOMAIN requests}
    BY AtFacts
  <1> HIDE DEF all, n, S, sent
  <1>6. /\ DOMAIN sent = 1..Len(sent) /\ Len(sent) \in Nat
        /\ \A k \in DOMAIN sent : sent[k] \in Range(sent) /\ sent[k] \in Requests
    BY <1>5, SeqRange
  <1>7. new \in Seq(MessagesToP)
    BY <1>6, MessageFacts
  <1>8. \A r \in Range(sent) : GetBlocks(r[1], r[2]) \in Range(new)
    BY DEF Range
  <1> HIDE DEF new
  <1>9. toP' \in Seq(MessagesToP) /\ Range(toP') = Range(toP) \cup Range(new)
    BY <1>1, <1>2, <1>7, ConcatRange
  <1>10. ASSUME NEW r \in Range(requests), r # last PROVE r \in Range(sent)
    <2> DEFINE T == {j \in 1..n : requests[j] = r}
    <2>1. T # {} /\ T \in SUBSET Nat
      BY <1>3 DEF Range
    <2>2. PICK j \in T : \A k \in T : j <= k
      BY <2>1, LeastNat
    <2>3. j \in 1..n /\ requests[j] = r
      BY <2>2
    <2>4. all[j] # r
      <3>1. CASE j = 1
        BY <1>3, <1>10, <3>1
      <3>2. CASE j # 1
        <4>1. j - 1 \in 1..n /\ ~(j <= j - 1) /\ (j - 1) + 1 = j
          BY <1>3, <2>3, <3>2
        <4>2. requests[j - 1] # r
          BY <2>2, <4>1
        <4>3. all[(j - 1) + 1] = requests[j - 1]
          BY <1>4, <4>1
        <4> QED BY <4>1, <4>2, <4>3
      <3> QED BY <3>1, <3>2
    <2>5. j \in S
      BY <1>3, <2>3, <2>4 DEF S
    <2> QED BY <1>3, <1>5, <2>3, <2>5
  <1>11. last' \in Requests /\ (last' = last \/ last' \in Range(requests))
    <2>1. CASE n = 0
      BY <1>1, <1>2, <1>3, <2>1
    <2>2. CASE n # 0
      <3>1. n \in 1..n
        BY <1>3, <2>2
      <3>2. last' = requests[n]
        BY <1>1, <1>3, <1>4, <3>1
      <3> QED BY <1>3, <3>1, <3>2 DEF Range
    <2> QED BY <2>1, <2>2
  <1> QED BY <1>8, <1>9, <1>10, <1>11

-----------------------------------------------------------------------------
(* The steps.                                                                *)

AskTypes == [block : 1..tip, again : BOOLEAN]

(* AskFor puts each block in mapAskFor.                                      *)
LEMMA AskForFacts ==
    ASSUME DownloadTypeOK, NEW s \in Seq(1..tip), AskFor(s)
    PROVE  /\ askFor' \in Seq(AskTypes) /\ asked' \subseteq 1..tip
           /\ Range(askFor) \subseteq Range(askFor')
           /\ \A h \in Range(s) : \E a \in Range(askFor') : a.block = h
  <1> DEFINE new == [k \in DOMAIN s |->
                        [block |-> s[k], again |-> s[k] \in asked \/ \E j \in 1..k - 1 : s[j] = s[k]]]
  <1>1. askFor' = askFor \o new /\ asked' = asked \cup Range(s)
    BY DEF AskFor
  <1>2. askFor \in Seq(AskTypes) /\ asked \subseteq 1..tip
    BY DEF DownloadTypeOK, AskTypes
  <1>3. /\ Range(s) \subseteq 1..tip /\ DOMAIN s = 1..Len(s) /\ Len(s) \in Nat
        /\ \A k \in DOMAIN s : s[k] \in 1..tip
    BY SeqRange
  <1>4. new \in Seq(AskTypes)
    <2>1. \A k \in 1..Len(s) : new[k] \in AskTypes
      BY <1>3 DEF AskTypes
    <2>2. new \in [1..Len(s) -> AskTypes]
      BY <1>3, <2>1
    <2> QED BY <1>3, <2>2, MapSeq
  <1>5. \A h \in Range(s) : \E a \in Range(new) : a.block = h
    <2> SUFFICES ASSUME NEW h \in Range(s) PROVE \E a \in Range(new) : a.block = h
      OBVIOUS
    <2>1. PICK k \in DOMAIN s : h = s[k]
      BY DEF Range
    <2>2. new[k] \in Range(new) /\ new[k].block = h
      BY <2>1 DEF Range
    <2> QED BY <2>2
  <1> HIDE DEF new
  <1>6. askFor' \in Seq(AskTypes) /\ Range(askFor') = Range(askFor) \cup Range(new)
    BY <1>1, <1>2, <1>4, ConcatRange
  <1> QED BY <1>1, <1>2, <1>3, <1>5, <1>6

(* Where a getblocks starts.                                                 *)
LEMMA BestFacts ==
    ASSUME DownloadTypeOK, own < meet + Limit
    PROVE  /\ BestOf(have) \in 0..tip \cup {OwnBranch}
           /\ Located(BestOf(have)) \in Nat
           /\ Located(BestOf(have)) <= have /\ have < Located(BestOf(have)) + Limit
  BY NumFacts DEF BestOf, Located, OwnBranch

(* RootFacts for orphans of the right type.                                  *)
LEMMA OrphanRoot ==
    ASSUME DownloadTypeOK, NEW os \in SUBSET (1..tip), NEW h \in os
    PROVE  /\ GetOrphanRoot(os, h) \in os /\ GetOrphanRoot(os, h) \in 1..tip
           /\ GetOrphanRoot(os, h) - 1 \notin os
  <1>1. os \in SUBSET Nat /\ 0 \notin os
    BY NumFacts
  <1> QED BY <1>1, RootFacts

(* A message that was at the head of toL, and the others.                    *)
LEMMA HeadOfL ==
    ASSUME DownloadTypeOK, toL # <<>>
    PROVE  /\ Tail(toL) \in Seq(MessagesToL) /\ Head(toL) \in MessagesToL
           /\ Range(toL) = {Head(toL)} \cup Range(Tail(toL))
           /\ Head(toL).type = "inv" => Head(toL).blocks \in Seq(1..tip)
           /\ Head(toL).type = "block" => Head(toL).height \in 1..tip
           /\ \A h : /\ Head(toL).type = "inv" =>
                           (Concerns(Head(toL), h) <=> h \in Range(Head(toL).blocks))
                     /\ Head(toL).type = "block" => (Concerns(Head(toL), h) <=> h = Head(toL).height)
  <1>1. toL \in Seq(MessagesToL)
    BY TypeFacts
  <1>2. /\ Tail(toL) \in Seq(MessagesToL) /\ Head(toL) \in MessagesToL
        /\ Range(toL) = {Head(toL)} \cup Range(Tail(toL))
    BY <1>1, TailRange
  <1> QED BY <1>2, MessageFacts DEF Concerns

(* The same for toP.                                                         *)
LEMMA HeadOfP ==
    ASSUME DownloadTypeOK, toP # <<>>
    PROVE  /\ Tail(toP) \in Seq(MessagesToP) /\ Head(toP) \in MessagesToP
           /\ Range(toP) = {Head(toP)} \cup Range(Tail(toP))
           /\ Head(toP).type = "getdata" => Head(toP).blocks \in Seq(1..tip)
           /\ Head(toP).type = "getblocks" =>
                 /\ <<Head(toP).begin, Head(toP).stop>> \in Requests
                 /\ Head(toP) = GetBlocks(Head(toP).begin, Head(toP).stop)
           /\ \A h : /\ Head(toP).type = "getdata" =>
                           (Concerns(Head(toP), h) <=> h \in Range(Head(toP).blocks))
                     /\ Head(toP).type = "getblocks" => ~Concerns(Head(toP), h)
  <1>1. toP \in Seq(MessagesToP)
    BY TypeFacts
  <1>2. /\ Tail(toP) \in Seq(MessagesToP) /\ Head(toP) \in MessagesToP
        /\ Range(toP) = {Head(toP)} \cup Range(Tail(toP))
    BY <1>1, TailRange
  <1> QED BY <1>2, MessageFacts DEF Concerns

(* No block that L has or was told of is lost.                               *)
Keeps == \A h \in Nat : HadOrAnnounced(h) => HadOrAnnounced(h)'

(* An inv: what L lacks is asked for.                                        *)
LEMMA InvStep ==
    ASSUME DownloadTypeOK, own < meet + Limit, ReceiveInv
    PROVE  DownloadTypeOK' /\ Keeps /\ Range(toP) \subseteq Range(toP')
           /\ (last' = last \/ Sent(last)')
  <1> DEFINE s == Head(toL).blocks
             calls == {i \in DOMAIN s : s[i] \in orphans \/ (s[i] <= have /\ i = Len(s))}
             requests == [i \in DOMAIN s |->
                            IF s[i] \in orphans
                            THEN <<BestOf(have), GetOrphanRoot(orphans, s[i])>> ELSE <<s[i], NoStop>>]
             A == {i \in DOMAIN s : ~AlreadyHave(s[i])}
             new == At(s, A)
  <1>1. /\ toL # <<>> /\ Head(toL).type = "inv" /\ toL' = Tail(toL)
        /\ AskFor(new) /\ PushGetBlocks(At(requests, calls))
        /\ UNCHANGED <<serverVars, have, orphans, fork, own, meet, connection>>
    BY DEF ReceiveInv
  <1>2. s \in Seq(1..tip)
    BY <1>1, HeadOfL
  <1>3. new \in Seq(1..tip) /\ Range(new) = {s[i] : i \in A \cap DOMAIN s}
    BY <1>2, AtFacts
  <1>4. DOMAIN s = 1..Len(s) /\ Len(s) \in Nat /\ \A i \in DOMAIN s : s[i] \in 1..tip
    BY <1>2, SeqRange
  <1>5. requests \in Seq(Requests)
    <2>1. ASSUME NEW i \in 1..Len(s) PROVE requests[i] \in Requests
      <3>1. s[i] \in 1..tip /\ 1..tip \subseteq 0..tip /\ 0 \in 0..tip /\ orphans \in SUBSET (1..tip)
        <4>1. s[i] \in 1..tip
          BY <1>4
        <4>2. 1..tip \subseteq 0..tip /\ 0 \in 0..tip /\ orphans \in SUBSET (1..tip)
          BY NumFacts
        <4> QED BY <4>1, <4>2
      <3>2. CASE s[i] \in orphans
        <4>1. GetOrphanRoot(orphans, s[i]) \in 1..tip
          BY <3>1, <3>2, OrphanRoot
        <4>2. requests[i] = <<BestOf(have), GetOrphanRoot(orphans, s[i])>>
          BY <1>4, <3>2
        <4>3. BestOf(have) \in 0..tip \cup {OwnBranch}
          BY BestFacts
        <4> HIDE DEF requests, s
        <4> QED BY <3>1, <4>1, <4>2, <4>3 DEF Requests
      <3>3. CASE s[i] \notin orphans
        <4>1. requests[i] = <<s[i], NoStop>>
          BY <1>4, <3>3
        <4> HIDE DEF requests, s
        <4> QED BY <3>1, <4>1 DEF Requests, NoStop
      <3> QED BY <3>2, <3>3
    <2>2. requests \in [1..Len(s) -> Requests]
      BY <1>4, <2>1
    <2> HIDE DEF requests
    <2> QED BY <1>4, <2>2, MapSeq
  <1>6. At(requests, calls) \in Seq(Requests)
    BY <1>5, AtFacts
  <1> HIDE DEF requests, calls, A, new, s
  <1>7. /\ askFor' \in Seq(AskTypes) /\ asked' \subseteq 1..tip
        /\ Range(askFor) \subseteq Range(askFor')
        /\ \A h \in Range(new) : \E a \in Range(askFor') : a.block = h
    BY <1>1, <1>3, AskForFacts
  <1>8. /\ last' \in Requests /\ toP' \in Seq(MessagesToP) /\ Range(toP) \subseteq Range(toP')
        /\ last' = last \/ GetBlocks(last'[1], last'[2]) \in Range(toP')
    BY <1>1, <1>6, PushFacts
  <1>9. DownloadTypeOK'
    <2>1. toL' \in Seq(MessagesToL)
      BY <1>1, HeadOfL
    <2>2. tip' = tip /\ MessagesToL' = MessagesToL /\ MessagesToP' = MessagesToP /\ AskTypes' = AskTypes
      BY <1>1 DEF serverVars, MessagesToL, MessagesToP, AskTypes
    <2> QED BY <1>1, <1>7, <1>8, <2>1, <2>2 DEF DownloadTypeOK, serverVars, connection, AskTypes, Requests
  <1>10. ASSUME NEW h \in Nat, HadOrAnnounced(h) PROVE HadOrAnnounced(h)'
    <2>1. AlreadyHave(h)' <=> AlreadyHave(h)
      BY <1>1 DEF AlreadyHave
    <2>2. CASE \E m \in Range(toL) : Concerns(m, h)
      <3>1. CASE Concerns(Head(toL), h)
        <4>1. h \in Range(s)
          BY <1>1, <3>1, HeadOfL DEF s
        <4>2. PICK i \in DOMAIN s : h = s[i]
          BY <4>1 DEF Range
        <4>3. CASE ~AlreadyHave(h)
          <5>1. h \in Range(new)
            BY <1>3, <4>2, <4>3 DEF A
          <5> QED BY <1>7, <5>1 DEF HadOrAnnounced, Announced
        <4> QED BY <2>1, <4>3 DEF HadOrAnnounced
      <3>2. CASE ~Concerns(Head(toL), h)
        BY <1>1, <2>2, <3>2, HeadOfL DEF HadOrAnnounced, Announced
      <3> QED BY <3>1, <3>2
    <2> QED BY <1>7, <1>8, <1>10, <2>1, <2>2 DEF HadOrAnnounced, Announced
  <1> QED BY <1>8, <1>9, <1>10 DEF Keeps, Sent

(* An orphan: a getblocks stops at its root, unless the last one did.        *)
LEMMA OrphanStep ==
    ASSUME DownloadTypeOK, own < meet + Limit, OrphanPart,
           NEW initialDownload \in BOOLEAN, ReceiveOrphan(initialDownload)
    PROVE  /\ DownloadTypeOK' /\ Keeps /\ OrphanPart' /\ Range(toP) \subseteq Range(toP')
           /\ last' = last \/ Sent(last)'
           /\ \E root \in 1..tip : /\ root > have + 1
                                   /\ \/ last = <<BestOf(have), root>>
                                      \/ GetBlocks(BestOf(have), root) \in Range(toP')
  <1> DEFINE h == Head(toL).height
             os == orphans \cup {h}
             root == GetOrphanRoot(os, h)
             ask == Append(askFor, [block |-> root - 1, again |-> root - 1 \in asked])
  <1>1. /\ toL # <<>> /\ Head(toL).type = "block" /\ toL' = Tail(toL)
        /\ ~AlreadyHave(h) /\ h > have + 1 /\ orphans' = os
        /\ PushGetBlocks(<<<<BestOf(have), root>>>>)
        /\ \/ askFor' = askFor /\ asked' = asked \ {h}
           \/ askFor' = ask /\ asked' = (asked \cup {root - 1}) \ {h}
        /\ UNCHANGED <<serverVars, have, fork, own, meet, connection>>
    BY DEF ReceiveOrphan
  <1>2. h \in 1..tip /\ Tail(toL) \in Seq(MessagesToL)
    BY <1>1, HeadOfL
  <1>3. os \in SUBSET (1..tip) /\ h \in os
    BY <1>2, NumFacts
  <1>4. root \in os /\ root \in 1..tip
    BY <1>3, OrphanRoot
  <1>5. \A o \in os : o > have + 1
    BY <1>1 DEF OrphanPart
  <1>6. root > have + 1 /\ root - 1 \in 1..tip
    BY <1>4, <1>5, NumFacts
  <1> DEFINE r == <<BestOf(have), root>>
  <1>7. r \in Requests
    <2>1. BestOf(have) \in 0..tip \cup {OwnBranch} /\ root \in 0..tip
      BY <1>4, BestFacts
    <2> QED BY <2>1 DEF Requests
  <1>8. <<r>> \in Seq(Requests) /\ Range(<<r>>) = {r} /\ r[1] = BestOf(have) /\ r[2] = root
    BY <1>7, SingleRange
  <1> HIDE DEF root, h, os
  <1>9. /\ last' \in Requests /\ toP' \in Seq(MessagesToP) /\ Range(toP) \subseteq Range(toP')
        /\ last' = last \/ GetBlocks(last'[1], last'[2]) \in Range(toP')
        /\ r = last \/ GetBlocks(r[1], r[2]) \in Range(toP')
    BY <1>1, <1>8, PushFacts
  <1>10. askFor' \in Seq(AskTypes) /\ asked' \subseteq 1..tip /\ Range(askFor) \subseteq Range(askFor')
    <2>1. askFor \in Seq(AskTypes) /\ asked \subseteq 1..tip
      BY DEF DownloadTypeOK, AskTypes
    <2>2. [block |-> root - 1, again |-> root - 1 \in asked] \in AskTypes
      BY <1>6 DEF AskTypes
    <2>3. ask \in Seq(AskTypes) /\ Range(askFor) \subseteq Range(ask)
      <3> DEFINE e == [block |-> root - 1, again |-> root - 1 \in asked]
      <3>1. <<e>> \in Seq(AskTypes)
        BY <2>2
      <3>2. ask = askFor \o <<e>>
        BY <2>1, <2>2
      <3> HIDE DEF e, ask
      <3>3. Range(askFor \o <<e>>) = Range(askFor) \cup Range(<<e>>) /\ askFor \o <<e>> \in Seq(AskTypes)
        BY <2>1, <3>1, ConcatRange
      <3> QED BY <3>2, <3>3
    <2> HIDE DEF ask
    <2>4. asked' \subseteq 1..tip
      BY <1>1, <1>6, <2>1
    <2>5. askFor' \in Seq(AskTypes) /\ Range(askFor) \subseteq Range(askFor')
      BY <1>1, <2>1, <2>3
    <2> QED BY <2>4, <2>5
  <1> HIDE DEF ask
  <1>11. DownloadTypeOK'
    <2>1. tip' = tip /\ MessagesToL' = MessagesToL /\ MessagesToP' = MessagesToP /\ AskTypes' = AskTypes
      BY <1>1 DEF serverVars, MessagesToL, MessagesToP, AskTypes
    <2>2. orphans' \subseteq 1..tip
      BY <1>1, <1>3
    <2> QED BY <1>1, <1>2, <1>9, <1>10, <2>1, <2>2 DEF DownloadTypeOK, serverVars, connection, AskTypes, Requests
  <1>12. ASSUME NEW k \in Nat, HadOrAnnounced(k) PROVE HadOrAnnounced(k)'
    <2>1. AlreadyHave(k) => AlreadyHave(k)'
      BY <1>1 DEF AlreadyHave, os
    <2>2. Concerns(Head(toL), k) => AlreadyHave(k)'
      BY <1>1, HeadOfL DEF AlreadyHave, os, h
    <2>3. \A m \in Range(toL) : m = Head(toL) \/ m \in Range(toL')
      BY <1>1, HeadOfL
    <2> QED BY <1>9, <1>10, <1>12, <2>1, <2>2, <2>3 DEF HadOrAnnounced, Announced
  <1>13. OrphanPart'
    BY <1>1, <1>5 DEF OrphanPart
  <1> QED BY <1>4, <1>6, <1>8, <1>9, <1>11, <1>12, <1>13 DEF Keeps, Sent

(* The next block: the orphans that follow it are no longer orphans.         *)
LEMMA NextStep ==
    ASSUME DownloadTypeOK, OrphanPart, ReceiveNext
    PROVE  DownloadTypeOK' /\ Keeps /\ OrphanPart' /\ have' >= have + 1
  <1> DEFINE K == {k \in have + 1..MaxHeight : (have + 2)..k \subseteq orphans}
  <1>1. /\ toL # <<>> /\ Head(toL).type = "block" /\ Head(toL).height = have + 1
        /\ have' = Max(K) /\ orphans' = {h \in orphans : h > have'} /\ asked' = asked \ {Head(toL).height}
        /\ toL' = Tail(toL)
        /\ UNCHANGED <<serverVars, fork, own, meet, askFor, last, toP, connection>>
    BY DEF ReceiveNext
  <1>2. have + 1 \in 1..tip /\ Tail(toL) \in Seq(MessagesToL)
    BY <1>1, HeadOfL
  <1>4. have' \in Nat /\ have + 1 <= have' /\ have' <= tip /\ \A o \in orphans : o > have' => o > have' + 1
    <2>1. /\ have \in Nat /\ tip \in Nat /\ MaxHeight \in Nat /\ tip <= MaxHeight /\ have + 1 <= tip
          /\ orphans \in SUBSET (1..tip)
      BY <1>2, NumFacts
    <2>2. PICK b : b = Max(K)
      OBVIOUS
    <2>3. b \in K /\ \A k \in K : b >= k
      <3>1. have + 1 \in K /\ K \in SUBSET (0..MaxHeight)
        BY <2>1
      <3> HIDE DEF K
      <3>2. \E k \in K : \A j \in K : k >= j
        BY <2>1, <3>1, GreatestNat
      <3> QED BY <2>2, <3>2 DEF Max
    <2>4. b \in Nat /\ have + 1 <= b /\ b <= MaxHeight /\ (have + 2)..b \subseteq orphans
      BY <2>1, <2>3
    <2>5. b <= tip
      <3>1. b # have + 1 => b \in orphans
        BY <2>1, <2>4
      <3> QED BY <2>1, <2>4, <3>1
    <2>6. b + 1 \notin orphans
      <3> SUFFICES ASSUME b + 1 \in orphans PROVE FALSE
        OBVIOUS
      <3>1. b + 1 \in have + 1..MaxHeight
        BY <2>1, <2>4
      <3>2. \A x \in (have + 2)..(b + 1) : x = b + 1 \/ x \in (have + 2)..b
        BY <2>1, <2>4
      <3>3. b + 1 \in K
        BY <2>4, <3>1, <3>2
      <3> QED BY <2>3, <2>4, <3>3
    <2>7. b \in Nat /\ have + 1 <= b /\ b <= tip /\ \A o \in orphans : o > b => o > b + 1
      <3>1. ASSUME NEW o \in orphans, o > b PROVE o > b + 1
        BY <2>1, <2>4, <2>6, <3>1
      <3> QED BY <2>4, <2>5, <3>1
    <2> HIDE DEF K
    <2> QED BY <1>1, <2>2, <2>7, Zenon
  <1> HIDE DEF K
  <1>6. OrphanPart'
    <2> SUFFICES ASSUME NEW o \in orphans' PROVE o > have' + 1
      BY DEF OrphanPart
    <2> QED BY <1>1, <1>4, Zenon
  <1>7. DownloadTypeOK'
    <2>1. tip' = tip /\ MessagesToL' = MessagesToL /\ MessagesToP' = MessagesToP
      BY <1>1 DEF serverVars, MessagesToL, MessagesToP
    <2>2. have' \in 0..tip /\ meet \in 0..have' /\ from \in 0..have' /\ goal \in 0..have' + 1
      BY <1>4, NumFacts
    <2>3. orphans' \subseteq 1..tip
      BY <1>1, NumFacts
    <2>4. asked' \subseteq 1..tip
      BY <1>1 DEF DownloadTypeOK
    <2> QED BY <1>1, <1>2, <2>1, <2>2, <2>3, <2>4 DEF DownloadTypeOK, serverVars, connection
  <1>8. ASSUME NEW k \in Nat, HadOrAnnounced(k) PROVE HadOrAnnounced(k)'
    <2>1. AlreadyHave(k) => AlreadyHave(k)'
      BY <1>1, <1>4, NumFacts DEF AlreadyHave
    <2>2. Concerns(Head(toL), k) => AlreadyHave(k)'
      <3>1. Concerns(Head(toL), k) => k = have + 1
        BY <1>1, HeadOfL
      <3> QED BY <1>4, <3>1 DEF AlreadyHave
    <2>3. \A m \in Range(toL) : m = Head(toL) \/ m \in Range(toL')
      BY <1>1, HeadOfL
    <2> QED BY <1>1, <1>8, <2>1, <2>2, <2>3 DEF HadOrAnnounced, Announced
  <1> QED BY <1>4, <1>6, <1>7, <1>8 DEF Keeps

(* A block that L has.                                                       *)
LEMMA AgainStep ==
    ASSUME DownloadTypeOK, ReceiveAgain
    PROVE  DownloadTypeOK' /\ Keeps
  <1>1. /\ toL # <<>> /\ Head(toL).type = "block" /\ AlreadyHave(Head(toL).height) /\ toL' = Tail(toL)
        /\ UNCHANGED <<serverVars, clientVars, toP, connection>>
    BY DEF ReceiveAgain
  <1>2. Tail(toL) \in Seq(MessagesToL)
    BY <1>1, HeadOfL
  <1>3. DownloadTypeOK'
    <2>1. tip' = tip /\ MessagesToL' = MessagesToL /\ MessagesToP' = MessagesToP
      BY <1>1 DEF serverVars, MessagesToL, MessagesToP
    <2> QED BY <1>1, <1>2, <2>1 DEF DownloadTypeOK, serverVars, clientVars, connection
  <1>4. ASSUME NEW k \in Nat, HadOrAnnounced(k) PROVE HadOrAnnounced(k)'
    <2>1. AlreadyHave(k) => AlreadyHave(k)'
      BY <1>1 DEF AlreadyHave, clientVars
    <2>2. Concerns(Head(toL), k) => AlreadyHave(k)
      BY <1>1, HeadOfL
    <2>3. \A m \in Range(toL) : m = Head(toL) \/ m \in Range(toL')
      BY <1>1, HeadOfL
    <2>4. askFor' = askFor /\ toP' = toP
      BY <1>1 DEF clientVars
    <2> QED BY <1>4, <2>1, <2>2, <2>3, <2>4 DEF HadOrAnnounced, Announced
  <1> QED BY <1>3, <1>4 DEF Keeps

(* Every block of a sequence that is split is named by a message.            *)
LEMMA PartsFacts ==
    ASSUME NEW s \in Seq(1..tip),
           NEW invs, invs = [k \in DOMAIN Split(s) |-> Inv(Split(s)[k])],
           NEW gets, gets = [k \in DOMAIN Split(s) |-> GetData(Split(s)[k])]
    PROVE  /\ invs \in Seq(MessagesToL) /\ \A h \in Range(s) : \E m \in Range(invs) : Concerns(m, h)
           /\ gets \in Seq(MessagesToP) /\ \A h \in Range(s) : \E m \in Range(gets) : Concerns(m, h)
  <1> DEFINE parts == Split(s)
  <1>1. /\ parts \in Seq(Seq(1..tip))
        /\ \A h \in Range(s) : \E p \in Range(parts) : h \in Range(p)
    BY SplitFacts
  <1> HIDE DEF parts
  <1>2. DOMAIN parts = 1..Len(parts) /\ Len(parts) \in Nat /\ \A k \in DOMAIN parts : parts[k] \in Seq(1..tip)
    BY <1>1, SeqRange
  <1>3. /\ invs = [k \in 1..Len(parts) |-> Inv(parts[k])]
        /\ gets = [k \in 1..Len(parts) |-> GetData(parts[k])]
    BY <1>2 DEF parts
  <1>4. invs \in [1..Len(parts) -> MessagesToL] /\ gets \in [1..Len(parts) -> MessagesToP]
    BY <1>2, <1>3, MessageFacts
  <1>5. invs \in Seq(MessagesToL) /\ gets \in Seq(MessagesToP)
    BY <1>2, <1>4, MapSeq
  <1>6. ASSUME NEW h \in Range(s)
        PROVE  (\E m \in Range(invs) : Concerns(m, h)) /\ \E m \in Range(gets) : Concerns(m, h)
    <2>1. PICK k \in 1..Len(parts) : h \in Range(parts[k])
      BY <1>1, <1>2 DEF Range
    <2>2. Inv(parts[k]) \in Range(invs) /\ GetData(parts[k]) \in Range(gets)
      BY <1>3, <2>1 DEF Range
    <2> QED BY <2>1, <2>2, ConcernsFacts
  <1> QED BY <1>5, <1>6

(* The requests that are dropped are for blocks that L has.                  *)
LEMMA SendGetDataStep ==
    ASSUME DownloadTypeOK, SendGetData
    PROVE  DownloadTypeOK' /\ Keeps /\ Range(toP) \subseteq Range(toP')
  <1>1. PICK S \in Due : askFor' = At(askFor, DOMAIN askFor \ S) /\ toP' = toP \o MissingAt(S)
    BY DEF SendGetData
  <1>2. UNCHANGED <<serverVars, have, orphans, fork, own, meet, asked, last, toL, connection>>
    BY DEF SendGetData
  <1> DEFINE M == {k \in S : ~AlreadyHave(askFor[k].block)}
             due == At(askFor, M)
             blocks == [k \in DOMAIN due |-> due[k].block]
             gets == MissingAt(S)
  <1>3. askFor \in Seq(AskTypes) /\ toP \in Seq(MessagesToP)
    BY TypeFacts DEF AskTypes
  <1>4. due \in Seq(AskTypes) /\ Range(due) = {askFor[i] : i \in M \cap DOMAIN askFor}
    BY <1>3, AtFacts
  <1>5. askFor' \in Seq(AskTypes) /\ Range(askFor') = {askFor[i] : i \in (DOMAIN askFor \ S) \cap DOMAIN askFor}
    BY <1>1, <1>3, AtFacts
  <1> HIDE DEF due
  <1>6. blocks \in Seq(1..tip) /\ \A a \in Range(due) : a.block \in Range(blocks)
    <2>1. DOMAIN due = 1..Len(due) /\ Len(due) \in Nat /\ \A k \in DOMAIN due : due[k] \in AskTypes
      BY <1>4, SeqRange
    <2>2. \A k \in DOMAIN due : due[k].block \in 1..tip
      BY <2>1 DEF AskTypes
    <2>3. blocks \in [1..Len(due) -> 1..tip]
      BY <2>1, <2>2
    <2>4. \A a \in Range(due) : a.block \in Range(blocks)
      BY DEF Range
    <2> HIDE DEF blocks
    <2> QED BY <2>1, <2>3, <2>4, MapSeq
  <1>7. gets = [k \in DOMAIN Split(blocks) |-> GetData(Split(blocks)[k])]
    BY DEF MissingAt, due
  <1> HIDE DEF gets, blocks
  <1>8. gets \in Seq(MessagesToP) /\ \A h \in Range(blocks) : \E m \in Range(gets) : Concerns(m, h)
    BY <1>6, <1>7, PartsFacts
  <1>9. toP' \in Seq(MessagesToP) /\ Range(toP') = Range(toP) \cup Range(gets)
    BY <1>1, <1>3, <1>8, ConcatRange DEF gets
  <1>10. DownloadTypeOK'
    <2>1. tip' = tip /\ MessagesToL' = MessagesToL /\ MessagesToP' = MessagesToP /\ AskTypes' = AskTypes
      BY <1>2 DEF serverVars, MessagesToL, MessagesToP, AskTypes
    <2> QED BY <1>2, <1>5, <1>9, <2>1 DEF DownloadTypeOK, serverVars, connection, AskTypes
  <1>11. ASSUME NEW h \in Nat, HadOrAnnounced(h) PROVE HadOrAnnounced(h)'
    <2>1. AlreadyHave(h)' <=> AlreadyHave(h)
      BY <1>2 DEF AlreadyHave
    <2>2. CASE ~AlreadyHave(h) /\ \E a \in Range(askFor) : a.block = h
      <3>1. PICK k \in DOMAIN askFor : askFor[k].block = h
        BY <2>2 DEF Range
      <3>2. CASE k \in S
        <4>1. askFor[k] \in Range(due)
          BY <1>4, <2>2, <3>1, <3>2
        <4>2. h \in Range(blocks)
          BY <1>6, <3>1, <4>1
        <4> QED BY <1>8, <1>9, <4>2 DEF HadOrAnnounced, Announced
      <3>3. CASE k \notin S
        <4>1. askFor[k] \in Range(askFor')
          BY <1>5, <3>1, <3>3
        <4> QED BY <3>1, <4>1 DEF HadOrAnnounced, Announced
      <3> QED BY <3>2, <3>3
    <2> QED BY <1>2, <1>9, <1>11, <2>1, <2>2 DEF HadOrAnnounced, Announced
  <1> QED BY <1>9, <1>10, <1>11 DEF Keeps

(* Inserting an element keeps the others.                                    *)
LEMMA InsertRange ==
    ASSUME NEW X, NEW s \in Seq(X), NEW e \in X, NEW c \in 1..Len(s)
    PROVE  InsertAt(s, c + 1, e) \in Seq(X) /\ Range(s) \subseteq Range(InsertAt(s, c + 1, e))
  <1>1. Len(s) \in Nat /\ c \in Nat /\ 1 <= c /\ c <= Len(s) /\ DOMAIN s = 1..Len(s) /\ (c + 1) - 1 = c
    OBVIOUS
  <1>2. ASSUME NEW a \in Nat, NEW b \in Nat, 1 <= a, b <= Len(s)
        PROVE  SubSeq(s, a, b) \in Seq(X) /\ Range(SubSeq(s, a, b)) = {s[i] : i \in a..b}
    BY <1>2, SubSeqRange
  <1> DEFINE one == SubSeq(s, 1, c)
             two == SubSeq(s, c + 1, Len(s))
             new == <<e>>
             mid == one \o new
  <1>3. one \in Seq(X) /\ Range(one) = {s[i] : i \in 1..c}
    BY <1>1, <1>2
  <1>4. c + 1 \in Nat /\ 1 <= c + 1 /\ Len(s) <= Len(s)
    BY <1>1
  <1>5. two \in Seq(X) /\ Range(two) = {s[i] : i \in c + 1..Len(s)}
    BY <1>1, <1>2, <1>4
  <1>6. InsertAt(s, c + 1, e) = mid \o two
    BY <1>1 DEF InsertAt
  <1>7. new \in Seq(X)
    OBVIOUS
  <1> HIDE DEF one, two, new
  <1>8. mid \in Seq(X) /\ Range(mid) = Range(one) \cup Range(new)
    BY <1>3, <1>7, ConcatRange
  <1> HIDE DEF mid
  <1>9. mid \o two \in Seq(X) /\ Range(mid \o two) = Range(mid) \cup Range(two)
    BY <1>5, <1>8, ConcatRange
  <1>10. ASSUME NEW x \in Range(s) PROVE x \in Range(one) \cup Range(two)
    <2>1. PICK i \in 1..Len(s) : x = s[i]
      BY <1>1 DEF Range
    <2>2. i \in 1..c \/ i \in c + 1..Len(s)
      BY <1>1
    <2> QED BY <1>3, <1>5, <2>1, <2>2
  <1> QED BY <1>6, <1>8, <1>9, <1>10

(* Every block asked for is sent.                                            *)
LEMMA GetDataStep ==
    ASSUME DownloadTypeOK, ReceiveGetData
    PROVE  DownloadTypeOK' /\ Keeps
           /\ Range(toP) \subseteq {Head(toP)} \cup Range(toP') /\ toP # <<>> /\ Head(toP).type = "getdata"
  <1> DEFINE s == Head(toP).blocks
             blocks == [i \in DOMAIN s |-> Block(s[i])]
             at == {i \in DOMAIN s : s[i] = hashContinue}
             e == Inv(<<LastPow>>)
             answer == IF at = {} THEN blocks ELSE InsertAt(blocks, Min(at) + 1, e)
  <1>1. /\ toP # <<>> /\ Head(toP).type = "getdata" /\ toP' = Tail(toP) /\ toL' = toL \o answer
        /\ hashContinue' = IF at = {} THEN hashContinue ELSE 0
        /\ UNCHANGED <<tip, known, toSend, clientVars, connection>>
    BY DEF ReceiveGetData
  <1>2. s \in Seq(1..tip) /\ Tail(toP) \in Seq(MessagesToP)
    BY <1>1, HeadOfP
  <1>3. DOMAIN s = 1..Len(s) /\ Len(s) \in Nat /\ \A i \in DOMAIN s : s[i] \in 1..tip
    BY <1>2, SeqRange
  <1>4. blocks \in Seq(MessagesToL) /\ Len(blocks) = Len(s)
    <2>1. blocks \in [1..Len(s) -> MessagesToL]
      BY <1>3, MessageFacts
    <2> HIDE DEF blocks
    <2> QED BY <1>3, <2>1, MapSeq
  <1>5. \A h \in Range(s) : \E m \in Range(blocks) : Concerns(m, h)
    <2> SUFFICES ASSUME NEW h \in Range(s) PROVE \E m \in Range(blocks) : Concerns(m, h)
      OBVIOUS
    <2>1. PICK i \in DOMAIN s : h = s[i]
      BY DEF Range
    <2>2. Block(h) \in Range(blocks)
      BY <2>1 DEF Range
    <2> QED BY <2>2, ConcernsFacts
  <1>6. e \in MessagesToL
    <2>1. LastPow \in 1..tip
      <3> DEFINE K == {h \in 1..tip : h \in PowBlocks}
      <3>1. tip \in Nat /\ K \in SUBSET (0..tip) /\ 1 \in K
        BY NumFacts, DownloadAssumption
      <3>2. PICK b : b = Max(K)
        OBVIOUS
      <3>3. b \in K
        <4> HIDE DEF K
        <4>1. \E k \in K : \A j \in K : k >= j
          BY <3>1, GreatestNat
        <4> QED BY <3>2, <4>1 DEF Max
      <3> QED BY <3>2, <3>3 DEF LastPow
    <2>2. <<LastPow>> \in Seq(1..tip)
      BY <2>1
    <2> QED BY <2>2, MessageFacts
  <1> HIDE DEF blocks, e
  <1>7. answer \in Seq(MessagesToL) /\ Range(blocks) \subseteq Range(answer)
    <2>1. CASE at = {}
      BY <1>4, <2>1
    <2>2. CASE at # {}
      <3>1. Min(at) \in 1..Len(s)
        <4>1. at \in SUBSET Nat /\ at \subseteq 1..Len(s)
          BY <1>3
        <4> HIDE DEF at
        <4>2. \E k \in at : \A j \in at : k <= j
          BY <2>2, <4>1, LeastNat
        <4>3. Min(at) \in at
          BY <4>2 DEF Min
        <4> QED BY <4>1, <4>3
      <3> HIDE DEF at
      <3>2. /\ InsertAt(blocks, Min(at) + 1, e) \in Seq(MessagesToL)
            /\ Range(blocks) \subseteq Range(InsertAt(blocks, Min(at) + 1, e))
        BY <1>4, <1>6, <3>1, InsertRange
      <3> QED BY <2>2, <3>2
    <2> QED BY <2>1, <2>2
  <1> HIDE DEF answer, at
  <1>8. toL' \in Seq(MessagesToL) /\ Range(toL') = Range(toL) \cup Range(answer)
    BY <1>1, <1>7, TypeFacts, ConcatRange
  <1>9. DownloadTypeOK'
    <2>1. tip' = tip /\ MessagesToL' = MessagesToL /\ MessagesToP' = MessagesToP
      BY <1>1 DEF MessagesToL, MessagesToP
    <2>2. hashContinue' \in 0..tip
      BY <1>1, NumFacts DEF DownloadTypeOK
    <2> QED BY <1>1, <1>2, <1>8, <2>1, <2>2 DEF DownloadTypeOK, clientVars, connection
  <1>10. Range(toP) = {Head(toP)} \cup Range(toP')
    BY <1>1, HeadOfP
  <1>11. ASSUME NEW h \in Nat, HadOrAnnounced(h) PROVE HadOrAnnounced(h)'
    <2>1. AlreadyHave(h)' <=> AlreadyHave(h)
      BY <1>1 DEF AlreadyHave, clientVars
    <2>2. Concerns(Head(toP), h) => \E m \in Range(toL') : Concerns(m, h)
      BY <1>1, <1>5, <1>7, <1>8, HeadOfP
    <2>3. askFor' = askFor
      BY <1>1 DEF clientVars
    <2> QED BY <1>8, <1>10, <1>11, <2>1, <2>2, <2>3 DEF HadOrAnnounced, Announced
  <1> QED BY <1>1, <1>9, <1>10, <1>11 DEF Keeps

(* PushInventory leaves out only what L is known to have.                    *)
LEMMA UnknownFacts ==
    ASSUME NEW X, NEW s \in Seq(X)
    PROVE  /\ Unknown(s) \in Seq(X)
           /\ \A h \in Range(s) : h \in Range(Unknown(s)) \/ h \in Range(known)
  <1> DEFINE S == {i \in DOMAIN s : s[i] \notin Range(known)}
  <1>1. At(s, S) \in Seq(X) /\ Range(At(s, S)) = {s[i] : i \in S \cap DOMAIN s}
    BY AtFacts
  <1>2. ASSUME NEW h \in Range(s), h \notin Range(known) PROVE h \in Range(At(s, S))
    BY <1>1, <1>2 DEF Range
  <1> QED BY <1>1, <1>2 DEF Unknown

(* The blocks after b up to n.                                               *)
LEMMA UpTo ==
    ASSUME NEW t \in Nat, NEW b \in Nat, NEW n \in Nat, b <= n, n <= t,
           NEW s, s = [i \in 1..n - b |-> b + i]
    PROVE  s \in Seq(1..t) /\ \A h \in b + 1..n : h \in Range(s)
  <1>1. s \in [1..n - b -> 1..t] /\ n - b \in Nat
    OBVIOUS
  <1>2. s \in Seq(1..t)
    BY <1>1, MapSeq
  <1>3. ASSUME NEW h \in b + 1..n PROVE h \in Range(s)
    <2>1. h - b \in 1..n - b /\ b + (h - b) = h
      OBVIOUS
    <2>2. s[h - b] = h /\ h - b \in DOMAIN s
      BY <2>1
    <2> QED BY <2>2 DEF Range
  <1> QED BY <1>2, <1>3

(* The answer to a getblocks names all blocks that the request covers.       *)
LEMMA GetBlocksStep ==
    ASSUME DownloadTypeOK, ReceiveGetBlocks
    PROVE  /\ DownloadTypeOK' /\ Keeps /\ Range(toSend) \subseteq Range(toSend')
           /\ \A r \in Requests : Sent(r) =>
                 \/ Sent(r)'
                 \/ \A h \in Nat : Covers(r, h) => h \in Range(toSend') \/ h \in Range(known)
  <1> DEFINE q == <<Head(toP).begin, Head(toP).stop>>
             b == Located(q[1])
             stop == q[2]
             end == Min({b + Limit, tip})
             send(n) == [i \in 1..n - b |-> b + i]
             more == IF stop # tip /\ stop + Recent > tip THEN <<tip>> ELSE <<>>
             before == send(stop - 1) \o more
  <1>1. /\ toP # <<>> /\ Head(toP).type = "getblocks" /\ toP' = Tail(toP)
        /\ UNCHANGED <<tip, known, clientVars, toL, connection>>
        /\ \/ /\ stop \in b + 1..end
              /\ toSend' = toSend \o Unknown(before) /\ UNCHANGED hashContinue
           \/ /\ stop \notin b + 1..end
              /\ toSend' = toSend \o Unknown(send(end))
              /\ hashContinue' = IF end = b + Limit THEN end ELSE hashContinue
    BY DEF ReceiveGetBlocks
  <1>2. /\ Tail(toP) \in Seq(MessagesToP) /\ Range(toP) = {Head(toP)} \cup Range(Tail(toP))
        /\ q \in Requests /\ Head(toP) = GetBlocks(q[1], q[2]) /\ \A h : ~Concerns(Head(toP), h)
    BY <1>1, HeadOfP
  <1> HIDE DEF q
  <1>3. /\ b \in Nat /\ b <= tip /\ stop \in Nat /\ stop <= tip /\ end \in Nat /\ b <= end
        /\ end = IF b + Limit <= tip THEN b + Limit ELSE tip
    <2>1. /\ q[1] \in 0..tip \cup {OwnBranch} /\ q[2] \in 0..tip
          /\ tip \in Nat /\ meet \in Nat /\ meet <= tip /\ Limit \in Nat \ {0}
      BY <1>2, NumFacts DEF Requests
    <2>2. b \in Nat /\ b <= tip /\ stop \in Nat /\ stop <= tip
      BY <2>1 DEF Located, OwnBranch
    <2> HIDE DEF b
    <2>3. end = IF b + Limit <= tip THEN b + Limit ELSE tip
      BY <2>1, <2>2, MinOfTwo
    <2> HIDE DEF end
    <2> QED BY <2>1, <2>2, <2>3
  <1>4. \A h \in Nat : Covers(q, h) =>
           /\ h \in b + 1..end
           /\ stop \in b + 1..end => h \in b + 1..stop - 1
    <2> SUFFICES ASSUME NEW h \in Nat, Covers(q, h)
                 PROVE  h \in b + 1..end /\ (stop \in b + 1..end => h \in b + 1..stop - 1)
      OBVIOUS
    <2>1. b < h /\ h <= b + Limit /\ h <= tip /\ (stop <= b \/ h < stop)
      BY DEF Covers
    <2> HIDE DEF b, end, stop
    <2> QED BY <1>3, <2>1, NumFacts
  <1> HIDE DEF b, end, stop
  <1>5. tip \in Nat /\ 1 <= tip /\ toSend \in Seq(1..tip)
    BY NumFacts, TypeFacts
  <1>6. PICK x \in Seq(1..tip) : /\ toSend' = toSend \o Unknown(x)
                                 /\ \A h \in Nat : Covers(q, h) => h \in Range(x)
    <2>1. CASE stop \in b + 1..end /\ toSend' = toSend \o Unknown(before)
      <3>1. stop - 1 \in Nat /\ b <= stop - 1 /\ stop - 1 <= tip
        BY <1>3, <1>5, <2>1
      <3>2. send(stop - 1) \in Seq(1..tip) /\ \A h \in b + 1..stop - 1 : h \in Range(send(stop - 1))
        <4>1. PICK n : n = stop - 1
          OBVIOUS
        <4>2. n \in Nat /\ b <= n /\ n <= tip
          BY <3>1, <4>1
        <4>3. send(n) \in Seq(1..tip) /\ \A h \in b + 1..n : h \in Range(send(n))
          BY <1>3, <1>5, <4>2, UpTo
        <4> HIDE DEF send
        <4> QED BY <4>1, <4>3
      <3>3. more \in Seq(1..tip)
        <4>1. <<tip>> \in Seq(1..tip) /\ <<>> \in Seq(1..tip)
          BY <1>5
        <4>2. more = <<tip>> \/ more = <<>>
          OBVIOUS
        <4> HIDE DEF more
        <4> QED BY <4>1, <4>2
      <3> HIDE DEF send, more
      <3>4. before \in Seq(1..tip) /\ Range(before) = Range(send(stop - 1)) \cup Range(more)
        BY <3>2, <3>3, ConcatRange
      <3> HIDE DEF before
      <3> QED BY <1>4, <2>1, <3>2, <3>4
    <2>2. CASE stop \notin b + 1..end /\ toSend' = toSend \o Unknown(send(end))
      <3>0. end <= tip
        BY <1>3, <1>5, NumFacts
      <3>1. send(end) \in Seq(1..tip) /\ \A h \in b + 1..end : h \in Range(send(end))
        BY <1>3, <1>5, <3>0, UpTo
      <3> HIDE DEF send
      <3> QED BY <1>4, <2>2, <3>1
    <2> QED BY <1>1, <2>1, <2>2
  <1>7. Unknown(x) \in Seq(1..tip) /\ \A h \in Range(x) : h \in Range(Unknown(x)) \/ h \in Range(known)
    BY UnknownFacts
  <1>8. toSend' \in Seq(1..tip) /\ Range(toSend') = Range(toSend) \cup Range(Unknown(x))
    BY <1>5, <1>6, <1>7, ConcatRange
  <1>9. DownloadTypeOK'
    <2>1. tip' = tip /\ MessagesToL' = MessagesToL /\ MessagesToP' = MessagesToP
      BY <1>1 DEF MessagesToL, MessagesToP
    <2>2. hashContinue' \in 0..tip
      <3>1. end \in 0..tip /\ hashContinue \in 0..tip
        BY <1>3, <1>5, NumFacts DEF DownloadTypeOK
      <3> QED BY <1>1, <3>1
    <2> QED BY <1>1, <1>2, <1>8, <2>1, <2>2 DEF DownloadTypeOK, clientVars, connection
  <1>10. ASSUME NEW h \in Nat, HadOrAnnounced(h) PROVE HadOrAnnounced(h)'
    <2>1. AlreadyHave(h)' <=> AlreadyHave(h)
      BY <1>1 DEF AlreadyHave, clientVars
    <2>2. askFor' = askFor /\ toL' = toL
      BY <1>1 DEF clientVars
    <2>3. \A m \in Range(toP) : Concerns(m, h) => m \in Range(toP')
      BY <1>1, <1>2
    <2> QED BY <1>10, <2>1, <2>2, <2>3 DEF HadOrAnnounced, Announced
  <1>11. ASSUME NEW r \in Requests, Sent(r), ~Sent(r)'
         PROVE  \A h \in Nat : Covers(r, h) => h \in Range(toSend') \/ h \in Range(known)
    <2>1. GetBlocks(r[1], r[2]) = Head(toP)
      BY <1>1, <1>2, <1>11 DEF Sent
    <2>2. r = q
      BY <1>2, <2>1 DEF GetBlocks, Requests
    <2> QED BY <1>6, <1>7, <1>8, <2>2
  <1> QED BY <1>8, <1>9, <1>10, <1>11 DEF Keeps

(* What is not announced was announced before.                               *)
LEMMA SendInvStep ==
    ASSUME DownloadTypeOK, KnownComes, SendInv
    PROVE  /\ DownloadTypeOK' /\ Keeps /\ KnownComes'
           /\ \A h \in Range(toSend) : HadOrAnnounced(h)'
  <1> DEFINE knownAt(T, i) == Remembered(known \o At(toSend, {j \in T : j < i}))
  <1>1. PICK S \in SUBSET DOMAIN toSend :
           /\ \A i \in DOMAIN toSend : i \in S <=> toSend[i] \notin Range(knownAt(S, i))
           /\ known' = Remembered(known \o At(toSend, S))
           /\ toL' = toL \o [k \in DOMAIN Split(At(toSend, S)) |-> Inv(Split(At(toSend, S))[k])]
    BY DEF SendInv
  <1>2. toSend' = <<>> /\ UNCHANGED <<tip, hashContinue, clientVars, toP, connection>>
    BY DEF SendInv
  <1> DEFINE new == At(toSend, S)
             invs == [k \in DOMAIN Split(new) |-> Inv(Split(new)[k])]
  <1>3. known \in Seq(1..tip) /\ toSend \in Seq(1..tip) /\ toL \in Seq(MessagesToL)
    BY TypeFacts
  <1>4. new \in Seq(1..tip) /\ Range(new) = {toSend[i] : i \in S \cap DOMAIN toSend}
    BY <1>3, AtFacts
  <1>5. known' = Remembered(known \o new) /\ toL' = toL \o invs
    BY <1>1
  <1> HIDE DEF new
  <1>6. invs \in Seq(MessagesToL) /\ \A h \in Range(new) : \E m \in Range(invs) : Concerns(m, h)
    BY <1>4, PartsFacts
  <1> HIDE DEF invs
  <1>7. toL' \in Seq(MessagesToL) /\ Range(toL') = Range(toL) \cup Range(invs)
    BY <1>3, <1>5, <1>6, ConcatRange
  <1>8. known \o new \in Seq(1..tip) /\ Range(known \o new) = Range(known) \cup Range(new)
    BY <1>3, <1>4, ConcatRange
  <1>9. /\ known' \in Seq(1..tip) /\ Len(known') <= KnownSize
        /\ Range(known') \subseteq Range(known) \cup Range(new)
    BY <1>5, <1>8, RememberedFacts
  <1>10. \A h \in Range(new) : HadOrAnnounced(h)'
    BY <1>6, <1>7 DEF HadOrAnnounced, Announced
  <1>11. ASSUME NEW h, HadOrAnnounced(h) PROVE HadOrAnnounced(h)'
    <2>1. AlreadyHave(h)' <=> AlreadyHave(h)
      BY <1>2 DEF AlreadyHave, clientVars
    <2>2. askFor' = askFor /\ toP' = toP
      BY <1>2 DEF clientVars
    <2> QED BY <1>7, <1>11, <2>1, <2>2 DEF HadOrAnnounced, Announced
  <1>12. \A h \in Range(known) : HadOrAnnounced(h)'
    BY <1>11 DEF KnownComes, HadOrAnnounced
  <1>13. KnownComes'
    BY <1>9, <1>10, <1>12 DEF KnownComes, HadOrAnnounced
  <1>14. ASSUME NEW h \in Range(toSend) PROVE HadOrAnnounced(h)'
    <2>1. PICK i \in DOMAIN toSend : h = toSend[i]
      BY DEF Range
    <2>2. CASE i \in S
      BY <1>4, <1>10, <2>1, <2>2
    <2>3. CASE i \notin S
      <3> DEFINE T == {j \in S : j < i}
                 old == At(toSend, T)
      <3>1. h \in Range(Remembered(known \o old))
        BY <1>1, <2>1, <2>3
      <3>2. old \in Seq(1..tip) /\ Range(old) = {toSend[k] : k \in T \cap DOMAIN toSend}
        BY <1>3, AtFacts
      <3> HIDE DEF old
      <3>3. known \o old \in Seq(1..tip) /\ Range(known \o old) = Range(known) \cup Range(old)
        BY <1>3, <3>2, ConcatRange
      <3>4. h \in Range(known) \cup Range(old)
        BY <3>1, <3>3, RememberedFacts
      <3>5. Range(old) \subseteq Range(new)
        BY <1>4, <3>2
      <3> QED BY <1>10, <1>12, <3>4, <3>5
    <2> QED BY <2>2, <2>3
  <1>15. DownloadTypeOK'
    <2>1. tip' = tip /\ MessagesToL' = MessagesToL /\ MessagesToP' = MessagesToP /\ <<>> \in Seq(1..tip)
      BY <1>2 DEF MessagesToL, MessagesToP
    <2> QED BY <1>2, <1>7, <1>9, <2>1 DEF DownloadTypeOK, clientVars, connection
  <1> QED BY <1>11, <1>13, <1>14, <1>15 DEF Keeps

(* Sequences over a larger set.                                              *)
LEMMA SeqSubset ==
    ASSUME NEW X, NEW Y, X \subseteq Y
    PROVE  Seq(X) \subseteq Seq(Y)
  <1> SUFFICES ASSUME NEW s \in Seq(X) PROVE s \in Seq(Y)
    OBVIOUS
  <1>1. Len(s) \in Nat /\ s \in [1..Len(s) -> Y]
    OBVIOUS
  <1> QED BY <1>1, MapSeq

(* P's new block is announced, since it cannot be known.                     *)
LEMMA NewBlockStep ==
    ASSUME DownloadTypeOK, NewBlock
    PROVE  DownloadTypeOK' /\ Keeps /\ Range(toSend) \subseteq Range(toSend') /\ tip' \in Range(toSend')
  <1>1. /\ tip < MaxHeight /\ tip' = tip + 1 /\ toSend' = toSend \o Unknown(<<tip + 1>>)
        /\ goal' = have + 1
        /\ UNCHANGED <<known, hashContinue, clientVars, toL, toP, connects, from, fresh>>
    BY DEF NewBlock
  <1> DEFINE H == 1..(tip + 1)
  <1>2. /\ tip + 1 \in H /\ 1..tip \subseteq H /\ H = 1..tip' /\ 0..tip \subseteq 0..tip'
        /\ tip + 1 \notin 1..tip
    BY <1>1, NumFacts
  <1>3. known \in Seq(1..tip) /\ toSend \in Seq(1..tip) /\ known \in Seq(H) /\ toSend \in Seq(H)
    <2>1. Seq(1..tip) \subseteq Seq(H)
      BY <1>2, SeqSubset
    <2> HIDE DEF H
    <2> QED BY <2>1, TypeFacts
  <1> HIDE DEF H
  <1>4. /\ Unknown(<<tip + 1>>) \in Seq(H)
        /\ tip + 1 \in Range(Unknown(<<tip + 1>>)) \/ tip + 1 \in Range(known)
    <2>1. <<tip + 1>> \in Seq(H) /\ Range(<<tip + 1>>) = {tip + 1}
      BY <1>2, SingleRange
    <2> QED BY <2>1, UnknownFacts
  <1>5. tip + 1 \notin Range(known)
    BY <1>2, <1>3, SeqRange
  <1>6. toSend' \in Seq(H) /\ Range(toSend') = Range(toSend) \cup Range(Unknown(<<tip + 1>>))
    BY <1>1, <1>3, <1>4, ConcatRange
  <1>7. DownloadTypeOK'
    <2>1. Seq(1..tip) \subseteq Seq(H)
      BY <1>2, SeqSubset
    <2>2. MessagesToL \subseteq MessagesToL'
      <3>1. MessagesToL' = [type : {"inv"}, blocks : Seq(H)] \cup [type : {"block"}, height : H]
        BY <1>2 DEF MessagesToL
      <3> QED BY <1>2, <2>1, <3>1 DEF MessagesToL
    <2>3. MessagesToP \subseteq MessagesToP'
      <3>1. MessagesToP' = [type : {"getblocks"}, begin : 0..tip' \cup {OwnBranch}, stop : 0..tip']
                              \cup [type : {"getdata"}, blocks : Seq(H)]
        BY <1>2 DEF MessagesToP
      <3> QED BY <1>2, <2>1, <3>1 DEF MessagesToP
    <2>4. toL' \in Seq(MessagesToL') /\ toP' \in Seq(MessagesToP')
      BY <1>1, <2>2, <2>3, TypeFacts, SeqSubset
    <2>5. askFor' \in Seq([block : 1..tip', again : BOOLEAN]) /\ asked' \subseteq 1..tip'
      <3> DEFINE A == [block : 1..tip, again : BOOLEAN]
                 B == [block : H, again : BOOLEAN]
      <3>1. A \subseteq B /\ askFor \in Seq(A)
        BY <1>2, TypeFacts
      <3>2. askFor \in Seq(B)
        <4> HIDE DEF A, B
        <4> QED BY <3>1, SeqSubset
      <3>3. asked \subseteq H
        BY <1>2 DEF DownloadTypeOK
      <3> QED BY <1>1, <1>2, <3>2, <3>3 DEF clientVars
    <2>6. /\ tip' \in Heights' /\ have' \in 0..tip' /\ orphans' \subseteq 1..tip'
          /\ fork' \in 0..tip' /\ own' \in 0..tip' /\ meet' \in 0..have' /\ from' \in 0..have'
          /\ hashContinue' \in 0..tip' /\ goal' \in 0..have' + 1
      BY <1>1, NumFacts DEF DownloadTypeOK, Heights, clientVars
    <2>7. last' \in (0..tip' \cup {OwnBranch}) \X (0..tip')
      BY <1>1, <1>2 DEF DownloadTypeOK, clientVars
    <2>8. known' \in Seq(1..tip') /\ Len(known') <= KnownSize /\ toSend' \in Seq(1..tip')
      BY <1>1, <1>2, <1>3, <1>6 DEF DownloadTypeOK
    <2>9. connects' \in Nat /\ fresh' \in BOOLEAN
      BY <1>1 DEF DownloadTypeOK
    <2> QED BY <2>4, <2>5, <2>6, <2>7, <2>8, <2>9 DEF DownloadTypeOK
  <1>8. ASSUME NEW h \in Nat, HadOrAnnounced(h) PROVE HadOrAnnounced(h)'
    BY <1>1, <1>8 DEF HadOrAnnounced, Announced, AlreadyHave, clientVars
  <1> QED BY <1>1, <1>4, <1>5, <1>6, <1>7, <1>8 DEF Keeps

-----------------------------------------------------------------------------
(* A step that keeps the connection and loses nothing: a getblocks stays on  *)
(* its way until its answer is secured.                                      *)
Steady ==
    /\ DownloadTypeOK' /\ Keeps /\ OrphanPart' /\ KnownComes' /\ UNCHANGED <<own, meet, from>>
    /\ tip' = tip \/ (tip' = tip + 1 /\ Secured(tip)')
    /\ \A h \in Range(toSend) : Secured(h)'
    /\ \A r \in Requests : Sent(r) => Sent(r)' \/ \A h \in Nat : Covers(r, h) => Secured(h)'
    /\ last' = last \/ Sent(last)'

(* What is secured, covered and answered after such a step.                  *)
LEMMA SteadySecured ==
    ASSUME DownloadTypeOK, Steady, NEW h \in Nat, Secured(h)
    PROVE  Secured(h)'
  BY DEF Steady, Keeps, Secured, UnderWay, HadOrAnnounced

LEMMA SteadyCovers ==
    ASSUME DownloadTypeOK, Steady, NEW r \in Requests, NEW h \in Nat, Covers(r, h)'
    PROVE  r \in Requests' /\ (Covers(r, h) \/ (h = tip' /\ Secured(h)'))
  <1>1. tip \in Nat /\ Located(r[1])' = Located(r[1])
    BY NumFacts DEF Steady, Located
  <1>2. tip' = tip \/ tip' = tip + 1
    BY DEF Steady
  <1>3. r \in Requests'
    <2>1. 0..tip \subseteq 0..tip'
      BY <1>1, <1>2
    <2> QED BY <2>1 DEF Requests
  <1>4. h <= tip => Covers(r, h)
    BY <1>1 DEF Covers
  <1>5. ~(h <= tip) => h = tip' /\ Secured(h)'
    <2>1. h <= tip'
      BY DEF Covers
    <2>2. ~(h <= tip) => h = tip' /\ tip' # tip
      BY <1>1, <1>2, <2>1
    <2>3. tip' # tip => Secured(tip)'
      BY DEF Steady
    <2> QED BY <2>2, <2>3 DEF Secured, UnderWay, AlreadyHave, Announced
  <1> QED BY <1>3, <1>4, <1>5

LEMMA SteadyAnswered ==
    ASSUME DownloadTypeOK, Steady, NEW r \in Requests, Answered(r)
    PROVE  r \in Requests' /\ Answered(r)'
  <1>0. r \in Requests'
    <2>1. tip \in Nat /\ (tip' = tip \/ tip' = tip + 1)
      BY NumFacts DEF Steady
    <2>2. 0..tip \subseteq 0..tip'
      BY <2>1
    <2> QED BY <2>2 DEF Requests
  <1>1. CASE Sent(r)'
    BY <1>0, <1>1 DEF Answered
  <1>2. CASE ~Sent(r)'
    <2>1. ASSUME NEW h \in Nat, Covers(r, h) PROVE Secured(h)'
      <3>1. CASE Sent(r)
        BY <1>2, <2>1, <3>1 DEF Steady
      <3>2. CASE ~Sent(r)
        <4>1. h \in 1..tip
          BY <2>1, NumFacts DEF Covers, Located, Requests
        <4>2. Secured(h)
          BY <2>1, <3>2, <4>1 DEF Answered
        <4> QED BY <4>2, SteadySecured
      <3> QED BY <3>1, <3>2
    <2>2. \A h \in Nat : Covers(r, h)' => Secured(h)'
      BY <2>1, SteadyCovers
    <2>3. \A h \in 1..tip' : h \in Nat
      BY DEF DownloadTypeOK
    <2> QED BY <1>0, <2>2, <2>3 DEF Answered
  <1> QED BY <1>1, <1>2

(* The parts about getblocks after such a step.                              *)
LEMMA SteadyRequests ==
    ASSUME DownloadInv, Steady
    PROVE  FirstPart' /\ Answered(last)' /\ (own < meet + Limit)'
  <1>1. DownloadTypeOK /\ last \in Requests
    BY TypeFacts DEF DownloadInv
  <1>2. FirstPart'
    <2>1. PICK r \in Requests : Located(r[1]) = from /\ r[2] = NoStop /\ Answered(r)
      BY DEF DownloadInv, FirstPart
    <2>2. r \in Requests' /\ Answered(r)'
      BY <1>1, <2>1, SteadyAnswered
    <2>3. Located(r[1])' = from' /\ r[2] = NoStop
      BY <2>1 DEF Steady, Located
    <2> QED BY <2>2, <2>3 DEF FirstPart
  <1>3. Answered(last)'
    <2>1. CASE last' = last
      <3>1. PICK r \in Requests : r = last
        BY <1>1
      <3>2. Answered(r)
        BY <3>1 DEF DownloadInv
      <3>3. Answered(r)'
        BY <1>1, <3>2, SteadyAnswered
      <3> QED BY <2>1, <3>1, <3>3 DEF Answered, Sent, Covers
    <2>2. CASE Sent(last)'
      BY <2>2 DEF Answered
    <2> QED BY <2>1, <2>2 DEF Steady
  <1>4. (own < meet + Limit)'
    BY DEF Steady, DownloadInv
  <1> QED BY <1>2, <1>3, <1>4

(* A block that is not an orphan and that L has, or will get.                *)
LEMMA GoalSecured ==
    ASSUME DownloadTypeOK, OrphanPart, goal <= tip, Secured(goal)
    PROVE  GoalPart
  <1>1. goal \in Nat /\ tip \in Nat /\ have \in Nat /\ goal <= have + 1
    BY NumFacts
  <1>2. CASE AlreadyHave(goal)
    BY <1>1, <1>2 DEF AlreadyHave, OrphanPart, GoalPart
  <1>3. CASE ~AlreadyHave(goal)
    <2>1. goal \in goal..tip
      BY <1>1
    <2> QED BY <1>3, <2>1 DEF Secured, GoalPart
  <1> QED BY <1>2, <1>3

(* The goal after a step that adds no orphan.                                *)
LEMMA SteadyGoal ==
    ASSUME DownloadInv, Steady, goal' = goal,
           UNCHANGED <<have, orphans>> \/ have' >= have + 1
    PROVE  GoalPart'
  <1>1. /\ DownloadTypeOK /\ DownloadTypeOK' /\ OrphanPart' /\ GoalPart
        /\ tip' = tip \/ tip' = tip + 1
    BY DEF Steady, DownloadInv
  <1>2. tip \in Nat /\ have \in Nat /\ goal \in Nat /\ goal <= have + 1
    BY <1>1, NumFacts
  <1>3. have' \in Nat /\ tip' \in Nat
    BY <1>1 DEF DownloadTypeOK, Heights
  <1>4. CASE goal <= have'
    BY <1>4 DEF Steady, GoalPart
  <1>5. CASE ~(goal <= have')
    <2>1. UNCHANGED <<have, orphans>>
      <3>1. have' >= have + 1 => goal <= have'
        BY <1>2, <1>3
      <3> QED BY <1>5, <3>1
    <2>2. CASE \E r \in Requests : Sent(r) /\ Covers(r, goal)
      <3>1. PICK r \in Requests : Sent(r) /\ Covers(r, goal)
        BY <2>2
      <3>2. goal <= tip
        BY <3>1 DEF Covers
      <3>3. goal <= tip'
        BY <1>1, <1>2, <3>2
      <3>4. CASE Sent(r)'
        <4>1. r \in Requests' /\ Located(r[1])' = Located(r[1])
          <5>1. 0..tip \subseteq 0..tip'
            BY <1>1, <1>2
          <5> QED BY <5>1 DEF Requests, Located, Steady
        <4>2. Covers(r, goal)'
          BY <3>1, <3>3, <4>1 DEF Covers
        <4> QED BY <3>4, <4>1, <4>2 DEF GoalPart
      <3>5. CASE ~Sent(r)'
        <4>1. \A h \in Nat : Covers(r, h) => Secured(h)'
          BY <3>1, <3>5 DEF Steady
        <4>2. PICK g : g = goal
          OBVIOUS
        <4>3. Secured(g)'
          BY <1>2, <3>1, <4>1, <4>2
        <4>4. Secured(goal)'
          BY <4>2, <4>3 DEF Secured, AlreadyHave, UnderWay, Announced
        <4>5. (goal <= tip)'
          BY <3>3
        <4> QED BY <1>1, <4>4, <4>5, GoalSecured, PTL
      <3> QED BY <3>4, <3>5
    <2>3. CASE \E n \in goal..tip : ~AlreadyHave(n) /\ UnderWay(n)
      <3>1. PICK n \in goal..tip : ~AlreadyHave(n) /\ UnderWay(n)
        BY <2>3
      <3>2. n \in Nat /\ n \in goal..tip'
        BY <1>1, <1>2
      <3>3. Secured(n)'
        BY <1>1, <3>1, <3>2, SteadySecured DEF Secured
      <3>4. ~AlreadyHave(n)'
        BY <2>1, <3>1 DEF AlreadyHave
      <3>5. UnderWay(n)'
        BY <3>3, <3>4 DEF Secured
      <3> QED BY <3>2, <3>4, <3>5 DEF GoalPart
    <2>4. ~(goal <= have)
      BY <1>5, <2>1
    <2> QED BY <1>1, <2>2, <2>3, <2>4 DEF GoalPart
  <1> QED BY <1>4, <1>5

(* A step of the connection that leaves known alone is steady.               *)
LEMMA SteadyStep ==
    ASSUME DownloadInv, DownloadTypeOK', Keeps, OrphanPart',
           UNCHANGED <<tip, known, own, meet, from>>, Range(toSend) \subseteq Range(toSend'),
           \A r \in Requests : Sent(r) =>
               \/ Sent(r)'
               \/ \A h \in Nat : Covers(r, h) => h \in Range(toSend') \/ h \in Range(known),
           last' = last \/ Sent(last)'
    PROVE  Steady
  <1>1. known \in Seq(1..tip) /\ tip \in Nat
    BY TypeFacts, NumFacts DEF DownloadInv
  <1>2. \A h \in Range(known) : h \in Nat
    BY <1>1, SeqRange
  <1>3. \A h \in Range(known) : HadOrAnnounced(h)'
    BY <1>2 DEF DownloadInv, KnownComes, HadOrAnnounced, Keeps
  <1>4. KnownComes'
    BY <1>3 DEF KnownComes, HadOrAnnounced
  <1>5. \A h \in Range(toSend') : Secured(h)'
    BY DEF Secured, UnderWay
  <1>6. \A h \in Range(known) : Secured(h)'
    BY <1>3 DEF Secured, UnderWay, HadOrAnnounced
  <1> QED BY <1>4, <1>5, <1>6 DEF Steady

(* The same for a step that only adds to what P has received.                *)
LEMMA SteadyAdd ==
    ASSUME DownloadInv, DownloadTypeOK', Keeps, OrphanPart',
           UNCHANGED <<tip, known, toSend, own, meet, from>>, Range(toP) \subseteq Range(toP'),
           last' = last \/ Sent(last)'
    PROVE  Steady
  <1>1. \A r \in Requests : Sent(r) => Sent(r)'
    BY DEF Sent
  <1> QED BY <1>1, SteadyStep

(* All steps of the two message threads are steady.                          *)
LEMMA HandleSteady ==
    ASSUME DownloadInv, Handle
    PROVE  /\ Steady /\ goal' = goal
           /\ \/ UNCHANGED <<have, orphans>> \/ have' >= have + 1
              \/ \E initialDownload \in BOOLEAN : ReceiveOrphan(initialDownload)
  <1>0. DownloadTypeOK /\ own < meet + Limit /\ OrphanPart /\ KnownComes
    BY DEF DownloadInv
  <1>00. UNCHANGED <<have, orphans>> => OrphanPart'
    BY <1>0 DEF OrphanPart
  <1>1. CASE ReceiveInv
    <2>1. UNCHANGED <<serverVars, have, orphans, fork, own, meet, connection>>
      BY <1>1 DEF ReceiveInv
    <2>2. UNCHANGED <<tip, known, toSend, own, meet, from, goal, have, orphans>>
      BY <2>1 DEF serverVars, connection
    <2> QED BY <1>0, <1>00, <1>1, <2>2, InvStep, SteadyAdd
  <1>2. CASE ReceiveNext
    <2>1. UNCHANGED <<tip, known, toSend, own, meet, from, goal, last, toP>>
      BY <1>2 DEF ReceiveNext, serverVars, connection
    <2> QED BY <1>0, <1>2, <2>1, NextStep, SteadyAdd
  <1>3. CASE ReceiveAgain
    <2>1. UNCHANGED <<tip, known, toSend, own, meet, from, goal, last, toP, have, orphans>>
      BY <1>3 DEF ReceiveAgain, serverVars, clientVars, connection
    <2> QED BY <1>0, <1>00, <1>3, <2>1, AgainStep, SteadyAdd
  <1>4. CASE SendGetData
    <2>1. UNCHANGED <<tip, known, toSend, own, meet, from, goal, last, have, orphans>>
      BY <1>4 DEF SendGetData, serverVars, connection
    <2> QED BY <1>0, <1>00, <1>4, <2>1, SendGetDataStep, SteadyAdd
  <1>5. CASE \E initialDownload \in BOOLEAN : ReceiveOrphan(initialDownload)
    <2>1. PICK initialDownload \in BOOLEAN : ReceiveOrphan(initialDownload)
      BY <1>5
    <2>2. UNCHANGED <<tip, known, toSend, own, meet, from, goal>>
      BY <2>1 DEF ReceiveOrphan, serverVars, connection
    <2>3. DownloadTypeOK' /\ Keeps /\ OrphanPart' /\ Range(toP) \subseteq Range(toP') /\ (last' = last \/ Sent(last)')
      BY <1>0, <2>1, OrphanStep
    <2> QED BY <1>5, <2>2, <2>3, SteadyAdd
  <1>6. CASE ReceiveGetBlocks
    <2>1. UNCHANGED <<tip, known, own, meet, from, goal, last, have, orphans>>
      BY <1>6 DEF ReceiveGetBlocks, clientVars, connection
    <2> QED BY <1>0, <1>00, <1>6, <2>1, GetBlocksStep, SteadyStep
  <1>7. CASE ReceiveGetData
    <2>1. UNCHANGED <<tip, known, toSend, own, meet, from, goal, last, have, orphans>>
      BY <1>7 DEF ReceiveGetData, clientVars, connection
    <2>2. \A r \in Requests : Sent(r) => Sent(r)'
      <3>1. /\ Range(toP) \subseteq {Head(toP)} \cup Range(toP') /\ Head(toP).type = "getdata"
        BY <1>0, <1>7, GetDataStep
      <3>2. \A r \in Requests : GetBlocks(r[1], r[2]).type = "getblocks"
        BY DEF GetBlocks
      <3>3. \A r \in Requests : GetBlocks(r[1], r[2]) # Head(toP)
        BY <3>1, <3>2
      <3> QED BY <3>1, <3>3 DEF Sent
    <2> QED BY <1>0, <1>00, <1>7, <2>1, <2>2, GetDataStep, SteadyStep
  <1>8. CASE SendInv
    <2>1. UNCHANGED <<tip, own, meet, from, goal, last, have, orphans, toP>>
      BY <1>8 DEF SendInv, clientVars, connection
    <2>2. DownloadTypeOK' /\ Keeps /\ KnownComes' /\ \A h \in Range(toSend) : HadOrAnnounced(h)'
      BY <1>0, <1>8, SendInvStep
    <2>3. \A h \in Range(toSend) : Secured(h)'
      BY <2>2 DEF HadOrAnnounced, Secured, UnderWay
    <2>4. \A r \in Requests : Sent(r) => Sent(r)'
      BY <2>1 DEF Sent
    <2> QED BY <1>00, <2>1, <2>2, <2>3, <2>4 DEF Steady
  <1> QED BY <1>1, <1>2, <1>3, <1>4, <1>5, <1>6, <1>7, <1>8 DEF Handle

(* An orphan makes L ask for the block that it misses.                       *)
LEMMA OrphanGoal ==
    ASSUME DownloadInv, Steady, goal' = goal,
           NEW initialDownload \in BOOLEAN, ReceiveOrphan(initialDownload)
    PROVE  GoalPart'
  <1>1. /\ DownloadTypeOK /\ own < meet + Limit /\ OrphanPart /\ Answered(last) /\ GoalPart
    BY DEF DownloadInv
  <1>2. PICK root \in 1..tip : /\ root > have + 1
                               /\ \/ last = <<BestOf(have), root>>
                                  \/ GetBlocks(BestOf(have), root) \in Range(toP')
    BY <1>1, OrphanStep
  <1>3. UNCHANGED <<have, tip, meet>>
    BY DEF ReceiveOrphan, serverVars
  <1>4. /\ tip \in Nat /\ have \in Nat /\ goal \in Nat /\ goal <= have + 1 /\ Limit \in Nat
    BY <1>1, NumFacts
  <1>5. CASE goal <= have
    BY <1>3, <1>5 DEF GoalPart
  <1>6. CASE ~(goal <= have)
    <2>0. PICK r : r = <<BestOf(have), root>>
      OBVIOUS
    <2>1. goal = have + 1 /\ goal <= tip /\ goal >= 1
      BY <1>2, <1>4, <1>6
    <2>2. r \in Requests /\ r[1] = BestOf(have) /\ r[2] = root
      <3>1. BestOf(have) \in 0..tip \cup {OwnBranch}
        BY <1>1, BestFacts
      <3>2. root \in 0..tip
        OBVIOUS
      <3> QED BY <2>0, <3>1, <3>2 DEF Requests
    <2>3. Covers(r, goal)
      <3>1. /\ Located(BestOf(have)) \in Nat
            /\ Located(BestOf(have)) <= have /\ have < Located(BestOf(have)) + Limit
        BY <1>1, BestFacts
      <3>2. Located(r[1]) < goal /\ goal <= Located(r[1]) + Limit /\ goal < r[2]
        BY <1>2, <1>4, <2>1, <2>2, <3>1
      <3> QED BY <2>1, <3>2 DEF Covers
    <2>4. CASE Sent(r)'
      <3>1. r \in Requests' /\ Covers(r, goal)'
        BY <1>3, <2>2, <2>3 DEF Requests, Covers, Located
      <3> QED BY <2>4, <3>1 DEF GoalPart
    <2>5. CASE ~Sent(r)'
      <3>1. last = r
        BY <1>2, <2>0, <2>2, <2>5 DEF Sent
      <3>2. Answered(r)
        BY <1>1, <3>1
      <3>3. Answered(r)'
        BY <1>1, <2>2, <3>2, SteadyAnswered
      <3>4. \A h \in 1..tip' : Covers(r, h)' => Secured(h)'
        BY <2>5, <3>3 DEF Answered
      <3>5. PICK g : g = goal
        OBVIOUS
      <3>6. g \in 1..tip' /\ Covers(r, g)
        BY <1>3, <1>4, <2>1, <2>3, <3>5
      <3>7. Covers(r, g)'
        BY <1>3, <3>6 DEF Covers, Located
      <3>8. Secured(g)'
        BY <3>4, <3>6, <3>7
      <3>9. Secured(goal)' /\ (goal <= tip)'
        BY <1>3, <2>1, <3>5, <3>8 DEF Secured, AlreadyHave, UnderWay, Announced
      <3>10. DownloadTypeOK' /\ OrphanPart'
        BY DEF Steady
      <3> QED BY <3>9, <3>10, GoalSecured, PTL
    <2> QED BY <2>4, <2>5
  <1> QED BY <1>5, <1>6

(* A connection begins with a getblocks that L remembers.                    *)
LEMMA FreshConnection ==
    ASSUME DownloadTypeOK, own < meet + Limit, OrphanPart, goal = 0,
           NEW r, r \in Requests, r[2] = NoStop, last = r, Located(r[1]) = from,
           known = <<>>, toP = <<GetBlocks(r[1], r[2])>>
    PROVE  DownloadInv
  <1>1. GetBlocks(r[1], r[2]) \in MessagesToP
    BY MessageFacts
  <1>2. Sent(r)
    BY <1>1, SingleRange DEF Sent
  <1>3. Range(known) = {}
    BY TypeFacts, SeqRange
  <1>4. goal <= have
    BY NumFacts
  <1> QED BY <1>2, <1>3, <1>4 DEF DownloadInv, KnownComes, FirstPart, Answered, GoalPart

-----------------------------------------------------------------------------
(* The theorems.                                                             *)

LEMMA InitInv ==
    ASSUME DownloadInit
    PROVE  DownloadInv
  <1> USE DEF DownloadInit
  <1>1. /\ tip \in Nat /\ 1 <= tip /\ tip <= MaxHeight /\ tip \in Heights /\ fork \in 0..tip
        /\ own \in 0..tip /\ fork <= own /\ meet \in 0..fork /\ meet <= fork
    BY DownloadAssumption DEF Heights
  <1>2. PICK r : r = <<BestOf(fork), NoStop>>
    OBVIOUS
  <1>3. r \in Requests /\ r[1] = BestOf(fork) /\ r[2] = NoStop
    BY <1>1, <1>2 DEF Requests, BestOf, NoStop
  <1>4. Located(r[1]) = from
    BY <1>1, <1>3 DEF Located, BestOf, OwnBranch
  <1>5. GetBlocks(r[1], r[2]) \in MessagesToP
    BY <1>3, MessageFacts
  <1>6. toP \in Seq(MessagesToP) /\ toP = <<GetBlocks(r[1], r[2])>>
    BY <1>3, <1>5
  <1>7. DownloadTypeOK
    <2>1. /\ <<>> \in Seq(1..tip) /\ <<>> \in Seq(MessagesToL)
          /\ <<>> \in Seq([block : 1..tip, again : BOOLEAN]) /\ Len(<<>>) <= KnownSize
      BY DownloadAssumption
    <2>2. last \in (0..tip \cup {OwnBranch}) \X (0..tip)
      BY <1>2, <1>3 DEF Requests
    <2>3. have \in 0..tip /\ meet \in 0..have /\ from \in 0..have /\ goal \in 0..have + 1 /\ connects \in Nat
      BY <1>1
    <2>4. hashContinue \in 0..tip
      BY <1>1
    <2> QED BY <1>1, <1>6, <2>1, <2>2, <2>3, <2>4 DEF DownloadTypeOK
  <1>8. OrphanPart
    BY DEF OrphanPart
  <1> QED BY <1>2, <1>3, <1>4, <1>6, <1>7, <1>8, FreshConnection

LEMMA ConnectInv ==
    ASSUME DownloadInv, Reconnect \/ Restart
    PROVE  DownloadInv'
  <1>0. DownloadTypeOK /\ own < meet + Limit /\ OrphanPart
    BY DEF DownloadInv
  <1>1. Connect /\ fresh' \in BOOLEAN /\ orphans' \subseteq orphans /\ asked' \subseteq asked
    BY DEF Reconnect, Restart
  <1>2. /\ connects' = connects + 1 /\ known' = <<>> /\ toSend' = <<>> /\ hashContinue' = 0
        /\ askFor' = <<>> /\ last' = <<BestOf(have), NoStop>>
        /\ toL' = <<>> /\ toP' = <<GetBlocks(BestOf(have), NoStop)>>
        /\ from' = Located(BestOf(have)) /\ goal' = 0
        /\ UNCHANGED <<tip, have, fork, own, meet>>
    BY <1>1 DEF Connect
  <1>3. PICK r : r = <<BestOf(have), NoStop>>
    OBVIOUS
  <1>4. /\ BestOf(have) \in 0..tip \cup {OwnBranch} /\ from' \in Nat /\ from' <= have
    BY <1>0, <1>2, BestFacts
  <1>5. r \in Requests /\ r \in Requests' /\ r[1] = BestOf(have) /\ r[2] = NoStop
    BY <1>0, <1>2, <1>3, <1>4, NumFacts DEF Requests, NoStop
  <1>6. GetBlocks(r[1], r[2]) \in MessagesToP /\ toP' = <<GetBlocks(r[1], r[2])>>
    BY <1>2, <1>5, MessageFacts
  <1>7. DownloadTypeOK'
    <2>1. /\ <<>> \in Seq(1..tip) /\ <<>> \in Seq(MessagesToL) /\ toP' \in Seq(MessagesToP)
          /\ <<>> \in Seq([block : 1..tip, again : BOOLEAN]) /\ Len(<<>>) <= KnownSize
      BY <1>6, DownloadAssumption
    <2>2. MessagesToL' = MessagesToL /\ MessagesToP' = MessagesToP
      BY <1>2 DEF MessagesToL, MessagesToP
    <2>3. last' \in (0..tip \cup {OwnBranch}) \X (0..tip)
      BY <1>2, <1>3, <1>5 DEF Requests
    <2>4. from' \in 0..have /\ goal' \in 0..have + 1 /\ hashContinue' \in 0..tip
      BY <1>0, <1>2, <1>4, NumFacts
    <2>5. connects' \in Nat /\ orphans' \subseteq 1..tip /\ asked' \subseteq 1..tip
      BY <1>0, <1>1, <1>2 DEF DownloadTypeOK
    <2> QED BY <1>0, <1>1, <1>2, <2>1, <2>2, <2>3, <2>4, <2>5 DEF DownloadTypeOK, Heights
  <1>8. OrphanPart' /\ (own < meet + Limit)'
    BY <1>0, <1>1, <1>2 DEF OrphanPart
  <1>9. Located(r[1])' = from' /\ last' = r
    BY <1>2, <1>3, <1>5 DEF Located
  <1>10. Sent(r)' /\ Range(known') = {}
    <2>1. Range(toP') = {GetBlocks(r[1], r[2])}
      BY <1>6, SingleRange
    <2>2. known' \in Seq({})
      BY <1>2
    <2> QED BY <1>2, <2>1, <2>2, SeqRange DEF Sent
  <1>11. KnownComes'
    BY <1>10 DEF KnownComes
  <1>12. FirstPart'
    BY <1>5, <1>9, <1>10 DEF FirstPart, Answered
  <1>13. Answered(last)'
    BY <1>9, <1>10 DEF Answered, Sent
  <1>14. GoalPart'
    BY <1>0, <1>2, NumFacts DEF GoalPart
  <1> QED BY <1>7, <1>8, <1>11, <1>12, <1>13, <1>14 DEF DownloadInv

LEMMA NewBlockInv ==
    ASSUME DownloadInv, NewBlock
    PROVE  DownloadInv'
  <1>0. DownloadTypeOK /\ own < meet + Limit /\ OrphanPart /\ KnownComes
    BY DEF DownloadInv
  <1>1. /\ DownloadTypeOK' /\ Keeps /\ Range(toSend) \subseteq Range(toSend') /\ tip' \in Range(toSend')
    BY <1>0, NewBlockStep
  <1>2. /\ tip' = tip + 1 /\ goal' = have + 1
        /\ UNCHANGED <<known, have, orphans, own, meet, last, toL, toP, askFor, from>>
    BY DEF NewBlock, clientVars
  <1>3. Steady
    <2>1. \A h \in Range(toSend) : Secured(h)'
      BY <1>1 DEF Secured, UnderWay
    <2>2. Secured(tip)'
      BY <1>1 DEF Secured, UnderWay
    <2>3. \A r \in Requests : Sent(r) => Sent(r)'
      BY <1>2 DEF Sent
    <2>4. OrphanPart' /\ KnownComes'
      BY <1>0, <1>2 DEF OrphanPart, KnownComes, AlreadyHave, Announced
    <2> QED BY <1>1, <1>2, <2>1, <2>2, <2>3, <2>4 DEF Steady
  <1>4. GoalPart'
    <2>1. tip \in Nat /\ have \in Nat /\ have <= tip /\ orphans \subseteq 1..tip
      BY <1>0, NumFacts
    <2>2. PICK n : n = tip + 1
      OBVIOUS
    <2>3. n \in goal'..tip' /\ ~(n <= have) /\ n \notin orphans /\ n \in Range(toSend')
      BY <1>1, <1>2, <2>1, <2>2
    <2>4. ~AlreadyHave(n)' /\ UnderWay(n)'
      BY <1>2, <2>3 DEF AlreadyHave, UnderWay
    <2> QED BY <2>3, <2>4 DEF GoalPart
  <1>5. FirstPart' /\ Answered(last)' /\ (own < meet + Limit)'
    BY <1>3, SteadyRequests
  <1> QED BY <1>3, <1>4, <1>5 DEF DownloadInv, Steady

LEMMA HandleInv ==
    ASSUME DownloadInv, Handle
    PROVE  DownloadInv'
  <1>1. /\ Steady /\ goal' = goal
        /\ \/ UNCHANGED <<have, orphans>> \/ have' >= have + 1
           \/ \E initialDownload \in BOOLEAN : ReceiveOrphan(initialDownload)
    BY HandleSteady
  <1>2. GoalPart'
    BY <1>1, SteadyGoal, OrphanGoal
  <1>3. FirstPart' /\ Answered(last)' /\ (own < meet + Limit)'
    BY <1>1, SteadyRequests
  <1> QED BY <1>1, <1>2, <1>3 DEF DownloadInv, Steady

LEMMA DownloadInductive ==
    DownloadSpec => []DownloadInv
  <1>1. DownloadInit => DownloadInv
    BY InitInv
  <1>2. DownloadInv /\ [DownloadNext]_downloadVars => DownloadInv'
    <2> SUFFICES ASSUME DownloadInv, [DownloadNext]_downloadVars PROVE DownloadInv'
      OBVIOUS
    <2>1. CASE Handle
      BY <2>1, HandleInv
    <2>2. CASE NewBlock
      BY <2>2, NewBlockInv
    <2>3. CASE Reconnect \/ Restart
      BY <2>3, ConnectInv
    <2>4. CASE UNCHANGED downloadVars
      <3>1. /\ UNCHANGED <<tip, known, toSend, hashContinue, have, orphans, fork, own, meet, askFor, asked, last>>
            /\ UNCHANGED <<toL, toP, connects, from, fresh, goal>>
        BY <2>4 DEF downloadVars, serverVars, clientVars, connection
      <3>2. DownloadTypeOK' /\ (own < meet + Limit)' /\ OrphanPart'
        BY <3>1 DEF DownloadInv, DownloadTypeOK, MessagesToL, MessagesToP, Heights, OrphanPart
      <3>3. KnownComes'
        BY <3>1 DEF DownloadInv, KnownComes, AlreadyHave, Announced
      <3>4. FirstPart' /\ Answered(last)'
        BY <3>1 DEF DownloadInv, FirstPart, Answered, Requests, Sent, Covers, Located, Secured,
                    UnderWay, AlreadyHave, Announced
      <3>5. GoalPart'
        BY <3>1 DEF DownloadInv, GoalPart, Requests, Sent, Covers, Located, UnderWay, AlreadyHave, Announced
      <3> QED BY <3>2, <3>3, <3>4, <3>5 DEF DownloadInv
    <2> QED BY <2>1, <2>2, <2>3, <2>4 DEF DownloadNext
  <1> QED BY <1>1, <1>2, PTL DEF DownloadSpec

(* Nothing is under way when both are silent.                                *)
LEMMA QuietFacts ==
    ASSUME DownloadTypeOK, Quiet, NEW h
    PROVE  ~UnderWay(h) /\ \A r : ~Sent(r)
  <1>1. Range(<<>>) = {}
    <2>1. <<>> \in Seq({})
      OBVIOUS
    <2> QED BY <2>1, SeqRange
  <1> QED BY <1>1 DEF Quiet, UnderWay, Announced, Sent

(* The state of the download is well typed: L only asks for, and is only     *)
(* sent, blocks that P has; setInventoryKnown keeps its size.                *)
THEOREM DownloadTypeCorrect == DownloadSpec => []DownloadTypeOK
  <1>1. DownloadInv => DownloadTypeOK
    BY DEF DownloadInv
  <1> QED BY <1>1, DownloadInductive, PTL

(* What setInventoryKnown says L knows, L has, or an inv, a request or the   *)
(* block is on its way: PushInventory and SendMessages never leave out a     *)
(* block that is lost, whatever the sizes of the set and of the messages.    *)
THEOREM KnownArrives == DownloadSpec => []KnownComes
  <1>1. DownloadInv => KnownComes
    BY DEF DownloadInv
  <1> QED BY <1>1, DownloadInductive, PTL

(* A connection never falls silent before it has brought the blocks that its *)
(* first getblocks asked for, with whatever orphans, repeated requests and   *)
(* new blocks it runs into.                                                  *)
THEOREM BatchReceived == DownloadSpec => []BatchArrives
  <1>1. DownloadInv => BatchArrives
    <2> SUFFICES ASSUME DownloadInv, Quiet PROVE have >= Min({tip, from + Limit})
      BY DEF BatchArrives
    <2>1. DownloadTypeOK /\ OrphanPart
      BY DEF DownloadInv
    <2>2. /\ tip \in Nat /\ have \in Nat /\ have <= tip /\ from \in Nat /\ from <= have /\ Limit \in Nat
          /\ orphans \subseteq 1..tip
      BY <2>1, NumFacts
    <2>3. Min({tip, from + Limit}) = IF tip <= from + Limit THEN tip ELSE from + Limit
      BY <2>2, MinOfTwo
    <2> SUFFICES ASSUME have < tip, have < from + Limit PROVE FALSE
      BY <2>2, <2>3
    <2>4. PICK r \in Requests : Located(r[1]) = from /\ r[2] = NoStop /\ Answered(r)
      BY DEF DownloadInv, FirstPart
    <2>5. Covers(r, have + 1) /\ have + 1 \in 1..tip
      BY <2>2, <2>4 DEF Covers, NoStop
    <2>6. Secured(have + 1)
      BY <2>1, <2>4, <2>5, QuietFacts DEF Answered
    <2>7. AlreadyHave(have + 1)
      BY <2>1, <2>6, QuietFacts DEF Secured
    <2> QED BY <2>1, <2>2, <2>7 DEF AlreadyHave, OrphanPart
  <1> QED BY <1>1, DownloadInductive, PTL

(* After a new block of P, L does not fall silent before it has the block    *)
(* that it missed then: the orphan's getblocks, or the equal one that        *)
(* PushGetBlocks did not repeat, covers that block.                          *)
THEOREM NewBlockBrings == DownloadSpec => []NewBlockResumes
  <1>1. DownloadInv => NewBlockResumes
    <2> SUFFICES ASSUME DownloadInv, Quiet PROVE have >= goal
      BY DEF NewBlockResumes
    <2>1. DownloadTypeOK /\ GoalPart
      BY DEF DownloadInv
    <2>2. \A n : ~UnderWay(n) /\ \A r : ~Sent(r)
      BY <2>1, QuietFacts
    <2>3. goal <= have
      BY <2>1, <2>2 DEF GoalPart
    <2> QED BY <2>1, <2>3, NumFacts
  <1> QED BY <1>1, DownloadInductive, PTL

=============================================================================
