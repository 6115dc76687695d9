---------------------------- MODULE Connections -----------------------------
(***************************************************************************)
(* The life of a CNode in net.cpp: the socket thread that accepts, closes  *)
(* and deletes nodes, the message thread that works on a copy of vNodes,   *)
(* and the threads that open connections and hand their grant of           *)
(* semOutbound to the node.                                                *)
(*                                                                         *)
(* What happens under cs_vNodes is one step, except where another thread   *)
(* touches the same node without that lock: OpenNetworkConnection uses its *)
(* pointer after the node is already in vNodes, and the flag fHaveGrant of *)
(* a node's grant has no lock at all, so that each access to it is a step. *)
(* Sockets, buffers and bans are left out; all that they can do to a node  *)
(* is to set fDisconnect.  CNodes are slots of memory that may be used     *)
(* again once deleted.                                                     *)
(***************************************************************************)
EXTENDS Integers, FiniteSets

CONSTANTS
    Nodes,        \* slots for CNode objects
    Hosts,        \* services one can connect to
    Openers,      \* threads that call OpenNetworkConnection
    MaxOutbound,  \* initial value of semOutbound
    MaxInbound,   \* -maxconnections less MAX_OUTBOUND_CONNECTIONS
    MaxRaces,     \* bound: races on a grant after which no opener risks another
    NoNode, NoHost

ASSUME ConnectionsAssumption ==
    /\ NoNode \notin Nodes /\ NoHost \notin Hosts
    /\ IsFiniteSet(Nodes) /\ IsFiniteSet(Openers)
    /\ MaxOutbound \in Nat /\ MaxInbound \in Nat /\ MaxRaces \in Nat

VARIABLES
    alive,               \* allocated nodes
    addr,                \* node -> the service it is connected to
    vNodes,              \* connected nodes
    vNodesDisconnected,  \* removed from vNodes and not deleted yet
    nRefCount,           \* node -> reference count
    fDisconnect, fInbound, fNetworkNode,  \* the nodes with that flag set
    grantOutbound,       \* nodes that hold a grant of semOutbound
    semOutbound,         \* free outbound slots
    races,               \* history: how often two threads met on the grant of one node
    sockPc,              \* where the socket thread is
    closing,             \* the node that it is removing
    sockCopy, msgCopy,   \* vNodesCopy of the socket and the message thread
    msgPc,               \* where the message thread is
    openPc,              \* where each opening thread is
    openHost, openNode   \* the service it chose and the node it got

nodeVars == <<alive, addr, vNodes, vNodesDisconnected, nRefCount, fDisconnect,
              fInbound, fNetworkNode, grantOutbound>>
sockVars == <<sockPc, closing, sockCopy>>
msgVars == <<msgPc, msgCopy>>
openVars == <<openPc, openHost, openNode>>
grantVars == <<semOutbound, races>>
vars == <<nodeVars, grantVars, sockVars, msgVars, openVars>>

Init ==
    /\ alive = {} /\ vNodes = {} /\ vNodesDisconnected = {}
    /\ addr = [n \in Nodes |-> NoHost]
    /\ nRefCount = [n \in Nodes |-> 0]
    /\ fDisconnect = {} /\ fInbound = {} /\ fNetworkNode = {}
    /\ grantOutbound = {} /\ semOutbound = MaxOutbound /\ races = 0
    /\ sockPc = "start" /\ closing = NoNode /\ sockCopy = {}
    /\ msgPc = "idle" /\ msgCopy = {}
    /\ openPc = [t \in Openers |-> "idle"]
    /\ openHost = [t \in Openers |-> NoHost]
    /\ openNode = [t \in Openers |-> NoNode]

-----------------------------------------------------------------------------
(* The socket thread holds cs_vNodes from the first node that it looks at    *)
(* until it has deleted what can be deleted; every other use of the lock is  *)
(* a single step.                                                            *)
LockFree == sockPc \notin {"disconnect", "posting", "clearing", "closing"}

(* AddRef and Release of every node of S.                                    *)
AddRef(S) == nRefCount' = [n \in Nodes |-> nRefCount[n] + IF n \in S THEN 1 ELSE 0]
Release(S) == nRefCount' = [n \in Nodes |-> nRefCount[n] - IF n \in S THEN 1 ELSE 0]

(* CSemaphoreGrant::Release reads fHaveGrant, posts to semOutbound and then  *)
(* clears fHaveGrant; MoveTo sets it after that.  The opening threads that   *)
(* are in there for node n, and whether the socket thread is.                *)
OpenersInside(n) ==
    {t \in Openers : openPc[t] \in {"posting", "clearing", "setting"} /\ openNode[t] = n}
SocketInside(n) == sockPc \in {"posting", "clearing"} /\ closing = n

(* A new CNode, with the reference that the creator takes, enters vNodes.    *)
NewNode(n, h) ==
    /\ n \in Nodes \ alive
    /\ alive' = alive \cup {n}
    /\ addr' = [addr EXCEPT ![n] = h]
    /\ nRefCount' = [nRefCount EXCEPT ![n] = 1]
    /\ vNodes' = vNodes \cup {n}
    /\ fDisconnect' = fDisconnect \ {n}
    /\ fNetworkNode' = fNetworkNode \ {n}
    /\ UNCHANGED <<vNodesDisconnected, grantOutbound>>

-----------------------------------------------------------------------------
(* ThreadSocketHandler2.                                                     *)

EnterDisconnect ==
    /\ sockPc = "start" /\ sockPc' = "disconnect"
    /\ UNCHANGED <<nodeVars, grantVars, closing, sockCopy, msgVars, openVars>>

(* A node to disconnect.  The second condition of the code, no reference and *)
(* nothing to send or receive, is that of a node without users.              *)
ToDisconnect(n) == n \in vNodes /\ (n \in fDisconnect \/ nRefCount[n] <= 0)

(* It leaves vNodes, and its grant, if it has one, is to be released ...     *)
RemoveNode(n) ==
    /\ sockPc = "disconnect" /\ ToDisconnect(n)
    /\ vNodes' = vNodes \ {n}
    /\ sockPc' = IF n \in grantOutbound THEN "posting" ELSE "closing"
    /\ closing' = n
    /\ races' = races + IF n \in grantOutbound /\ OpenersInside(n) # {} THEN 1 ELSE 0
    /\ UNCHANGED <<alive, addr, vNodesDisconnected, nRefCount, fDisconnect, fInbound,
                   fNetworkNode, grantOutbound, semOutbound, sockCopy, msgVars, openVars>>

PostGrant ==
    /\ sockPc = "posting"
    /\ semOutbound' = semOutbound + 1
    /\ sockPc' = "clearing"
    /\ UNCHANGED <<nodeVars, races, closing, sockCopy, msgVars, openVars>>

ClearGrant ==
    /\ sockPc = "clearing"
    /\ grantOutbound' = grantOutbound \ {closing}
    /\ sockPc' = "closing"
    /\ UNCHANGED <<alive, addr, vNodes, vNodesDisconnected, nRefCount, fDisconnect, fInbound,
                   fNetworkNode, grantVars, closing, sockCopy, msgVars, openVars>>

(* Mutant: the reference of the creator is released for outbound nodes only. *)
CloseNodeOutboundOnly ==
    /\ sockPc = "closing"
    /\ fDisconnect' = fDisconnect \cup {closing}
    /\ Release({closing} \cap fNetworkNode)
    /\ vNodesDisconnected' = vNodesDisconnected \cup {closing}
    /\ sockPc' = "disconnect" /\ closing' = NoNode
    /\ UNCHANGED <<alive, addr, vNodes, fInbound, fNetworkNode, grantOutbound, grantVars,
                   sockCopy, msgVars, openVars>>

(* ... its socket is closed and, for a network node, the reference of its    *)
(* creator released.                                                         *)
CloseNode ==
    /\ sockPc = "closing"
    /\ fDisconnect' = fDisconnect \cup {closing}
    /\ Release({closing} \cap (fNetworkNode \cup fInbound))
    /\ vNodesDisconnected' = vNodesDisconnected \cup {closing}
    /\ sockPc' = "disconnect" /\ closing' = NoNode
    /\ UNCHANGED <<alive, addr, vNodes, fInbound, fNetworkNode, grantOutbound, grantVars,
                   sockCopy, msgVars, openVars>>

(* The disconnected nodes that nobody refers to are deleted, and with them   *)
(* any grant that they still hold.  Every pointer that an opening thread has *)
(* to one of them dangles from then on.                                      *)
Deletable == {n \in vNodesDisconnected : nRefCount[n] <= 0}

DeleteNodes ==
    /\ sockPc = "disconnect" /\ \A n \in vNodes : ~ToDisconnect(n)
    /\ alive' = alive \ Deletable
    /\ vNodesDisconnected' = vNodesDisconnected \ Deletable
    /\ grantOutbound' = grantOutbound \ Deletable
    /\ semOutbound' = semOutbound + Cardinality(grantOutbound \cap Deletable)
    /\ openNode' = [t \in Openers |-> IF openNode[t] \in Deletable THEN NoNode ELSE openNode[t]]
    /\ sockPc' = "accept"
    /\ UNCHANGED <<addr, vNodes, nRefCount, fDisconnect, fInbound, fNetworkNode, races, closing,
                   sockCopy, msgVars, openPc, openHost>>

AcceptConnection(n, h) ==
    /\ sockPc = "accept"
    /\ Cardinality(vNodes \cap fInbound) < MaxInbound
    /\ NewNode(n, h)
    /\ fInbound' = fInbound \cup {n}
    /\ UNCHANGED <<grantVars, sockVars, msgVars, openVars>>

ServiceSockets ==
    /\ sockPc = "accept"
    /\ sockCopy' = vNodes /\ AddRef(vNodes)
    /\ sockPc' = "service"
    /\ UNCHANGED <<alive, addr, vNodes, vNodesDisconnected, fDisconnect, fInbound, fNetworkNode,
                   grantOutbound, grantVars, closing, msgVars, openVars>>

EndOfLoop ==
    /\ sockPc = "service"
    /\ Release(sockCopy) /\ sockCopy' = {}
    /\ sockPc' = "start"
    /\ UNCHANGED <<alive, addr, vNodes, vNodesDisconnected, fDisconnect, fInbound, fNetworkNode,
                   grantOutbound, grantVars, closing, msgVars, openVars>>

(* A connection ends: the socket thread met an error or an idle peer, the    *)
(* message thread a peer that misbehaves, or a user asked for it.            *)
CloseSocketDisconnect(n) ==
    /\ n \in vNodes \ fDisconnect
    /\ n \in msgCopy \/ LockFree
    /\ fDisconnect' = fDisconnect \cup {n}
    /\ UNCHANGED <<alive, addr, vNodes, vNodesDisconnected, nRefCount, fInbound, fNetworkNode,
                   grantOutbound, grantVars, sockVars, msgVars, openVars>>

-----------------------------------------------------------------------------
(* ThreadMessageHandler2.                                                    *)

(* Mutant: the copy is taken without references.                             *)
PollNodesNoRef ==
    /\ msgPc = "idle" /\ LockFree
    /\ msgCopy' = vNodes /\ UNCHANGED nRefCount
    /\ msgPc' = "handle"
    /\ UNCHANGED <<alive, addr, vNodes, vNodesDisconnected, fDisconnect, fInbound, fNetworkNode,
                   grantOutbound, grantVars, sockVars, openVars>>

PollNodes ==
    /\ msgPc = "idle" /\ LockFree
    /\ msgCopy' = vNodes /\ AddRef(vNodes)
    /\ msgPc' = "handle"
    /\ UNCHANGED <<alive, addr, vNodes, vNodesDisconnected, fDisconnect, fInbound, fNetworkNode,
                   grantOutbound, grantVars, sockVars, openVars>>

EndOfPoll ==
    /\ msgPc = "handle" /\ LockFree
    /\ Release(msgCopy) /\ msgCopy' = {}
    /\ msgPc' = "idle"
    /\ UNCHANGED <<alive, addr, vNodes, vNodesDisconnected, fDisconnect, fInbound, fNetworkNode,
                   grantOutbound, grantVars, sockVars, openVars>>

-----------------------------------------------------------------------------
(* OpenNetworkConnection and ConnectNode, as ThreadOpenConnections2 and      *)
(* ThreadOpenAddedConnections2 call them.                                    *)

Go(t, pc, h, n) ==
    /\ openPc' = [openPc EXCEPT ![t] = pc]
    /\ openHost' = [openHost EXCEPT ![t] = h]
    /\ openNode' = [openNode EXCEPT ![t] = n]

HasGrant(t) == openPc[t] \in {"granted", "connect", "found", "dial", "made", "posting",
                              "clearing", "setting", "undefined"}

AcquireGrant(t) ==
    /\ openPc[t] = "idle" /\ semOutbound > 0
    /\ semOutbound' = semOutbound - 1
    /\ Go(t, "granted", NoHost, NoNode)
    /\ UNCHANGED <<nodeVars, races, sockVars, msgVars>>

(* No address to try, one that is connected, or a connection refused: the    *)
(* grant of the thread is released when it goes out of scope.                *)
GiveUp(t) ==
    /\ openPc[t] \in {"granted", "dial"}
    /\ semOutbound' = semOutbound + 1
    /\ Go(t, "idle", NoHost, NoNode)
    /\ UNCHANGED <<nodeVars, races, sockVars, msgVars>>

ChooseAddress(t, h) ==
    /\ openPc[t] = "granted" /\ LockFree
    /\ \A n \in vNodes : addr[n] # h
    /\ Go(t, "connect", h, NoNode)
    /\ UNCHANGED <<nodeVars, grantVars, sockVars, msgVars>>

(* FindNode(CService) also finds an inbound node, if the peer dialled from   *)
(* the port on which it listens; most do not.  The pointer is returned       *)
(* without a reference, and the lock is free again.                          *)
Connected(h) == {n \in vNodes : addr[n] = h}

FindNode(t) ==
    /\ openPc[t] = "connect" /\ LockFree
    /\ \/ \E n \in Connected(openHost[t]) : Go(t, "found", openHost[t], n)
       \/ Connected(openHost[t]) \subseteq fInbound /\ Go(t, "dial", openHost[t], NoNode)
    /\ UNCHANGED <<nodeVars, grantVars, sockVars, msgVars>>

RefFound(t) ==
    /\ openPc[t] = "found" /\ openNode[t] # NoNode
    /\ AddRef({openNode[t]})
    /\ Go(t, "made", NoHost, openNode[t])
    /\ UNCHANGED <<alive, addr, vNodes, vNodesDisconnected, fDisconnect, fInbound, fNetworkNode,
                   grantOutbound, grantVars, sockVars, msgVars>>

(* The node was deleted in between, or another thread changes its count at   *)
(* the same time: what AddRef, without the lock, then does is undefined, and *)
(* the thread is not followed any further.                                   *)
RefUndefined(t) ==
    /\ openPc[t] = "found"
    /\ Go(t, "undefined", NoHost, NoNode)
    /\ UNCHANGED <<nodeVars, grantVars, sockVars, msgVars>>

ConnectNode(t, n) ==
    /\ openPc[t] = "dial" /\ LockFree
    /\ NewNode(n, openHost[t])
    /\ fInbound' = fInbound \ {n}
    /\ Go(t, "made", NoHost, n)
    /\ UNCHANGED <<grantVars, sockVars, msgVars>>

(* Mutant: MoveTo does not release the grant that the node already has.      *)
EnterGrantOverwrite(t) ==
    /\ openPc[t] = "made"
    /\ Go(t, "setting", NoHost, openNode[t])
    /\ UNCHANGED <<nodeVars, grantVars, sockVars, msgVars>>

(* grantOutbound->MoveTo, first the Release of the grant of the node.  Each  *)
(* race may multiply a slot, which MaxRaces bounds.                          *)
EnterGrant(t) ==
    LET n == openNode[t]
        other == OpenersInside(n) # {} \/ SocketInside(n)
    IN /\ openPc[t] = "made"
       /\ races < MaxRaces \/ (~other /\ n \notin grantOutbound)
       /\ races' = races + IF other THEN 1 ELSE 0
       /\ Go(t, IF n \in grantOutbound THEN "posting" ELSE "setting", NoHost, n)
       /\ UNCHANGED <<nodeVars, semOutbound, sockVars, msgVars>>

PostFound(t) ==
    /\ openPc[t] = "posting"
    /\ semOutbound' = semOutbound + 1
    /\ Go(t, "clearing", NoHost, openNode[t])
    /\ UNCHANGED <<nodeVars, races, sockVars, msgVars>>

ClearFound(t) ==
    /\ openPc[t] = "clearing"
    /\ grantOutbound' = grantOutbound \ {openNode[t]}
    /\ Go(t, "setting", NoHost, openNode[t])
    /\ UNCHANGED <<alive, addr, vNodes, vNodesDisconnected, nRefCount, fDisconnect, fInbound,
                   fNetworkNode, grantVars, sockVars, msgVars>>

(* ... then the node gets the grant of the thread.                           *)
MoveTo(t) ==
    /\ openPc[t] = "setting"
    /\ grantOutbound' = grantOutbound \cup {openNode[t]}
    /\ Go(t, "moved", NoHost, openNode[t])
    /\ UNCHANGED <<alive, addr, vNodes, vNodesDisconnected, nRefCount, fDisconnect, fInbound,
                   fNetworkNode, grantVars, sockVars, msgVars>>

SetNetworkNode(t) ==
    /\ openPc[t] = "moved"
    /\ fNetworkNode' = fNetworkNode \cup {openNode[t]}
    /\ Go(t, "idle", NoHost, NoNode)
    /\ UNCHANGED <<alive, addr, vNodes, vNodesDisconnected, nRefCount, fDisconnect, fInbound,
                   grantOutbound, grantVars, sockVars, msgVars>>

-----------------------------------------------------------------------------
SocketThread ==
    \/ EnterDisconnect \/ PostGrant \/ ClearGrant \/ CloseNode \/ DeleteNodes
    \/ ServiceSockets \/ EndOfLoop
    \/ \E n \in Nodes : RemoveNode(n)

MessageThread == PollNodes \/ EndOfPoll

Opener(t) ==
    \/ AcquireGrant(t) \/ GiveUp(t) \/ FindNode(t) \/ RefFound(t) \/ RefUndefined(t)
    \/ EnterGrant(t) \/ PostFound(t) \/ ClearFound(t) \/ MoveTo(t) \/ SetNetworkNode(t)
    \/ \E h \in Hosts : ChooseAddress(t, h)
    \/ \E n \in Nodes : ConnectNode(t, n)

Next ==
    \/ SocketThread \/ MessageThread
    \/ \E t \in Openers : Opener(t)
    \/ \E n \in Nodes, h \in Hosts : AcceptConnection(n, h)
    \/ \E n \in Nodes : CloseSocketDisconnect(n)

Spec == Init /\ [][Next]_vars

(* Both threads loop for ever.  The lock is free most of the time (the       *)
(* socket thread sleeps outside of it), so that the message thread gets it.  *)
FairSpec == Spec /\ WF_vars(SocketThread) /\ SF_vars(MessageThread)

-----------------------------------------------------------------------------
(* Properties.                                                               *)

(* The openers that hold node n with the reference they took for it.         *)
WithNode == {"made", "posting", "clearing", "setting", "moved"}
Holding(n) == {t \in Openers : openPc[t] \in WithNode /\ openNode[t] = n}

(* Types of the node tables and of the threads' positions.                   *)
TypeOK ==
    /\ alive \subseteq Nodes /\ vNodes \subseteq Nodes /\ vNodesDisconnected \subseteq Nodes
    /\ addr \in [Nodes -> Hosts \cup {NoHost}]
    /\ nRefCount \in [Nodes -> Int]
    /\ fDisconnect \subseteq Nodes /\ fInbound \subseteq Nodes /\ fNetworkNode \subseteq Nodes
    /\ grantOutbound \subseteq Nodes /\ semOutbound \in Nat /\ races \in Nat
    /\ sockPc \in {"start", "disconnect", "posting", "clearing", "closing", "accept", "service"}
    /\ closing \in Nodes \cup {NoNode} /\ sockCopy \subseteq Nodes
    /\ msgPc \in {"idle", "handle"} /\ msgCopy \subseteq Nodes
    /\ openPc \in [Openers -> {"idle", "granted", "connect", "found", "dial", "undefined"}
                                \cup WithNode]
    /\ openHost \in [Openers -> Hosts \cup {NoHost}]
    /\ openNode \in [Openers -> Nodes \cup {NoNode}]

(* "wait until threads are done using it": a node is not deleted while it is *)
(* connected, in a copy of the socket or the message thread, or with an      *)
(* opener that has a reference to it.  The one use that this leaves out is   *)
(* that of ConnectNode between FindNode and AddRef (RefUndefined).           *)
NodesInUseLive ==
    /\ vNodes \cup vNodesDisconnected \cup sockCopy \cup msgCopy \subseteq alive
    /\ \A t \in Openers : openPc[t] \in WithNode => openNode[t] \in alive

(* The grants that are posted already and whose flag is not cleared yet.     *)
Posted == {n \in Nodes : (sockPc = "clearing" /\ closing = n)
                         \/ \E t \in OpenersInside(n) : openPc[t] = "clearing"}

(* Outbound slots are neither lost nor multiplied: each one is free, with a  *)
(* thread that is connecting, or with one node; unless two threads have been *)
(* inside Release or MoveTo of the grant of one node at the same time.       *)
GrantsConserved ==
    races = 0 => semOutbound + Cardinality(grantOutbound \ Posted)
                 + Cardinality({t \in Openers : HasGrant(t)}) = MaxOutbound

(* A peer that connected to us and is disconnected is deleted in the end, if *)
(* no opener has found its node and taken it for one of its own.             *)
InboundIsDeleted ==
    \A n \in Nodes : (n \in fInbound /\ n \in fDisconnect) ~>
                         (n \notin alive \/ n \in fNetworkNode \/ Holding(n) # {})

(* "release outbound grant (if any)": a node that has left vNodes gives its   *)
(* outbound slot back, if not at once then when it is deleted.  It does not  *)
(* when it is removed before OpenNetworkConnection has set fNetworkNode.     *)
GrantComesBack ==
    \A n \in Nodes : (n \in grantOutbound /\ n \notin vNodes) ~> n \notin grantOutbound

=============================================================================
