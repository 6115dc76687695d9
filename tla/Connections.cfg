SPECIFICATION FairSpec
CONSTANTS
    Nodes = {n1, n2}
    Hosts = {h1}
    Openers = {open, added}
    MaxOutbound = 2
    MaxInbound = 1
    MaxRaces = 1
    NoNode = NoNode
    NoHost = NoHost
INVARIANT NodesInUseLive
INVARIANT GrantsConserved
PROPERTY InboundIsDeleted
