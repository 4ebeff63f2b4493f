CONSTANTS
    Cap <- MCCap
    MaxBroadcasts <- MCMaxBroadcasts
    MaxPeerMsgs <- MCMaxPeerMsgs
    PeerStalls = FALSE
SPECIFICATION FairSpec
INVARIANT TypeOK
INVARIANT HandshakeOrder
INVARIANT StoppedWhenReturned
PROPERTY ShutdownCompletes
PROPERTY PhasesRefined
\* BroadcastTx calls that fill node.outgoing before Run starts the writer
\* block Run and every Stop() for good (see the node_stall_hang run).
CHECK_DEADLOCK FALSE
