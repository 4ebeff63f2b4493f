CONSTANTS
    Cap <- MCCap
    MaxBroadcasts <- MCMaxBroadcasts
    MaxPeerMsgs <- MCMaxPeerMsgs
    PeerStalls = FALSE
SPECIFICATION FairSpec
PROPERTY RunTerminates
\* Even with a peer that reads, BroadcastTx calls that fill node.outgoing
\* before Run starts the writer block Run at its version send for good.
CHECK_DEADLOCK FALSE
