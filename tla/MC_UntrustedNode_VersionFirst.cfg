CONSTANTS
    Cap <- MCCap
    MaxBroadcasts <- MCMaxBroadcasts
    MaxPeerMsgs <- MCMaxPeerMsgs
    PeerStalls = FALSE
SPECIFICATION FairSpec
INVARIANT VersionFirst
\* The node can block for good before Run starts the writer (node_stall_hang).
CHECK_DEADLOCK FALSE
