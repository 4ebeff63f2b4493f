CONSTANTS
    Cap <- MCCap
    MaxBroadcasts <- MCMaxBroadcasts
    MaxPeerMsgs <- MCMaxPeerMsgs
    PeerStalls = FALSE
SPECIFICATION FairSpec
INVARIANT NoPanic
