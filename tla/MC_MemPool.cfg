CONSTANTS
    t1 = t1
    t2 = t2
    t3 = t3
    o1 = o1
    o2 = o2
    p1 = p1
    p2 = p2
    NoHolder = NoHolder
    Tx <- MCTx
    Outpoints <- MCOutpoints
    Spends <- MCSpends
    Peers <- MCPeers
    MaxTime <- MCMaxTime
SYMMETRY PeerSymmetry
SPECIFICATION Spec
INVARIANT TypeOK
INVARIANT IndexSound
\* Conflicting self-deadlocks on the mempool mutex (see NoSelfDeadlock):
\* the mempool really can stop.
CHECK_DEADLOCK FALSE
