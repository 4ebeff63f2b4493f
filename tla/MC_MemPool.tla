----------------------------- MODULE MC_MemPool -----------------------------
(* Model-checking instance of MemPool: three transactions over two         *)
(* outpoints, so that one outpoint has two spenders and one tx spends      *)
(* both; two peers share the mempool; the clock reaches past the 3-second  *)
(* request window.                                                         *)
EXTENDS MemPool, TLC

CONSTANTS t1, t2, t3, o1, o2, p1, p2

MCTx == {t1, t2, t3}
MCOutpoints == {o1, o2}
\* t1 and t2 double-spend o1; t2 and t3 double-spend o2.
MCSpends == [h \in MCTx |-> CASE h = t1 -> {o1}
                              [] h = t2 -> {o1, o2}
                              [] h = t3 -> {o2}]
MCPeers == {p1, p2}
MCMaxTime == 5

PeerSymmetry == Permutations(MCPeers)
=============================================================================
