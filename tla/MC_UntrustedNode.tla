-------------------------- MODULE MC_UntrustedNode --------------------------
(* Model-checking instance of UntrustedNode.  A channel of 2 slots stands  *)
(* for the 100 of the code: it fills with the handshake messages alone,   *)
(* or with BroadcastTx calls alone.  As many BroadcastTx calls as slots,  *)
(* so that the callers can fill the channel before Run starts the writer, *)
(* and a peer that sends up to 3 messages (enough for version, headers    *)
(* and one more).                                                          *)
EXTENDS UntrustedNode

MCCap == 2
MCMaxBroadcasts == 2
MCMaxPeerMsgs == 3
=============================================================================
