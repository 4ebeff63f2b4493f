--------------------------- MODULE HandshakePhases ---------------------------
(***************************************************************************)
(* What a connection's handshake promises (spec 4.2): the connection goes *)
(* Connected -> VersionReceived -> HandshakeComplete -> Verified ->        *)
(* scored -> addresses requested -> mempool requested, each phase once,   *)
(* never before the one it follows and never undone while the node lives. *)
(* The peer's reputation gains 5 exactly when the verified peer is scored *)
(* and loses 1 on any failure, which never moves the handshake.           *)
(***************************************************************************)
EXTENDS Integers

VARIABLES
    done,   \* done[i]: phase i has been reached
    score   \* the sum of the reputation deltas reported for the peer

phaseVars == <<done, score>>

\* The phases, in the order they are reached.
NPhases == 7

\* Reaching the phase "scoreUpdated" is the +5 of the post-verification
\* gate.
ScoredPhase == 5
Reward(i) == IF i = ScoredPhase THEN 5 ELSE 0

Init ==
    /\ done = [i \in 1..NPhases |-> FALSE]
    /\ score = 0

\* The next phase is reached: it was not, and the one before it was.
Advance(i) ==
    /\ ~done[i]
    /\ i = 1 \/ done[i - 1]
    /\ done' = [done EXCEPT ![i] = TRUE]
    /\ score' = score + Reward(i)

\* A failure (dial, protocol or timeout) costs the peer a point.
Penalize ==
    /\ score' = score - 1
    /\ UNCHANGED done

Next ==
    \/ \E i \in 1..NPhases : Advance(i)
    \/ Penalize

Spec == Init /\ [][Next]_phaseVars

=============================================================================
