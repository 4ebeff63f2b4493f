---------------------------- MODULE PhasesProofs ----------------------------
(***************************************************************************)
(* A TLAPS proof that one UntrustedNode implements the handshake           *)
(* progression of HandshakePhases (PhasesRefined), for every channel      *)
(* capacity and every bound on the callers and the peer.                   *)
(*                                                                         *)
(* The flags of node.state only rise (SetFlags never lowers one), so a    *)
(* step either leaves the phases alone or completes phases.  Each step    *)
(* raises at most one flag of the chain, and only where the code has just *)
(* read the flag before it: connect() is first; a version arrives only   *)
(* while the reader runs, which is after connect(); headers verify only  *)
(* once HandshakeComplete; the score gate reads Verified; and a request  *)
(* the reader is about to send was chosen by a gate that had read the    *)
(* flag before it.  The last two facts are the invariant PInv adds to    *)
(* the type invariant.  Every score change but the +5 is a -1 that       *)
(* leaves the flags alone.                                                 *)
(***************************************************************************)
EXTENDS UntrustedNodeProofs

\* The reader runs, or Run is about to start it, only after connect().
ReaderConnected == rdPc # "NotStarted" \/ runPc = "Version" => st["connected"]

\* The request the reader is about to send was chosen by a gate of
\* check() that read the flag before the one the send raises.
PendingGate ==
    rdPc = "Send" =>
        /\ rdMsg = "getheaders" => st["versionReceived"]
        /\ rdMsg = "getaddr" => st["scoreUpdated"]
        /\ rdMsg = "mempool" => st["addressesRequested"]

\* The inductive invariant for the refinement, checked by TLC on the node
\* instance before it was proved.
PInv == TypeOK /\ ReaderConnected /\ PendingGate

\* The phases as the refinement mapping computes them.
PhaseDone == [i \in 1..Len(Chain) |-> st[Chain[i]]]

-----------------------------------------------------------------------------
(* Lemmas about the chain of flags                                         *)

\* The chain has the seven phases of HandshakePhases, each a flag.
LEMMA ChainFlags ==
    /\ Len(Chain) = Phases!NPhases
    /\ \A i \in 1..Len(Chain) : Chain[i] \in Flags
BY DEF Chain, Flags, Phases!NPhases

\* Raising flags S, of which Chain[i] is the one flag of the chain, when
\* Chain[i] is down and the flag before it is up, with the score moving
\* by the reward of phase i, is a step of the progression.
LEMMA AdvanceStep ==
    ASSUME st \in [Flags -> BOOLEAN], NEW i \in 1..Phases!NPhases,
           NEW S \in SUBSET Flags,
           \A k \in 1..Phases!NPhases : Chain[k] \in S <=> k = i,
           ~st[Chain[i]], i = 1 \/ st[Chain[i - 1]],
           st' = SetFlags(S), score' = score + Phases!Reward(i)
    PROVE  Phases!Next
<1>1. i \in 1..Len(Chain) /\ \A k \in 1..Len(Chain) : Chain[k] \in Flags
  BY ChainFlags
<1>2. ~PhaseDone[i] /\ (i = 1 \/ PhaseDone[i - 1])
  BY <1>1 DEF PhaseDone
<1>3. PhaseDone' = [PhaseDone EXCEPT ![i] = TRUE]
  <2> DEFINE Raised == [k \in 1..Len(Chain) |-> st[Chain[k]] \/ k = i]
  <2>1. \A k \in 1..Len(Chain) : st'[Chain[k]] = (st[Chain[k]] \/ k = i)
    BY <1>1, ChainFlags DEF SetFlags
  <2>2. PhaseDone' = Raised
    BY <2>1 DEF PhaseDone, Raised
  <2>3. [PhaseDone EXCEPT ![i] = TRUE] = Raised
    BY <1>1 DEF PhaseDone, Raised
  <2>. QED BY <2>2, <2>3
<1>4. Phases!Advance(i)
  BY <1>2, <1>3 DEF Phases!Advance, PhaseDone
<1>. QED BY <1>4 DEF Phases!Next

\* Raising flags whose flags of the chain are already up, with the score
\* unchanged, leaves the progression as it is.
LEMMA KeepStep ==
    ASSUME st \in [Flags -> BOOLEAN], NEW S \in SUBSET Flags,
           \A k \in 1..Phases!NPhases : Chain[k] \in S => st[Chain[k]],
           st' = SetFlags(S), score' = score
    PROVE  UNCHANGED Phases!phaseVars
BY ChainFlags DEF Phases!phaseVars, SetFlags

\* A point lost with the flags unchanged is a penalty of the progression.
LEMMA PenalizeStep ==
    ASSUME st' = st, score' = score - 1
    PROVE  Phases!Next
BY DEF Phases!Next, Phases!Penalize

\* A step that leaves the flags and the score alone is a stutter.
LEMMA QuietPhases ==
    ASSUME st' = st, score' = score
    PROVE  UNCHANGED Phases!phaseVars
BY DEF Phases!phaseVars

\* Raising the one flag Chain[i] of the chain: a step of the progression
\* if it was down, a stutter if it was up.
LEMMA RaiseStep ==
    ASSUME st \in [Flags -> BOOLEAN], score \in Int,
           NEW i \in 1..Phases!NPhases, NEW S \in SUBSET Flags,
           \A k \in 1..Phases!NPhases : Chain[k] \in S <=> k = i,
           i = 1 \/ st[Chain[i - 1]], Phases!Reward(i) = 0,
           st' = SetFlags(S), score' = score
    PROVE  [Phases!Next]_Phases!phaseVars
<1>1. CASE ~st[Chain[i]]
  <2>1. score' = score + Phases!Reward(i)
    OBVIOUS
  <2>. QED BY <1>1, <2>1, AdvanceStep
<1>2. CASE st[Chain[i]]
  <2>1. \A k \in 1..Phases!NPhases : Chain[k] \in S => st[Chain[k]]
    BY <1>2
  <2>. QED BY <2>1, KeepStep
<1>. QED BY <1>1, <1>2

-----------------------------------------------------------------------------
(* The flags only rise                                                     *)

\* SetFlags keeps every raised flag raised.
LEMMA SetFlagsKeepsUp ==
    ASSUME NEW S, NEW f \in Flags, st[f]
    PROVE  SetFlags(S)[f]
BY DEF SetFlags

\* So does the reader's send.
LEMMA AfterSendKeepsUp ==
    ASSUME NEW m, NEW f \in Flags, st[f]
    PROVE  AfterSend(m)[f]
BY SetFlagsKeepsUp DEF AfterSend

\* No step of the node lowers a flag of node.state: nothing in check(),
\* connect() or the handlers clears one, and Stop() leaves them alone.
LEMMA FlagsRise ==
    ASSUME [Next]_vars, NEW f \in Flags, st[f]
    PROVE  st'[f]
<1>1. CASE Running /\ RunConnect
  BY <1>1, SetFlagsKeepsUp DEF RunConnect, Connect
<1>2. CASE Running /\ ReaderCheck
  BY <1>2, SetFlagsKeepsUp DEF ReaderCheck
<1>3. CASE Running /\ ReaderSend
  BY <1>3, AfterSendKeepsUp DEF ReaderSend
<1>4. CASE Running /\ PeerSends
  BY <1>4, SetFlagsKeepsUp DEF PeerSends
<1>5. CASE Running /\ (\/ RunVersion \/ RunWait \/ ReaderRead
                      \/ ReaderReadError \/ ReaderStop \/ TimerCycle
                      \/ TimerStop \/ WriterStart \/ WriterRecv
                      \/ WriterWrite \/ ExtCallStop \/ ExtStop \/ BcLock
                      \/ BcSend)
  BY <1>5 DEF RunVersion, RunWait, ReaderRead, ReaderReadError, ReaderStop,
     TimerCycle, TimerStop, WriterStart, WriterRecv, WriterWrite,
     ExtCallStop, ExtStop, BcLock, BcSend, UnchangedByStop, UnchangedReader,
     UnchangedWriter
<1>6. CASE Halted \/ UNCHANGED vars
  BY <1>6 DEF Halted, vars
<1>. QED BY <1>1, <1>2, <1>3, <1>4, <1>5, <1>6 DEF Next

-----------------------------------------------------------------------------
(* The invariant                                                           *)

LEMMA InitPInv == Init => PInv
<1> SUFFICES ASSUME Init PROVE PInv
  OBVIOUS
<1>. QED BY InitType DEF Init, PInv, ReaderConnected, PendingGate

\* Every step keeps the reader after connect() and the pending request
\* behind the flag its gate read.
LEMMA PInvInductive == PInv /\ [Next]_vars => PInv'
<1> SUFFICES ASSUME PInv, [Next]_vars PROVE PInv'
  OBVIOUS
<1>1. TypeOK'
  BY ProcessInductive, StateInductive DEF PInv, TypeOK
<1>2. \A f \in Flags : st[f] => st'[f]
  BY FlagsRise
<1>3. "connected" \in Flags /\ "versionReceived" \in Flags
      /\ "scoreUpdated" \in Flags /\ "addressesRequested" \in Flags
  BY DEF Flags
<1>4. ReaderConnected' /\ PendingGate'
  <2> USE DEF PInv, ReaderConnected, PendingGate
  <2>1. CASE Running /\ RunConnect
    <3>1. CASE runPc' = "Version"
      BY <1>2, <1>3, <2>1, <3>1, SetFlagsRaises DEF RunConnect, Connect
    <3>2. CASE runPc' = "Done"
      BY <2>1, <3>2 DEF RunConnect
    <3>. QED BY <2>1, <3>1, <3>2 DEF RunConnect
  <2>2. CASE Running /\ RunVersion
    BY <2>2 DEF RunVersion
  <2>3. CASE Running /\ ReaderCheck
    BY <1>2, <1>3, <2>3 DEF ReaderCheck, UnchangedReader
  <2>4. CASE Running /\ ReaderSend
    BY <1>2, <1>3, <2>4 DEF ReaderSend, UnchangedReader
  <2>5. CASE Running /\ PeerSends
    BY <1>2, <1>3, <2>5 DEF PeerSends, UnchangedReader
  <2>6. CASE Running /\ (\/ RunWait \/ ReaderRead \/ ReaderReadError
                        \/ ReaderStop \/ TimerCycle \/ TimerStop \/ WriterStart
                        \/ WriterRecv \/ WriterWrite \/ ExtCallStop \/ ExtStop
                        \/ BcLock \/ BcSend)
    BY <2>6 DEF RunWait, ReaderRead, ReaderReadError, ReaderStop,
       TimerCycle, TimerStop, WriterStart, WriterRecv, WriterWrite,
       ExtCallStop, ExtStop, BcLock, BcSend, UnchangedByStop, UnchangedReader,
       UnchangedWriter
  <2>7. CASE Halted \/ UNCHANGED vars
    BY <2>7 DEF Halted, vars
  <2>. QED BY <2>1, <2>2, <2>3, <2>4, <2>5, <2>6, <2>7 DEF Next
<1>. QED BY <1>1, <1>4 DEF PInv

-----------------------------------------------------------------------------
(* Each step of the node is a step of the progression or a stutter        *)

\* The flags of the chain, one by one, and the reward of each phase.
LEMMA ChainAt ==
    /\ Chain[1] = "connected" /\ Chain[2] = "versionReceived"
    /\ Chain[3] = "handshakeComplete" /\ Chain[4] = "verified"
    /\ Chain[5] = "scoreUpdated" /\ Chain[6] = "addressesRequested"
    /\ Chain[7] = "memPoolRequested"
    /\ Phases!NPhases = 7
    /\ Phases!Reward(5) = 5
    /\ \A i \in {1, 2, 3, 4, 6, 7} : Phases!Reward(i) = 0
BY DEF Chain, Phases!NPhases, Phases!Reward, Phases!ScoredPhase

\* The flags S raised by a step hold exactly the flag Chain[i] of the chain.
OnlyPhase(S, i) == \A k \in 1..Phases!NPhases : Chain[k] \in S <=> k = i

LEMMA OnlyPhases ==
    /\ OnlyPhase({"connected"}, 1)
    /\ OnlyPhase({"versionReceived"}, 2)
    /\ OnlyPhase({"headersRequested", "handshakeComplete"}, 3)
    /\ OnlyPhase({"verified"}, 4)
    /\ OnlyPhase({"scoreUpdated"}, 5)
    /\ OnlyPhase({"addressesRequested"}, 6)
    /\ OnlyPhase({"memPoolRequested"}, 7)
BY ChainAt DEF OnlyPhase, Chain

\* Every step of Run, the reader, the timer, the writer and the outside
\* callers maps to a step of HandshakePhases or leaves its image alone.
LEMMA PhaseStep == PInv /\ [Next]_vars => [Phases!Next]_Phases!phaseVars
<1> SUFFICES ASSUME PInv, [Next]_vars PROVE [Phases!Next]_Phases!phaseVars
  OBVIOUS
<1>0. /\ st \in [Flags -> BOOLEAN] /\ score \in Int
      /\ {"connected"} \in SUBSET Flags /\ {"versionReceived"} \in SUBSET Flags
      /\ {"verified"} \in SUBSET Flags /\ {"scoreUpdated"} \in SUBSET Flags
      /\ \A m \in DOMAIN GateFlag : GateFlag[m] \in SUBSET Flags
  BY DEF PInv, TypeOK, StateTypeOK, Flags, GateFlag
<1>1. CASE Running /\ RunConnect
  <2>1. CASE runPc' = "Done"
    BY <2>1, <1>1, PenalizeStep DEF RunConnect
  <2>2. CASE runPc' = "Version"
    <3>1. st' = SetFlags({"connected"}) /\ score' = score
      BY <2>2, <1>1 DEF RunConnect, Connect
    <3>. QED BY <3>1, <1>0, ChainAt, OnlyPhases, RaiseStep DEF OnlyPhase
  <2>. QED BY <2>1, <2>2, <1>1 DEF RunConnect
<1>2. CASE Running /\ ReaderCheck
  <2>1. \/ st' = st /\ score' = score
        \/ /\ st["verified"] /\ ~st["scoreUpdated"]
           /\ st' = SetFlags({"scoreUpdated"}) /\ score' = score + 5
    BY <1>2 DEF ReaderCheck
  <2>. QED BY <2>1, <1>0, ChainAt, OnlyPhases, AdvanceStep, QuietPhases
           DEF OnlyPhase
<1>3. CASE Running /\ ReaderSend
  <2>1. st' = AfterSend(rdMsg) /\ score' = score /\ rdPc = "Send"
    BY <1>3 DEF ReaderSend
  <2>2. CASE rdMsg = "getheaders"
    <3>1. st' = SetFlags({"headersRequested", "handshakeComplete"})
          /\ st["versionReceived"]
      BY <2>1, <2>2 DEF AfterSend, GateFlag, PInv, PendingGate
    <3>2. {"headersRequested", "handshakeComplete"} \in SUBSET Flags
      BY DEF Flags
    <3>3. /\ 3 \in 1..Phases!NPhases /\ Phases!Reward(3) = 0
          /\ st[Chain[3 - 1]] /\ OnlyPhase({"headersRequested", "handshakeComplete"}, 3)
      BY <3>1, ChainAt, OnlyPhases
    <3>. QED BY <3>1, <3>2, <3>3, <2>1, <1>0, RaiseStep DEF OnlyPhase
  <2>3. CASE rdMsg = "getaddr"
    <3>1. st' = SetFlags({"addressesRequested"}) /\ st["scoreUpdated"]
      BY <2>1, <2>3 DEF AfterSend, GateFlag, PInv, PendingGate
    <3>2. {"addressesRequested"} \in SUBSET Flags
      BY DEF Flags
    <3>3. /\ 6 \in 1..Phases!NPhases /\ Phases!Reward(6) = 0
          /\ st[Chain[6 - 1]] /\ OnlyPhase({"addressesRequested"}, 6)
      BY <3>1, ChainAt, OnlyPhases
    <3>. QED BY <3>1, <3>2, <3>3, <2>1, <1>0, RaiseStep DEF OnlyPhase
  <2>4. CASE rdMsg = "mempool"
    <3>1. st' = SetFlags({"memPoolRequested"}) /\ st["addressesRequested"]
      BY <2>1, <2>4 DEF AfterSend, GateFlag, PInv, PendingGate
    <3>2. {"memPoolRequested"} \in SUBSET Flags
      BY DEF Flags
    <3>3. /\ 7 \in 1..Phases!NPhases /\ Phases!Reward(7) = 0
          /\ st[Chain[7 - 1]] /\ OnlyPhase({"memPoolRequested"}, 7)
      BY <3>1, ChainAt, OnlyPhases
    <3>. QED BY <3>1, <3>2, <3>3, <2>1, <1>0, RaiseStep DEF OnlyPhase
  <2>5. CASE rdMsg \notin {"getheaders", "getaddr", "mempool"}
    <3>1. st' = st
      BY <2>1, <2>5 DEF AfterSend, GateFlag
    <3>. QED BY <3>1, <2>1, QuietPhases
  <2>. QED BY <2>2, <2>3, <2>4, <2>5
<1>4. CASE Running /\ PeerSends
  <2>1. \/ st' = SetFlags({"versionReceived"}) /\ score' = score
        \/ st["handshakeComplete"] /\ st' = SetFlags({"verified"})
           /\ score' = score
        \/ st' = st /\ score' = score
        \/ st' = st /\ score' = score - 1
    BY <1>4 DEF PeerSends
  <2>2. st["connected"]
    BY <1>4 DEF PeerSends, PInv, ReaderConnected
  <2>. QED BY <2>1, <2>2, <1>0, ChainAt, OnlyPhases, RaiseStep, QuietPhases,
              PenalizeStep DEF OnlyPhase
<1>5. CASE Running /\ TimerCycle
  BY <1>5, PenalizeStep, QuietPhases DEF TimerCycle
<1>6. CASE Running /\ (\/ RunVersion \/ RunWait \/ ReaderRead
                      \/ ReaderReadError \/ ReaderStop \/ TimerStop
                      \/ WriterStart \/ WriterRecv \/ WriterWrite
                      \/ ExtCallStop \/ ExtStop \/ BcLock \/ BcSend)
  <2>1. st' = st /\ score' = score
    BY <1>6 DEF RunVersion, RunWait, ReaderRead, ReaderReadError,
       ReaderStop, TimerStop, WriterStart, WriterRecv, WriterWrite,
       ExtCallStop, ExtStop, BcLock, BcSend, UnchangedByStop,
       UnchangedReader, UnchangedWriter
  <2>. QED BY <2>1, QuietPhases
<1>7. CASE Halted \/ UNCHANGED vars
  BY <1>7, QuietPhases DEF Halted, vars
<1>. QED BY <1>1, <1>2, <1>3, <1>4, <1>5, <1>6, <1>7 DEF Next

-----------------------------------------------------------------------------
(* The refinement                                                          *)

\* A new node has reached no phase and has score 0.
LEMMA InitPhases == Init => Phases!Init
<1> SUFFICES ASSUME Init PROVE Phases!Init
  OBVIOUS
<1>1. \A i \in 1..Len(Chain) : st[Chain[i]] = FALSE
  BY ChainFlags DEF Init
<1>2. PhaseDone = [i \in 1..Phases!NPhases |-> FALSE]
  BY <1>1, ChainFlags DEF PhaseDone
<1>3. score = 0
  BY DEF Init
<1>. QED BY <1>2, <1>3 DEF Phases!Init, PhaseDone

\* PhasesRefined (checked by the node run), for every channel capacity and
\* every bound: whatever the peer sends, however check(), the handlers,
\* the timer and Stop() interleave, node.state's flags are raised in the
\* order of spec 4.2, each once and never cleared; the peer gains 5 only
\* when the score gate raises ScoreUpdated after Verified, and every other
\* change of its score is a -1 that moves no flag.
THEOREM PhasesRefinement == Spec => PhasesRefined
<1>1. Init => PInv /\ Phases!Init
  BY InitPInv, InitPhases
<1>2. PInv /\ [Next]_vars => PInv' /\ [Phases!Next]_Phases!phaseVars
  BY PInvInductive, PhaseStep
<1>. QED BY <1>1, <1>2, PTL DEF Spec, PhasesRefined, Phases!Spec

-----------------------------------------------------------------------------
(* The score bump                                                          *)

\* In a step of the progression the score rises only when phase 5, the
\* score bump, is reached after phase 4.
LEMMA RiseIsBump ==
    ASSUME score \in Int, [Phases!Next]_Phases!phaseVars, score' > score
    PROVE  ~PhaseDone[5] /\ PhaseDone'[5] /\ PhaseDone[4]
<1>1. CASE Phases!Penalize
  BY <1>1 DEF Phases!Penalize
<1>2. CASE UNCHANGED Phases!phaseVars
  BY <1>2 DEF Phases!phaseVars
<1>3. ASSUME NEW i \in 1..Phases!NPhases, Phases!Advance(i)
      PROVE  ~PhaseDone[5] /\ PhaseDone'[5] /\ PhaseDone[4]
  <2>1. i = 5
    BY <1>3, ChainAt DEF Phases!Advance, Phases!Reward, Phases!ScoredPhase
  <2>2. 5 \in 1..Len(Chain) /\ 4 \in 1..Len(Chain)
    BY ChainFlags, ChainAt
  <2>. QED BY <1>3, <2>1, <2>2 DEF Phases!Advance, PhaseDone
<1>. QED BY <1>1, <1>2, <1>3 DEF Phases!Next

\* The score gate of check() (untrusted_node.go:221-224) is the only place
\* the peer's score rises: whatever the handlers, the timer and Stop() do,
\* a step that raises the score is the one that raises ScoreUpdated, and
\* it does so only once Verified is set -- so the +5 is reported once per
\* connection, and never for an unverified peer.
THEOREM ScoreRisesOnlyAtGate ==
    Spec => [][score' > score =>
                  /\ st["verified"] /\ ~st["scoreUpdated"]
                  /\ st'["scoreUpdated"]]_vars
<1>1. ASSUME PInv, [Next]_vars, score' > score
      PROVE  st["verified"] /\ ~st["scoreUpdated"] /\ st'["scoreUpdated"]
  <2>1. score \in Int
    BY <1>1 DEF PInv, TypeOK, StateTypeOK
  <2>2. [Phases!Next]_Phases!phaseVars
    BY <1>1, PhaseStep
  <2>3. ~PhaseDone[5] /\ PhaseDone'[5] /\ PhaseDone[4]
    BY <1>1, <2>1, <2>2, RiseIsBump
  <2>4. 5 \in 1..Len(Chain) /\ 4 \in 1..Len(Chain)
    BY ChainFlags, ChainAt
  <2>. QED BY <2>3, <2>4, ChainAt DEF PhaseDone
<1>2. Init => PInv
  BY InitPInv
<1>3. PInv /\ [Next]_vars => PInv'
  BY PInvInductive
<1>. QED BY <1>1, <1>2, <1>3, PTL DEF Spec

=============================================================================
