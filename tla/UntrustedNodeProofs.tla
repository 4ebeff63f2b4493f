------------------------- MODULE UntrustedNodeProofs -------------------------
(***************************************************************************)
(* TLAPS proofs about one UntrustedNode: the type invariant, and that Run  *)
(* returns after a connection only once Stop() has closed the channel and *)
(* the connection (StoppedWhenReturned), for every channel capacity and   *)
(* every bound on the callers and the peer.                                *)
(***************************************************************************)
EXTENDS UntrustedNode, TLAPS

USE CapAssumption, BoundsAssumption, PeerStallsAssumption

-----------------------------------------------------------------------------
(* Lemmas about the helpers                                                *)

\* A send on node.outgoing keeps the channel a sequence of messages within
\* its capacity.
LEMMA SendKeepsChannel ==
    ASSUME outgoing \in Seq(Msgs), Len(outgoing) <= Cap, NEW m \in Msgs, Send(m)
    PROVE  outgoing' \in Seq(Msgs) /\ Len(outgoing') <= Cap
BY DEF Send

\* A send either leaves the process running as it was or panics on the
\* closed channel.
LEMMA SendPanics ==
    ASSUME NEW m, Send(m)
    PROVE  panicked' \in {panicked, "sendOnClosedChannel"}
BY DEF Send

\* SetFlags only raises flags.
LEMMA SetFlagsType ==
    ASSUME st \in [Flags -> BOOLEAN], NEW S \in SUBSET Flags
    PROVE  SetFlags(S) \in [Flags -> BOOLEAN]
BY DEF SetFlags

\* The flags after a send of the reader are flags.
LEMMA AfterSendType ==
    ASSUME st \in [Flags -> BOOLEAN], NEW m
    PROVE  AfterSend(m) \in [Flags -> BOOLEAN]
<1>1. \A g \in DOMAIN GateFlag : GateFlag[g] \in SUBSET Flags
  BY DEF GateFlag, Flags
<1>2. CASE m \in DOMAIN GateFlag
  BY <1>1, <1>2, SetFlagsType DEF AfterSend
<1>3. CASE m \notin DOMAIN GateFlag
  BY <1>3 DEF AfterSend
<1>4. QED
  BY <1>2, <1>3

-----------------------------------------------------------------------------
(* Type correctness                                                        *)

\* Every step keeps the program counters, the mutex, the socket and the
\* panic within their values.
LEMMA ProcessInductive == TypeOK /\ [Next]_vars => ProcessTypeOK'
<1> SUFFICES ASSUME ProcessTypeOK, [Next]_vars PROVE ProcessTypeOK'
  BY DEF TypeOK
<1> USE DEF ProcessTypeOK
<1>1. CASE RunConnect
  BY <1>1 DEF RunConnect, Connect
<1>2. CASE RunVersion
  BY <1>2, SendPanics DEF RunVersion
<1>3. CASE RunWait
  BY <1>3 DEF RunWait
<1>4. CASE ReaderCheck
  BY <1>4 DEF ReaderCheck, UnchangedReader
<1>5. CASE ReaderSend
  BY <1>5, SendPanics DEF ReaderSend, UnchangedReader
<1>6. CASE ReaderRead
  BY <1>6 DEF ReaderRead, UnchangedReader
<1>7. CASE ReaderReadError
  BY <1>7 DEF ReaderReadError, UnchangedReader
<1>8. CASE ReaderStop
  BY <1>8 DEF ReaderStop, StopBody, Disconnect, UnchangedByStop
<1>9. CASE PeerSends
  BY <1>9 DEF PeerSends, UnchangedReader
<1>10. CASE TimerCycle
  BY <1>10 DEF TimerCycle
<1>11. CASE TimerStop
  BY <1>11 DEF TimerStop, StopBody, Disconnect, UnchangedByStop
<1>12. CASE WriterStart
  BY <1>12 DEF WriterStart, UnchangedWriter
<1>13. CASE WriterRecv
  BY <1>13 DEF WriterRecv, UnchangedWriter
<1>14. CASE WriterWrite
  BY <1>14 DEF WriterWrite, UnchangedWriter
<1>15. CASE ExtCallStop
  BY <1>15 DEF ExtCallStop
<1>16. CASE ExtStop
  BY <1>16 DEF ExtStop, StopBody, Disconnect, UnchangedByStop
<1>17. CASE BcLock
  BY <1>17 DEF BcLock
<1>18. CASE BcSend
  BY <1>18, SendPanics DEF BcSend
<1>19. CASE Halted \/ UNCHANGED vars
  BY <1>19 DEF Halted, vars
<1>20. QED
  BY <1>1, <1>2, <1>3, <1>4, <1>5, <1>6, <1>7, <1>8, <1>9, <1>10, <1>11,
     <1>12, <1>13, <1>14, <1>15, <1>16, <1>17, <1>18, <1>19 DEF Next

\* Every step keeps the messages, flags, counters and channel of their
\* kinds, and the channel within its capacity.
LEMMA StateInductive == TypeOK /\ [Next]_vars => StateTypeOK'
<1> SUFFICES ASSUME StateTypeOK, [Next]_vars PROVE StateTypeOK'
  BY DEF TypeOK
<1> USE DEF StateTypeOK
<1>1. CASE RunConnect
  <2>1. CASE runPc' = "Done"
    <3>1. score' = score - 1 /\ active' = FALSE /\ UNCHANGED <<conn, st>>
      BY <1>1, <2>1 DEF RunConnect
    <3>2. UNCHANGED <<rdMsg, wrMsg, wrConn, bcCount, outgoing, outgoingOpen,
                      stopping, peerMsgs, wire>>
      BY <1>1 DEF RunConnect
    <3>3. score' \in Int
      BY <3>1
    <3>4. QED
      BY <3>1, <3>2, <3>3, Zenon
  <2>2. CASE runPc' = "Version"
    <3>1. {"connected"} \in SUBSET Flags
      BY DEF Flags
    <3>2. QED
      BY <1>1, <2>2, <3>1, SetFlagsType DEF RunConnect, Connect
  <2>3. QED
    BY <1>1, <2>1, <2>2 DEF RunConnect
<1>2. CASE RunVersion
  BY <1>2, SendKeepsChannel DEF RunVersion, Msgs
<1>3. CASE RunWait
  BY <1>3 DEF RunWait
<1>4. CASE ReaderCheck
  BY <1>4, SetFlagsType DEF ReaderCheck, UnchangedReader, Msgs, Flags
<1>5. CASE ReaderSend
  BY <1>5, SendKeepsChannel, AfterSendType DEF ReaderSend, UnchangedReader
<1>6. CASE ReaderRead
  BY <1>6 DEF ReaderRead, UnchangedReader
<1>7. CASE ReaderReadError
  BY <1>7 DEF ReaderReadError, UnchangedReader
<1>8. CASE ReaderStop
  BY <1>8 DEF ReaderStop, StopBody, Disconnect, UnchangedByStop
<1>9. CASE PeerSends
  BY <1>9, SetFlagsType DEF PeerSends, UnchangedReader, Msgs, Flags
<1>10. CASE TimerCycle
  BY <1>10 DEF TimerCycle
<1>11. CASE TimerStop
  BY <1>11 DEF TimerStop, StopBody, Disconnect, UnchangedByStop
<1>12. CASE WriterStart
  BY <1>12 DEF WriterStart, UnchangedWriter
<1>13. CASE WriterRecv
  <2>1. CASE outgoing # <<>>
    <3>1. Head(outgoing) \in Msgs /\ Tail(outgoing) \in Seq(Msgs)
          /\ Len(Tail(outgoing)) <= Cap
      BY <2>1
    <3>2. QED
      BY <1>13, <2>1, <3>1 DEF WriterRecv, UnchangedWriter
  <2>2. CASE outgoing = <<>>
    BY <1>13, <2>2 DEF WriterRecv, UnchangedWriter
  <2>3. QED
    BY <2>1, <2>2
<1>14. CASE WriterWrite
  BY <1>14 DEF WriterWrite, UnchangedWriter
<1>15. CASE ExtCallStop
  BY <1>15 DEF ExtCallStop
<1>16. CASE ExtStop
  BY <1>16 DEF ExtStop, StopBody, Disconnect, UnchangedByStop
<1>17. CASE BcLock
  BY <1>17 DEF BcLock
<1>18. CASE BcSend
  BY <1>18, SendKeepsChannel DEF BcSend, Msgs
<1>19. CASE Halted \/ UNCHANGED vars
  BY <1>19 DEF Halted, vars
<1>20. QED
  BY <1>1, <1>2, <1>3, <1>4, <1>5, <1>6, <1>7, <1>8, <1>9, <1>10, <1>11,
     <1>12, <1>13, <1>14, <1>15, <1>16, <1>17, <1>18, <1>19 DEF Next

\* NewUntrustedNode's state is well typed.
LEMMA InitType == Init => TypeOK
<1>1. Init => ProcessTypeOK
    BY DEF Init, ProcessTypeOK
<1>2. Init => StateTypeOK
  <2>1. [f \in Flags |-> FALSE] \in [Flags -> BOOLEAN]
    OBVIOUS
  <2>2. /\ 0 \in 0..MaxBroadcasts /\ 0 \in 0..MaxPeerMsgs /\ 0 \in Int
        /\ <<>> \in Seq(Msgs) /\ Len(<<>>) <= Cap
    OBVIOUS
  <2>3. "reply" \in Msgs
    BY DEF Msgs
  <2>4. QED
    BY <2>1, <2>2, <2>3, Zenon DEF Init, StateTypeOK
<1>3. QED
  BY <1>1, <1>2 DEF TypeOK

\* Type invariant of the node (TypeOK, checked by the node run): every
\* reachable state of Run, the reader, the timer, the writer and the two
\* outside callers is well typed, and node.outgoing never holds more than
\* its capacity.
THEOREM NodeTypeCorrect == Spec => []TypeOK
<1>1. Init => TypeOK
  BY InitType
<1>2. TypeOK /\ [Next]_vars => TypeOK'
  BY ProcessInductive, StateInductive DEF TypeOK
<1>3. QED
  BY <1>1, <1>2, PTL DEF Spec


-----------------------------------------------------------------------------
(* Run returns only after Stop() completed                                 *)

\* node.conn is set exactly while the TCP connection is open: connect()
\* sets both, disconnect() closes the socket it clears.
ConnMatchesSocket == conn <=> sock = "open"

\* Stop() sets stopping and clears outgoingOpen in one critical section,
\* and nothing sets outgoingOpen again.
StopClosesChannel == stopping => ~outgoingOpen

\* The reader only exits through Stop().
ReaderExitsByStop == rdPc = "Exit" => stopping

\* Once Run is past connect() and the node is stopping, node.conn is nil:
\* a Stop() before Run's connect is followed by the version send on the
\* closed channel, which panics.
StoppedIsDisconnected ==
    Running /\ runPc \in {"Wait", "Done"} /\ stopping => ~conn

\* A connection once made leaves the socket open or closed, never absent.
ConnectedHasSocket == st["connected"] => sock # "none"

\* Before Run's connect nothing is connected and the reader has not
\* started.
BeforeConnect ==
    /\ runPc = "Start" => ~conn /\ ~st["connected"]
    /\ runPc \in {"Start", "Version"} => rdPc = "NotStarted"

\* The inductive invariant: StoppedWhenReturned strengthened by the facts
\* above.  Each conjunct was checked by TLC on the node instance first.
IInv ==
    /\ TypeOK
    /\ ConnMatchesSocket
    /\ StopClosesChannel
    /\ ReaderExitsByStop
    /\ StoppedIsDisconnected
    /\ ConnectedHasSocket
    /\ BeforeConnect
    /\ StoppedWhenReturned

\* Raising flags other than "connected" leaves "connected" as it was.
LEMMA SetFlagsConnected ==
    ASSUME st \in [Flags -> BOOLEAN], NEW S \in SUBSET Flags,
           "connected" \notin S
    PROVE  SetFlags(S)["connected"] = st["connected"]
BY DEF SetFlags, Flags

\* The reader's sends never mark the node connected.
LEMMA AfterSendConnected ==
    ASSUME st \in [Flags -> BOOLEAN], NEW m
    PROVE  AfterSend(m)["connected"] = st["connected"]
<1>1. \A g \in DOMAIN GateFlag :
          GateFlag[g] \in SUBSET Flags /\ "connected" \notin GateFlag[g]
  BY DEF GateFlag, Flags
<1>2. QED
  BY <1>1, SetFlagsConnected DEF AfterSend


\* connect() marks the node connected.
LEMMA SetFlagsRaises ==
    ASSUME NEW S \in SUBSET Flags, NEW f \in S
    PROVE  SetFlags(S)[f] = TRUE
BY DEF SetFlags

\* A send on the closed channel panics.
LEMMA SendOnClosedPanics ==
    ASSUME NEW m, Send(m), ~outgoingOpen
    PROVE  panicked' # "none"
BY DEF Send

\* Every step keeps the strengthened invariant.
LEMMA InvInductive == IInv /\ [Next]_vars => IInv'
<1> SUFFICES ASSUME IInv, [Next]_vars PROVE IInv'
  OBVIOUS
<1>1. TypeOK'
  BY ProcessInductive, StateInductive DEF IInv, TypeOK
<1> DEFINE Rest == /\ ConnMatchesSocket /\ StopClosesChannel
                   /\ ReaderExitsByStop /\ StoppedIsDisconnected
                   /\ ConnectedHasSocket /\ BeforeConnect
                   /\ StoppedWhenReturned
<1>2. Rest'
  <2> USE DEF IInv, ConnMatchesSocket, StopClosesChannel, ReaderExitsByStop,
              StoppedIsDisconnected, ConnectedHasSocket, BeforeConnect,
              StoppedWhenReturned, Running
  <2> st \in [Flags -> BOOLEAN] /\ conn \in BOOLEAN /\ outgoingOpen \in BOOLEAN
      /\ stopping \in BOOLEAN
    BY DEF TypeOK, StateTypeOK
  <2> sock \in {"none", "open", "closed"}
    BY DEF TypeOK, ProcessTypeOK
  <2>1. CASE Running /\ RunConnect
    <3>1. "connected" \in Flags /\ {"connected"} \in SUBSET Flags
      BY DEF Flags
    <3>2. CASE runPc' = "Done"
      BY <2>1, <3>2 DEF RunConnect
    <3>3. CASE runPc' = "Version"
      BY <2>1, <3>1, <3>3, SetFlagsRaises DEF RunConnect, Connect
    <3>4. QED
      BY <2>1, <3>2, <3>3 DEF RunConnect
  <2>2. CASE Running /\ RunVersion
    BY <2>2, SendOnClosedPanics DEF RunVersion
  <2>3. CASE Running /\ RunWait
    BY <2>3 DEF RunWait
  <2>4. CASE Running /\ ReaderCheck
    <3>1. {"scoreUpdated"} \in SUBSET Flags /\ "connected" \notin {"scoreUpdated"}
      BY DEF Flags
    <3>2. st'["connected"] = st["connected"]
      BY <2>4, <3>1, SetFlagsConnected DEF ReaderCheck
    <3>3. QED
      BY <2>4, <3>2 DEF ReaderCheck, UnchangedReader
  <2>5. CASE Running /\ ReaderSend
    <3>1. st'["connected"] = st["connected"]
      BY <2>5, AfterSendConnected DEF ReaderSend
    <3>2. QED
      BY <2>5, <3>1 DEF ReaderSend, UnchangedReader
  <2>6. CASE Running /\ ReaderRead
    BY <2>6 DEF ReaderRead, UnchangedReader
  <2>7. CASE Running /\ ReaderReadError
    BY <2>7 DEF ReaderReadError, UnchangedReader
  <2>8. CASE Running /\ ReaderStop
    BY <2>8 DEF ReaderStop, StopBody, Disconnect, UnchangedByStop
  <2>9. CASE Running /\ PeerSends
    <3>1. /\ {"versionReceived"} \in SUBSET Flags
          /\ "connected" \notin {"versionReceived"}
          /\ {"verified"} \in SUBSET Flags /\ "connected" \notin {"verified"}
      BY DEF Flags
    <3>2. st'["connected"] = st["connected"]
      BY <2>9, <3>1, SetFlagsConnected DEF PeerSends
    <3>3. QED
      BY <2>9, <3>2 DEF PeerSends, UnchangedReader
  <2>10. CASE Running /\ TimerCycle
    BY <2>10 DEF TimerCycle
  <2>11. CASE Running /\ TimerStop
    BY <2>11 DEF TimerStop, StopBody, Disconnect, UnchangedByStop
  <2>12. CASE Running /\ WriterStart
    BY <2>12 DEF WriterStart, UnchangedWriter
  <2>13. CASE Running /\ WriterRecv
    BY <2>13 DEF WriterRecv, UnchangedWriter
  <2>14. CASE Running /\ WriterWrite
    BY <2>14 DEF WriterWrite, UnchangedWriter
  <2>15. CASE Running /\ ExtCallStop
    BY <2>15 DEF ExtCallStop
  <2>16. CASE Running /\ ExtStop
    BY <2>16 DEF ExtStop, StopBody, Disconnect, UnchangedByStop
  <2>17. CASE Running /\ BcLock
    BY <2>17 DEF BcLock
  <2>18. CASE Running /\ BcSend
    BY <2>18, SendOnClosedPanics DEF BcSend, Send
  <2>19. CASE Halted \/ UNCHANGED vars
    BY <2>19 DEF Halted, vars
  <2>20. QED
    BY <2>1, <2>2, <2>3, <2>4, <2>5, <2>6, <2>7, <2>8, <2>9, <2>10,
       <2>11, <2>12, <2>13, <2>14, <2>15, <2>16, <2>17, <2>18, <2>19
    DEF Next
<1>3. QED
  BY <1>1, <1>2 DEF IInv

\* StoppedWhenReturned (checked by the node run), for every capacity and
\* bound: when Run returns after connect() succeeded, whichever goroutine
\* called Stop() and whenever, node.outgoing is closed, node.conn is nil,
\* the TCP connection is closed and node.stopping is set.
THEOREM StoppedOnReturn == Spec => []StoppedWhenReturned
<1>1. Init => IInv
  <2> SUFFICES ASSUME Init PROVE IInv
    OBVIOUS
  <2>1. st["connected"] = FALSE
    BY DEF Init, Flags
  <2>2. QED
    BY <2>1, InitType DEF Init, IInv, ConnMatchesSocket, StopClosesChannel,
       ReaderExitsByStop, StoppedIsDisconnected, ConnectedHasSocket,
       BeforeConnect, StoppedWhenReturned, Running
<1>2. IInv => StoppedWhenReturned
  BY DEF IInv
<1>3. QED
  BY <1>1, <1>2, InvInductive, PTL DEF Spec

=============================================================================
