---------------------------- MODULE UntrustedNode ----------------------------
(***************************************************************************)
(* One UntrustedNode (src/pkg/spynode/untrusted_node.go): its Run          *)
(* goroutine, the three goroutines Run starts (monitorIncoming, called the *)
(* reader here; monitorRequestTimeouts, the timer; sendOutgoing, the       *)
(* writer), and two outside callers: one that calls Stop() (the node's     *)
(* owner shutting it down) and one that calls BroadcastTx().  The peer is  *)
(* untrusted: it sends any message, closes the stream, sends bytes that do *)
(* not decode, or stops reading what we write (PeerStalls).                *)
(*                                                                         *)
(* Shared state: node.mutex, the buffered channel node.outgoing with its   *)
(* flag outgoingOpen, node.conn, node.stopping and node.state.  The       *)
(* channel and outgoingOpen are closed together under the mutex and are    *)
(* one variable here.  Each step is one access to shared state; a step     *)
(* that blocks (a send on a full channel, a Lock on a held mutex, a read   *)
(* with nothing to read) is an action whose guard is false meanwhile.  A  *)
(* send on a closed channel, and a read through a nil node.conn, panic:   *)
(* the process dies and nothing moves any more.                           *)
(*                                                                         *)
(* Not in src/ and modelled from the spec: the command handlers            *)
(* (handleMessage), sendOutgoing, UntrustedState.CheckTimeouts and         *)
(* TxTracker.Check.                                                        *)
(***************************************************************************)
EXTENDS Integers, Sequences

CONSTANTS
    Cap,            \* capacity of node.outgoing (100 in NewUntrustedNode)
    MaxBroadcasts,  \* bound on the BroadcastTx calls of the outside caller
    MaxPeerMsgs,    \* bound on the messages the peer sends
    PeerStalls      \* TRUE: the peer never reads, our writes block

ASSUME CapAssumption == Cap \in Nat \ {0}
ASSUME BoundsAssumption == MaxBroadcasts \in Nat /\ MaxPeerMsgs \in Nat
ASSUME PeerStallsAssumption == PeerStalls \in BOOLEAN

VARIABLES
    runPc,         \* the goroutine in Run
    rdPc, rdMsg,   \* the reader and the message it is sending
    tmPc,          \* the timer
    wrPc, wrMsg,   \* the writer and the message it is writing
    wrConn,        \* the writer's copy of node.conn is not nil
    extPc,         \* the outside caller of Stop()
    bcPc, bcCount, \* the outside caller of BroadcastTx() and its calls
    mutex,         \* node.mutex: "none", "run" or "bcast"
    outgoing,      \* the messages buffered in node.outgoing
    outgoingOpen,  \* node.outgoingOpen, and the channel not closed
    conn,          \* node.conn # nil
    sock,          \* the TCP connection: "none", "open" or "closed"
    stopping,      \* node.stopping
    active,        \* node.Active
    st,            \* node.state, the handshake flags
    score,         \* sum of the peers.UpdateScore deltas for this peer
    peerMsgs,      \* number of messages the peer has sent
    wire,          \* the messages written to the peer, in order
    panicked       \* "none", or why the process panicked

vars == <<runPc, rdPc, rdMsg, tmPc, wrPc, wrMsg, wrConn, extPc, bcPc, bcCount,
          mutex, outgoing, outgoingOpen, conn, sock, stopping, active, st,
          score, peerMsgs, wire, panicked>>

\* The messages the node sends.  "reply" stands for whatever a command
\* handler answers (verack, getdata, pong ...), "tracker" for what
\* TxTracker.Check asks to resend.
Msgs == {"version", "getheaders", "getaddr", "mempool", "tracker", "reply", "tx"}

\* The flags of data.UntrustedState that the node reads or writes.
Flags == {"connected", "versionReceived", "handshakeComplete",
          "headersRequested", "verified", "scoreUpdated",
          "addressesRequested", "memPoolRequested"}

-----------------------------------------------------------------------------
(* Helpers                                                                 *)

Running == panicked = "none"

\* The flag set by a one-shot gate of check() once its message is queued.
GateFlag == [getheaders |-> {"headersRequested", "handshakeComplete"},
             getaddr    |-> {"addressesRequested"},
             mempool    |-> {"memPoolRequested"}]

SetFlags(S) == [f \in Flags |-> st[f] \/ f \in S]

\* Mutant of Send: a send that never blocks, as if the channel had no
\* bound.
SendUnbounded(msg) ==
    \/ /\ ~outgoingOpen
       /\ panicked' = "sendOnClosedChannel"
       /\ UNCHANGED outgoing
    \/ /\ outgoingOpen
       /\ outgoing' = Append(outgoing, msg)
       /\ UNCHANGED panicked

\* A send of msg on node.outgoing: it panics on a closed channel and
\* blocks while the channel is full.
Send(msg) ==
    \/ /\ ~outgoingOpen
       /\ panicked' = "sendOnClosedChannel"
       /\ UNCHANGED outgoing
    \/ /\ outgoingOpen
       /\ Len(outgoing) < Cap
       /\ outgoing' = Append(outgoing, msg)
       /\ UNCHANGED panicked

\* Mutant of Disconnect: the connection is neither closed nor forgotten.
DisconnectKeepsConn == UNCHANGED <<conn, sock>>

\* disconnect(): a non-nil node.conn is closed and set to nil.
Disconnect ==
    /\ conn' = FALSE
    /\ sock' = IF conn THEN "closed" ELSE sock

\* The body of Stop(), run with node.mutex free (it locks and unlocks it):
\* set stopping, close the channel if outgoingOpen, disconnect().
StopBody ==
    /\ mutex = "none"
    /\ stopping' = TRUE
    /\ outgoingOpen' = FALSE
    /\ Disconnect

\* UntrustedState.CheckTimeouts (spec): a handshake step still waited for
\* (the version after connecting, the headers after requesting them) may
\* exceed its deadline.
TimeoutPossible ==
    /\ st["connected"]
    /\ \/ ~st["versionReceived"]
       \/ st["headersRequested"] /\ ~st["verified"]

-----------------------------------------------------------------------------
(* Run                                                                     *)

\* NewUntrustedNode: channel open, not stopping, Active; nothing started.
Init ==
    /\ runPc = "Start" /\ rdPc = "NotStarted" /\ rdMsg = "reply"
    /\ tmPc = "NotStarted" /\ wrPc = "NotStarted" /\ wrMsg = "reply"
    /\ wrConn = FALSE /\ extPc = "Idle" /\ bcPc = "Idle" /\ bcCount = 0
    /\ mutex = "none" /\ outgoing = <<>> /\ outgoingOpen = TRUE
    /\ conn = FALSE /\ sock = "none" /\ stopping = FALSE /\ active = TRUE
    /\ st = [f \in Flags |-> FALSE] /\ score = 0 /\ peerMsgs = 0
    /\ wire = <<>> /\ panicked = "none"

\* connect() succeeding: node.conn set, state.ConnectedTime recorded.
Connect ==
    /\ conn' = TRUE
    /\ sock' = "open"
    /\ st' = SetFlags({"connected"})

\* Run: lock, connect() (which first disconnects a nil conn: no-op).  On a
\* dial failure: score -1, Active = false, unlock, return.  On success:
\* conn set, ConnectedTime recorded, and Run goes on holding the mutex.
RunConnect ==
    /\ runPc = "Start"
    /\ mutex = "none"
    /\ \/ /\ score' = score - 1
          /\ active' = FALSE
          /\ runPc' = "Done"
          /\ UNCHANGED <<mutex, conn, sock, st>>
       \/ /\ mutex' = "run"
          /\ Connect
          /\ runPc' = "Version"
          /\ UNCHANGED <<score, active>>
    /\ UNCHANGED <<rdPc, rdMsg, tmPc, wrPc, wrMsg, wrConn, extPc, bcPc, bcCount,
                   outgoing, outgoingOpen, stopping, peerMsgs, wire, panicked>>

\* Run: queue the version message (mutex held), unlock, start the three
\* goroutines.  The writer's node.conn is read when its goroutine runs.
RunVersion ==
    /\ runPc = "Version"
    /\ Send("version")
    /\ mutex' = "none"
    /\ runPc' = "Wait"
    /\ rdPc' = "Check" /\ tmPc' = "Sleep" /\ wrPc' = "Start"
    /\ UNCHANGED <<rdMsg, wrMsg, wrConn, extPc, bcPc, bcCount, outgoingOpen,
                   conn, sock, stopping, active, st, score, peerMsgs, wire>>

\* Run: wg.Wait() returns once the three goroutines are done; Active = false.
RunWait ==
    /\ runPc = "Wait"
    /\ rdPc = "Exit" /\ tmPc = "Exit" /\ wrPc = "Exit"
    /\ runPc' = "Done"
    /\ active' = FALSE
    /\ UNCHANGED <<rdPc, rdMsg, tmPc, wrPc, wrMsg, wrConn, extPc, bcPc, bcCount,
                   mutex, outgoing, outgoingOpen, conn, sock, stopping, st,
                   score, peerMsgs, wire, panicked>>

-----------------------------------------------------------------------------
(* Stop() callers: the reader, the timer and the outside caller all end in *)
(* the same Stop(); it waits for node.mutex.                               *)

UnchangedByStop == <<runPc, rdMsg, wrPc, wrMsg, wrConn, bcPc, bcCount, mutex,
                     outgoing, active, st, score, peerMsgs, wire, panicked>>

ReaderStop ==
    /\ rdPc = "Stop"
    /\ StopBody
    /\ rdPc' = "Exit"
    /\ UNCHANGED <<tmPc, extPc>>
    /\ UNCHANGED UnchangedByStop

TimerStop ==
    /\ tmPc = "Stop"
    /\ StopBody
    /\ tmPc' = "Exit"
    /\ UNCHANGED <<rdPc, extPc>>
    /\ UNCHANGED UnchangedByStop

ExtStop ==
    /\ extPc = "Stop"
    /\ StopBody
    /\ extPc' = "Done"
    /\ UNCHANGED <<rdPc, tmPc>>
    /\ UNCHANGED UnchangedByStop

\* The node's owner decides to call Stop(), at any time, once.
ExtCallStop ==
    /\ extPc = "Idle"
    /\ extPc' = "Stop"
    /\ UNCHANGED <<runPc, rdPc, rdMsg, tmPc, wrPc, wrMsg, wrConn, bcPc, bcCount,
                   mutex, outgoing, outgoingOpen, conn, sock, stopping, active,
                   st, score, peerMsgs, wire, panicked>>

-----------------------------------------------------------------------------
(* BroadcastTx                                                             *)

\* BroadcastTx: lock; if !outgoingOpen return "Node inactive" and unlock;
\* otherwise go on to the send, still holding the mutex.
BcLock ==
    /\ bcPc = "Idle"
    /\ bcCount < MaxBroadcasts
    /\ mutex = "none"
    /\ bcCount' = bcCount + 1
    /\ \/ outgoingOpen /\ mutex' = "bcast" /\ bcPc' = "Send"
       \/ ~outgoingOpen /\ UNCHANGED <<mutex, bcPc>>
    /\ UNCHANGED <<runPc, rdPc, rdMsg, tmPc, wrPc, wrMsg, wrConn, extPc,
                   outgoing, outgoingOpen, conn, sock, stopping, active, st,
                   score, peerMsgs, wire, panicked>>

\* BroadcastTx: node.outgoing <- tx with the mutex held (blocks while the
\* channel is full), then the deferred unlock.
BcSend ==
    /\ bcPc = "Send"
    /\ Send("tx")
    /\ mutex' = "none"
    /\ bcPc' = "Idle"
    /\ UNCHANGED <<runPc, rdPc, rdMsg, tmPc, wrPc, wrMsg, wrConn, extPc, bcCount,
                   outgoingOpen, conn, sock, stopping, active, st, score,
                   peerMsgs, wire>>

-----------------------------------------------------------------------------
(* The reader: monitorIncoming and check()                                 *)

UnchangedReader == <<runPc, tmPc, wrPc, wrMsg, wrConn, extPc, bcPc, bcCount,
                     mutex, outgoingOpen, conn, sock, stopping, active, wire>>

\* Mutant of ReaderCheck: the score gate does not wait for Verified, as
\* if the "if !node.state.Verified { return nil }" were missing.
ReaderCheckSkipsVerified ==
    /\ rdPc = "Check"
    /\ \/ /\ ~st["versionReceived"]
          /\ rdPc' = "Read" /\ UNCHANGED <<rdMsg, st, score>>
       \/ /\ st["versionReceived"] /\ ~st["handshakeComplete"]
          /\ \/ rdPc' = "Stop" /\ UNCHANGED rdMsg
             \/ rdPc' = "Send" /\ rdMsg' = "getheaders"
          /\ UNCHANGED <<st, score>>
       \/ /\ st["versionReceived"] /\ st["handshakeComplete"]
          /\ \/ /\ ~st["verified"]
                /\ rdPc' = "Read" /\ UNCHANGED <<rdMsg, st, score>>
             \/ /\ ~st["scoreUpdated"]
                /\ score' = score + 5 /\ st' = SetFlags({"scoreUpdated"})
                /\ UNCHANGED <<rdPc, rdMsg>>
             \/ /\ st["verified"] /\ st["scoreUpdated"]
                /\ ~st["addressesRequested"]
                /\ rdPc' = "Send" /\ rdMsg' = "getaddr"
                /\ UNCHANGED <<st, score>>
             \/ /\ st["verified"] /\ st["scoreUpdated"]
                /\ st["addressesRequested"] /\ ~st["memPoolRequested"]
                /\ rdPc' = "Send" /\ rdMsg' = "mempool"
                /\ UNCHANGED <<st, score>>
             \/ /\ st["verified"] /\ st["scoreUpdated"]
                /\ st["addressesRequested"] /\ st["memPoolRequested"]
                /\ \/ rdPc' = "Stop" /\ UNCHANGED rdMsg
                   \/ rdPc' = "Read" /\ UNCHANGED rdMsg
                   \/ rdPc' = "Send" /\ rdMsg' = "tracker"
                /\ UNCHANGED <<st, score>>
    /\ UNCHANGED <<outgoing, peerMsgs, panicked>>
    /\ UNCHANGED UnchangedReader

\* One gate of check(), in the code's order.  Before the version: go read.
\* Version received, handshake not complete: buildHeaderRequest fails (go
\* to Stop) or the header request is sent.  Not verified: go read.
\* Verified: score +5 once, then getaddr once, then mempool once, then
\* TxTracker.Check, which fails (Stop), asks for nothing (go read) or
\* asks for a message to be sent.
ReaderCheck ==
    /\ rdPc = "Check"
    /\ \/ /\ ~st["versionReceived"]
          /\ rdPc' = "Read" /\ UNCHANGED <<rdMsg, st, score>>
       \/ /\ st["versionReceived"] /\ ~st["handshakeComplete"]
          /\ \/ rdPc' = "Stop" /\ UNCHANGED rdMsg
             \/ rdPc' = "Send" /\ rdMsg' = "getheaders"
          /\ UNCHANGED <<st, score>>
       \/ /\ st["versionReceived"] /\ st["handshakeComplete"]
          /\ \/ /\ ~st["verified"]
                /\ rdPc' = "Read" /\ UNCHANGED <<rdMsg, st, score>>
             \/ /\ st["verified"] /\ ~st["scoreUpdated"]
                /\ score' = score + 5 /\ st' = SetFlags({"scoreUpdated"})
                /\ UNCHANGED <<rdPc, rdMsg>>
             \/ /\ st["verified"] /\ st["scoreUpdated"]
                /\ ~st["addressesRequested"]
                /\ rdPc' = "Send" /\ rdMsg' = "getaddr"
                /\ UNCHANGED <<st, score>>
             \/ /\ st["verified"] /\ st["scoreUpdated"]
                /\ st["addressesRequested"] /\ ~st["memPoolRequested"]
                /\ rdPc' = "Send" /\ rdMsg' = "mempool"
                /\ UNCHANGED <<st, score>>
             \/ /\ st["verified"] /\ st["scoreUpdated"]
                /\ st["addressesRequested"] /\ st["memPoolRequested"]
                /\ \/ rdPc' = "Stop" /\ UNCHANGED rdMsg
                   \/ rdPc' = "Read" /\ UNCHANGED rdMsg
                   \/ rdPc' = "Send" /\ rdMsg' = "tracker"
                /\ UNCHANGED <<st, score>>
    /\ UNCHANGED <<outgoing, peerMsgs, panicked>>
    /\ UNCHANGED UnchangedReader

\* Mutant of AfterSend: the one-shot flag is not set after the send.
AfterSendForgetsFlag(m) == st

\* The flags check() sets after queueing message m.
AfterSend(m) == IF m \in DOMAIN GateFlag THEN SetFlags(GateFlag[m]) ELSE st

\* The reader's send on node.outgoing, without the mutex.  After a gate's
\* message check() goes on with the next gate; after the tracker's
\* messages it returns and the loop reads; after a handler's reply the
\* loop starts again with check().
ReaderSend ==
    /\ rdPc = "Send"
    /\ Send(rdMsg)
    /\ st' = AfterSend(rdMsg)
    /\ rdPc' = IF rdMsg = "tracker" THEN "Read" ELSE "Check"
    /\ UNCHANGED <<rdMsg, score, peerMsgs>>
    /\ UNCHANGED UnchangedReader

\* wire.ReadMessage(node.conn, ...) reads node.conn without the mutex: a
\* Stop() since the last read has set it to nil, and the call panics.
ReaderRead ==
    /\ rdPc = "Read"
    /\ \/ conn /\ rdPc' = "Reading" /\ UNCHANGED panicked
       \/ ~conn /\ panicked' = "readThroughNilConn" /\ UNCHANGED rdPc
    /\ UNCHANGED <<rdMsg, outgoing, st, score, peerMsgs>>
    /\ UNCHANGED UnchangedReader

\* The blocked read fails because Stop() closed the connection: Stop().
ReaderReadError ==
    /\ rdPc = "Reading"
    /\ sock = "closed"
    /\ rdPc' = "Stop"
    /\ UNCHANGED <<rdMsg, outgoing, st, score, peerMsgs, panicked>>
    /\ UNCHANGED UnchangedReader

\* The peer sends a message, which the reader reads and dispatches to the
\* command handlers (spec): version sets VersionReceived and is answered;
\* headers answering our request set Verified; another message may be
\* answered; a message the handler rejects costs a point and stops the
\* node.  The peer may also close the stream (io.EOF) or send bytes that
\* do not decode (another error of ReadMessage): either way the node
\* stops, with no penalty.
PeerSends ==
    /\ rdPc = "Reading"
    /\ sock = "open"
    /\ peerMsgs < MaxPeerMsgs
    /\ peerMsgs' = peerMsgs + 1
    /\ \/ /\ st' = SetFlags({"versionReceived"})
          /\ rdPc' = "Send" /\ rdMsg' = "reply" /\ UNCHANGED <<score>>
       \/ /\ st' = IF st["handshakeComplete"] THEN SetFlags({"verified"}) ELSE st
          /\ rdPc' = "Check" /\ UNCHANGED <<rdMsg, score>>
       \/ /\ rdPc' = "Send" /\ rdMsg' = "reply"
          /\ UNCHANGED <<st, score>>
       \/ /\ score' = score - 1
          /\ rdPc' = "Stop" /\ UNCHANGED <<rdMsg, st>>
       \/ /\ rdPc' = "Stop" /\ UNCHANGED <<rdMsg, st, score>>
    /\ UNCHANGED <<outgoing, panicked>>
    /\ UNCHANGED UnchangedReader

-----------------------------------------------------------------------------
(* The timer: monitorRequestTimeouts                                       *)

\* Mutant of TimerCycle: the loop never looks at node.stopping.
TimerCycleIgnoresStopping ==
    /\ tmPc = "Sleep"
    /\ \/ /\ TimeoutPossible
          /\ score' = score - 1 /\ tmPc' = "Stop"
       \/ UNCHANGED <<tmPc, score>>
    /\ UNCHANGED <<runPc, rdPc, rdMsg, wrPc, wrMsg, wrConn, extPc, bcPc, bcCount,
                   mutex, outgoing, outgoingOpen, conn, sock, stopping, active,
                   st, peerMsgs, wire, panicked>>

\* sleepUntilStop, then CheckTimeouts: a timeout costs a point and calls
\* Stop(); otherwise the loop ends if stopping and sleeps again if not.
TimerCycle ==
    /\ tmPc = "Sleep"
    /\ \/ /\ TimeoutPossible
          /\ score' = score - 1 /\ tmPc' = "Stop"
       \/ stopping /\ tmPc' = "Exit" /\ UNCHANGED score
       \/ ~stopping /\ UNCHANGED <<tmPc, score>>
    /\ UNCHANGED <<runPc, rdPc, rdMsg, wrPc, wrMsg, wrConn, extPc, bcPc, bcCount,
                   mutex, outgoing, outgoingOpen, conn, sock, stopping, active,
                   st, peerMsgs, wire, panicked>>

-----------------------------------------------------------------------------
(* The writer: sendOutgoing (spec)                                         *)

UnchangedWriter == <<runPc, rdPc, rdMsg, tmPc, extPc, bcPc, bcCount, mutex,
                     outgoingOpen, conn, sock, stopping, active, st, score,
                     peerMsgs, panicked>>

\* The goroutine starts and evaluates sendOutgoing's argument node.conn.
WriterStart ==
    /\ wrPc = "Start"
    /\ wrConn' = conn
    /\ wrPc' = "Recv"
    /\ UNCHANGED <<wrMsg, outgoing, wire>>
    /\ UNCHANGED UnchangedWriter

\* Receive the next buffered message; a closed, drained channel ends it.
WriterRecv ==
    /\ wrPc = "Recv"
    /\ \/ /\ outgoing # <<>>
          /\ wrMsg' = Head(outgoing) /\ outgoing' = Tail(outgoing)
          /\ wrPc' = "Write"
       \/ /\ outgoing = <<>> /\ ~outgoingOpen
          /\ wrPc' = "Exit" /\ UNCHANGED <<wrMsg, outgoing>>
    /\ UNCHANGED <<wrConn, wire>>
    /\ UNCHANGED UnchangedWriter

\* Write the message: it reaches the peer if the connection is open and
\* the peer reads (a stalled peer blocks the write); on a closed or nil
\* connection the write fails and the message is dropped.
WriterWrite ==
    /\ wrPc = "Write"
    /\ \/ /\ wrConn /\ sock = "open" /\ ~PeerStalls
          /\ wire' = Append(wire, wrMsg)
       \/ /\ ~wrConn \/ sock = "closed"
          /\ UNCHANGED wire
    /\ wrPc' = "Recv"
    /\ UNCHANGED <<wrMsg, wrConn, outgoing>>
    /\ UNCHANGED UnchangedWriter

-----------------------------------------------------------------------------

\* After a panic nothing moves; after Run has returned the outside callers
\* may still call in.
Halted ==
    /\ \/ ~Running
       \/ runPc = "Done" /\ extPc # "Stop" /\ bcPc # "Send"
    /\ UNCHANGED vars

Next ==
    \/ /\ Running
       /\ \/ RunConnect \/ RunVersion \/ RunWait
          \/ ReaderCheck \/ ReaderSend \/ ReaderRead \/ ReaderReadError
          \/ ReaderStop \/ PeerSends
          \/ TimerCycle \/ TimerStop
          \/ WriterStart \/ WriterRecv \/ WriterWrite
          \/ ExtCallStop \/ ExtStop \/ BcLock \/ BcSend
    \/ Halted

\* The goroutines are scheduled (weak fairness on each of their steps);
\* the peer and the outside callers' decisions to call are not.
Fairness ==
    /\ WF_vars(Running /\ RunConnect) /\ WF_vars(Running /\ RunVersion)
    /\ WF_vars(Running /\ RunWait)
    /\ WF_vars(Running /\ ReaderCheck) /\ WF_vars(Running /\ ReaderSend)
    /\ WF_vars(Running /\ ReaderRead) /\ WF_vars(Running /\ ReaderReadError)
    /\ WF_vars(Running /\ ReaderStop)
    /\ WF_vars(Running /\ TimerCycle) /\ WF_vars(Running /\ TimerStop)
    /\ WF_vars(Running /\ WriterStart) /\ WF_vars(Running /\ WriterRecv)
    /\ WF_vars(Running /\ WriterWrite)
    /\ WF_vars(Running /\ ExtStop) /\ WF_vars(Running /\ BcSend)

Spec == Init /\ [][Next]_vars

FairSpec == Spec /\ Fairness

-----------------------------------------------------------------------------
(* Properties                                                              *)

\* The program counters, the mutex holder, the socket and the panic.
ProcessTypeOK ==
    /\ runPc \in {"Start", "Version", "Wait", "Done"}
    /\ rdPc \in {"NotStarted", "Check", "Send", "Read", "Reading", "Stop", "Exit"}
    /\ tmPc \in {"NotStarted", "Sleep", "Stop", "Exit"}
    /\ wrPc \in {"NotStarted", "Start", "Recv", "Write", "Exit"}
    /\ extPc \in {"Idle", "Stop", "Done"}
    /\ bcPc \in {"Idle", "Send"}
    /\ mutex \in {"none", "run", "bcast"}
    /\ sock \in {"none", "open", "closed"}
    /\ panicked \in {"none", "sendOnClosedChannel", "readThroughNilConn"}

\* The data: messages, flags, counters and the channel's contents.
StateTypeOK ==
    /\ rdMsg \in Msgs /\ wrMsg \in Msgs
    /\ wrConn \in BOOLEAN /\ outgoingOpen \in BOOLEAN /\ conn \in BOOLEAN
    /\ stopping \in BOOLEAN /\ active \in BOOLEAN
    /\ bcCount \in 0..MaxBroadcasts /\ peerMsgs \in 0..MaxPeerMsgs
    /\ outgoing \in Seq(Msgs) /\ Len(outgoing) <= Cap
    /\ st \in [Flags -> BOOLEAN]
    /\ score \in Int
    /\ wire \in Seq(Msgs)

\* Type invariant: every variable holds a value of its kind; the channel
\* never holds more than its capacity.
TypeOK == ProcessTypeOK /\ StateTypeOK

\* The handshake requests reach the peer in the order check() issues them
\* and at most once per connection (one-shot gates, spec 4.2): no request
\* is written twice, and the address and mempool requests only after the
\* header request -- whatever the timer, Stop() and BroadcastTx() do
\* meanwhile.
HandshakeOrder ==
    /\ \A i, j \in 1..Len(wire) :
          i < j /\ wire[i] = wire[j] => wire[i] \notin DOMAIN GateFlag
    /\ \A i \in 1..Len(wire) :
          wire[i] \in {"getaddr", "mempool"} =>
              \E j \in 1..(i - 1) : wire[j] = "getheaders"

\* The message the writer has taken off the channel and not yet written.
InWriter == IF wrPc = "Write" THEN <<wrMsg>> ELSE <<>>

\* The writer has started on a connection that is nil or closed: every
\* write from now on fails, and nothing more reaches the peer.
Dropped == wrPc \in {"Recv", "Write", "Exit"} /\ (~wrConn \/ sock = "closed")

\* The flags of node.state that mark the phases of the handshake, in the
\* order spec 4.2 lists them.
Chain == <<"connected", "versionReceived", "handshakeComplete", "verified",
           "scoreUpdated", "addressesRequested", "memPoolRequested">>

\* The handshake as the progression it promises to be: phase i is done
\* when its flag is set, and the score is the peer's reputation.
Phases == INSTANCE HandshakePhases WITH
              done <- [i \in 1..Len(Chain) |-> st[Chain[i]]], score <- score

\* node.state and the score updates implement the handshake progression
\* of spec 4.2: each flag of the chain is set once, only after the one
\* before it, and never cleared; the +5 is reported exactly when the
\* score gate sets ScoreUpdated, and every other score change is a -1
\* that leaves the flags alone -- whatever the peer sends, the timer
\* and Stop() do, and however check() interleaves with the handlers.
PhasesRefined == Phases!Spec

\* When Run returns after a connection, Stop() has completed: the channel
\* is closed and the connection closed and forgotten (spec 4.2: "Run
\* returns once all three have joined" after Stop()).
StoppedWhenReturned ==
    runPc = "Done" /\ st["connected"] =>
        /\ ~outgoingOpen /\ ~conn /\ sock = "closed" /\ stopping

\* The process never panics: no send on the closed node.outgoing, no read
\* through a nil node.conn (spec 8: Stop() never panics and stopping is
\* cooperative).  Expected to be violated.
NoPanic == panicked = "none"

\* The first message the peer receives is our version message, as the
\* handshake requires (spec 4.2: Run queues version "to start handshake").
\* Expected to be violated: BroadcastTx before Run queues a tx first.
VersionFirst == wire # <<>> => wire[1] = "version"

\* Some goroutine has called Stop() (it may still wait for the mutex).
StopCalled ==
    stopping \/ rdPc = "Stop" \/ tmPc = "Stop" \/ extPc = "Stop"

\* Once Stop() is called, Run returns (or the process has died): Stop()
\* gets the mutex, and all three goroutines observe the stop and exit
\* (spec 4.2 and 5: Stop() is the one cancellation primitive).
RunTerminates == StopCalled ~> (runPc = "Done" \/ ~Running)

\* Once Run has started the three goroutines, a call of Stop() ends them:
\* the timer sees node.stopping, the reader's read fails on the closed
\* connection and the writer finds the channel closed and drained, so
\* wg.Wait() returns and Run with it (or the process has died) -- however
\* the reader, the handlers and BroadcastTx() interleave with Stop().
ShutdownCompletes ==
    StopCalled /\ runPc = "Wait" ~> (runPc = "Done" \/ ~Running)

=============================================================================
