--------------------------- MODULE HandshakeProofs ---------------------------
(***************************************************************************)
(* A TLAPS proof that the handshake requests reach the peer once each and *)
(* in order (HandshakeOrder), for every channel capacity and bound.        *)
(*                                                                         *)
(* The argument follows each message down the path it takes: the reader   *)
(* queues it on node.outgoing, the writer takes it off and writes it.  The *)
(* messages on that path, in order, are                                    *)
(*     Pipe == wire \o (the writer's message) \o outgoing                  *)
(* Every send appends to Pipe, a receive or a write leaves it as it is,    *)
(* and a write that fails (connection closed or nil) removes the message  *)
(* at position Len(wire) + 1 -- after which no write succeeds any more.   *)
(* check() issues a request only while its gate flag is down and raises  *)
(* it once the request is queued, so the flags tell which requests Pipe   *)
(* already holds.                                                          *)
(***************************************************************************)
EXTENDS UntrustedNodeProofs, SequenceTheorems

\* Every message queued on node.outgoing and not lost, in queueing order.
Pipe == wire \o InWriter \o outgoing

\* check() has passed the gate of request m: its flags are raised.
Issued(m) == \A f \in GateFlag[m] : st[f]

\* No request occurs twice in the sequence of messages s.
Unique(s) ==
    \A i, j \in 1..Len(s) : i < j /\ s[i] = s[j] => s[i] \notin DOMAIN GateFlag

\* A header request precedes position i of s.
HeadersBefore(s, i) == \E j \in 1..(i - 1) : s[j] = "getheaders"

\* No request is queued twice.
PipeUnique == Unique(Pipe)

\* An address or mempool request is queued after the header request, or
\* it is past what was written and the writer drops everything.
PipeOrdered ==
    \A i \in 1..Len(Pipe) :
        Pipe[i] \in {"getaddr", "mempool"} =>
            \/ HeadersBefore(Pipe, i)
            \/ Dropped /\ i > Len(wire)

\* A queued request has its gate raised.
QueuedIsIssued ==
    \A i \in 1..Len(Pipe) : Pipe[i] \in DOMAIN GateFlag => Issued(Pipe[i])

\* A request the reader is about to send has its gate still down, and the
\* address and mempool requests come after the handshake is complete.
PendingNotIssued ==
    rdPc = "Send" /\ rdMsg \in DOMAIN GateFlag =>
        /\ ~Issued(rdMsg)
        /\ rdMsg # "getheaders" => st["handshakeComplete"]

\* Once the header request is queued it stays on the path unless the
\* writer drops everything.
HeadersQueued ==
    Running /\ st["handshakeComplete"] =>
        \/ \E i \in 1..Len(Pipe) : Pipe[i] = "getheaders"
        \/ Dropped

\* The flags of the header gate are raised together.
HeaderFlags == st["headersRequested"] <=> st["handshakeComplete"]

\* The writer starts after Run's connect, so a closed socket stays closed
\* while it runs.
WriterAfterConnect == wrPc # "NotStarted" => runPc \in {"Wait", "Done"}

\* The flags of check()'s one-shot gates.
GateFlags == UNION {GateFlag[m] : m \in DOMAIN GateFlag}

\* The inductive invariant for HandshakeOrder.
HInv ==
    /\ TypeOK
    /\ PipeUnique
    /\ PipeOrdered
    /\ QueuedIsIssued
    /\ PendingNotIssued
    /\ HeadersQueued
    /\ HeaderFlags
    /\ WriterAfterConnect

-----------------------------------------------------------------------------
(* Lemmas about the path                                                   *)

\* A send appends its message to the path.
LEMMA PipeAppend ==
    ASSUME NEW m, wire \in Seq(Msgs), outgoing \in Seq(Msgs), InWriter \in Seq(Msgs),
           wire' = wire, InWriter' = InWriter, outgoing' = Append(outgoing, m)
    PROVE  Pipe' = Append(Pipe, m)
<1> DEFINE S == Msgs \cup {m}
           W == wire \o InWriter
<1>1. Msgs \subseteq S /\ m \in S
  OBVIOUS
<1>2. wire \in Seq(S) /\ InWriter \in Seq(S) /\ outgoing \in Seq(S)
  BY <1>1, SeqMonotonic
<1>3. W \in Seq(S) /\ W \o outgoing \in Seq(S) /\ <<m>> \in Seq(S)
  BY <1>1, <1>2, ConcatProperties
<1>4. Append(outgoing, m) = outgoing \o <<m>>
      /\ Append(W \o outgoing, m) = (W \o outgoing) \o <<m>>
  BY <1>1, <1>2, <1>3, AppendIsConcat
<1>5. (W \o outgoing) \o <<m>> = W \o (outgoing \o <<m>>)
  BY <1>2, <1>3, ConcatAssociative
<1>6. Pipe' = W \o Append(outgoing, m) /\ Pipe = W \o outgoing
  BY DEF Pipe, W
<1>. QED BY <1>4, <1>5, <1>6

\* The writer's receive moves the channel's head into the writer.
LEMMA PipeRecv ==
    ASSUME wire \in Seq(Msgs), outgoing \in Seq(Msgs), outgoing # <<>>,
           InWriter = <<>>, wire' = wire, InWriter' = <<Head(outgoing)>>,
           outgoing' = Tail(outgoing)
    PROVE  Pipe' = Pipe
BY DEF Pipe

\* A successful write moves the writer's message onto the wire.
LEMMA PipeWrite ==
    ASSUME wire \in Seq(Msgs), outgoing \in Seq(Msgs), NEW m \in Msgs,
           InWriter = <<m>>, wire' = Append(wire, m), InWriter' = <<>>,
           outgoing' = outgoing
    PROVE  Pipe' = Pipe
BY DEF Pipe

\* The path is a sequence of messages that starts with the wire.
LEMMA PipeType ==
    ASSUME TypeOK
    PROVE  /\ InWriter \in Seq(Msgs)
           /\ Pipe \in Seq(Msgs)
           /\ Len(Pipe) = Len(wire) + Len(InWriter) + Len(outgoing)
           /\ \A i \in 1..Len(wire) : Pipe[i] = wire[i]
<1>1. InWriter \in Seq(Msgs)
  BY DEF InWriter, TypeOK, StateTypeOK
<1>2. QED
  BY <1>1 DEF Pipe, TypeOK, StateTypeOK

\* A failed write removes the writer's message from the path; the rest
\* keeps its order.
LEMMA PipeDrop ==
    ASSUME TypeOK, wrPc = "Write", wire' = wire, outgoing' = outgoing,
           InWriter' = <<>>
    PROVE  /\ Len(Pipe') = Len(Pipe) - 1
           /\ \A k \in 1..Len(Pipe') :
                 Pipe'[k] = Pipe[IF k <= Len(wire) THEN k ELSE k + 1]
BY DEF Pipe, InWriter, TypeOK, StateTypeOK

-----------------------------------------------------------------------------
(* Lemmas about the flags                                                  *)

\* Raising some flags leaves the others as they were.
LEMMA SetFlagsKeeps ==
    ASSUME st \in [Flags -> BOOLEAN], NEW S \in SUBSET Flags, NEW f \in Flags \ S
    PROVE  SetFlags(S)[f] = st[f]
BY DEF SetFlags

\* The gate flags are flags, and each gate's flags are gate flags.
LEMMA GateFlagsFlags ==
    /\ GateFlags \subseteq Flags
    /\ \A m \in DOMAIN GateFlag : GateFlag[m] \subseteq GateFlags
    /\ DOMAIN GateFlag = {"getheaders", "getaddr", "mempool"}
    /\ "handshakeComplete" \in GateFlags
BY DEF GateFlags, GateFlag, Flags

\* Steps that raise no gate flag keep every gate as it was.
LEMMA NoGateFlag ==
    ASSUME st \in [Flags -> BOOLEAN], NEW S \in SUBSET Flags,
           S \cap GateFlags = {}
    PROVE  \A f \in GateFlags : SetFlags(S)[f] = st[f]
BY GateFlagsFlags, SetFlagsKeeps


-----------------------------------------------------------------------------
(* The three ways a step changes the path                                  *)

\* A step that keeps the path, lowers no gate flag and, once the writer
\* drops everything, keeps it dropping and the wire as it is, keeps the
\* facts about the path.
LEMMA PathKept ==
    ASSUME HInv, TypeOK', Running' => Running,
           Pipe' = Pipe,
           Dropped => Dropped' /\ wire' = wire,
           \A f \in GateFlags : st[f] => st'[f],
           Running' => st'["handshakeComplete"] = st["handshakeComplete"],
           HeaderFlags', PendingNotIssued', WriterAfterConnect'
    PROVE  HInv'
<1> USE GateFlagsFlags
<1>1. \A m \in DOMAIN GateFlag : Issued(m) => Issued(m)'
  BY DEF Issued
<1>2. PipeUnique'
  BY DEF HInv, PipeUnique, Unique
<1>3. PipeOrdered'
  BY DEF HInv, PipeOrdered, HeadersBefore
<1>4. QueuedIsIssued'
  BY <1>1 DEF HInv, QueuedIsIssued
<1>5. HeadersQueued'
  BY DEF HInv, HeadersQueued
<1>6. QED
  BY <1>2, <1>3, <1>4, <1>5 DEF HInv

\* A send appends message m to the path.  A request is appended only
\* while its gate is down and it raises it; the header gate is only
\* raised by the header request; an address or mempool request only once
\* the handshake is complete.
LEMMA PathAppended ==
    ASSUME HInv, TypeOK', Running, NEW m \in Msgs,
           Pipe' = Append(Pipe, m), wire' = wire, (Dropped' <=> Dropped),
           \A f \in GateFlags : st[f] => st'[f],
           m \in DOMAIN GateFlag => ~Issued(m) /\ Issued(m)',
           m \in {"getaddr", "mempool"} => st["handshakeComplete"],
           st'["handshakeComplete"] => st["handshakeComplete"] \/ m = "getheaders",
           HeaderFlags', PendingNotIssued', WriterAfterConnect'
    PROVE  HInv'
<1> USE GateFlagsFlags
<1>1. /\ Pipe \in Seq(Msgs) /\ Len(wire) <= Len(Pipe)
      /\ Len(Pipe') = Len(Pipe) + 1
      /\ \A k \in 1..Len(Pipe) : Pipe'[k] = Pipe[k]
      /\ Pipe'[Len(Pipe) + 1] = m
  BY PipeType DEF HInv
<1>2. \A n \in DOMAIN GateFlag : Issued(n) => Issued(n)'
  BY DEF Issued
<1>3. m \in DOMAIN GateFlag => \A k \in 1..Len(Pipe) : Pipe[k] # m
  BY DEF HInv, QueuedIsIssued
<1>4. PipeUnique'
  BY <1>1, <1>3 DEF HInv, PipeUnique, Unique
<1>5. m \in {"getaddr", "mempool"} =>
          HeadersBefore(Pipe', Len(Pipe) + 1) \/ Dropped'
  BY <1>1 DEF HInv, HeadersQueued, HeadersBefore
<1>6. PipeOrdered'
  BY <1>1, <1>5 DEF HInv, PipeOrdered, HeadersBefore
<1>7. QueuedIsIssued'
  BY <1>1, <1>2 DEF HInv, QueuedIsIssued
<1>8. HeadersQueued'
  BY <1>1 DEF HInv, HeadersQueued
<1>9. QED
  BY <1>4, <1>6, <1>7, <1>8 DEF HInv

\* A failed write loses the writer's message: from then on the writer
\* drops everything, and the rest of the path keeps its order.
LEMMA PathDropped ==
    ASSUME HInv, TypeOK', wrPc = "Write", Dropped',
           wire' = wire, outgoing' = outgoing, InWriter' = <<>>,
           UNCHANGED <<st, rdPc, rdMsg, runPc, panicked>>,
           WriterAfterConnect'
    PROVE  HInv'
<1>1. /\ Pipe \in Seq(Msgs) /\ Len(wire) < Len(Pipe)
      /\ Len(Pipe') = Len(Pipe) - 1
      /\ \A k \in 1..Len(Pipe') :
            Pipe'[k] = Pipe[IF k <= Len(wire) THEN k ELSE k + 1]
  BY PipeType, PipeDrop DEF HInv, InWriter
<1>2. PipeUnique'
  BY <1>1 DEF HInv, PipeUnique, Unique
<1>3. PipeOrdered'
  BY <1>1 DEF HInv, PipeOrdered, HeadersBefore
<1>4. QueuedIsIssued'
  BY <1>1 DEF HInv, QueuedIsIssued, Issued
<1>5. QED
  BY <1>2, <1>3, <1>4 DEF HInv, HeadersQueued, PendingNotIssued, HeaderFlags,
     Issued, Running

\* A step that leaves the path, the writer, the flags and the reader's
\* pending message alone, and does not reopen a closed socket, keeps the
\* facts about the path.  Stop() is such a step.
LEMMA QuietStep ==
    ASSUME HInv, TypeOK', Running' => Running, WriterAfterConnect',
           UNCHANGED <<wire, wrPc, wrMsg, wrConn, outgoing, st, rdMsg>>,
           rdPc' = rdPc \/ rdPc' # "Send",
           sock = "closed" => sock' = "closed"
    PROVE  HInv'
<1>1. Pipe' = Pipe
  BY DEF Pipe, InWriter
<1>2. Dropped => Dropped' /\ wire' = wire
  BY DEF Dropped
<1>3. \A f \in GateFlags : st[f] => st'[f]
  OBVIOUS
<1>4. Running' => st'["handshakeComplete"] = st["handshakeComplete"]
  OBVIOUS
<1>5. HeaderFlags' /\ PendingNotIssued'
  BY DEF HInv, HeaderFlags, PendingNotIssued, Issued
<1>6. QED
  BY <1>1, <1>2, <1>3, <1>4, <1>5, PathKept

\* The gate flags, spelled out.
LEMMA GateFlagsAre ==
    GateFlags = {"headersRequested", "handshakeComplete",
                 "addressesRequested", "memPoolRequested"}
BY DEF GateFlags, GateFlag

\* What the reader's send does to the flags: it only raises them, it
\* raises the gate of the request it sent, it raises the header gate only
\* for the header request, and it raises the header gate's two flags
\* together.
LEMMA AfterSendFlags ==
    ASSUME st \in [Flags -> BOOLEAN], NEW m \in Msgs
    PROVE  /\ \A f \in Flags : st[f] => AfterSend(m)[f]
           /\ m \in DOMAIN GateFlag => \A f \in GateFlag[m] : AfterSend(m)[f]
           /\ AfterSend(m)["handshakeComplete"] =>
                 st["handshakeComplete"] \/ m = "getheaders"
           /\ (st["headersRequested"] <=> st["handshakeComplete"]) =>
                 (AfterSend(m)["headersRequested"] <=>
                  AfterSend(m)["handshakeComplete"])
<1>1. CASE m = "getheaders"
  <2>1. AfterSend(m) = SetFlags({"headersRequested", "handshakeComplete"})
    BY <1>1 DEF AfterSend, GateFlag
  <2>2. QED
    BY <1>1, <2>1 DEF SetFlags, GateFlag, Flags
<1>2. CASE m = "getaddr"
  <2>1. AfterSend(m) = SetFlags({"addressesRequested"})
    BY <1>2 DEF AfterSend, GateFlag
  <2>2. QED
    BY <1>2, <2>1 DEF SetFlags, GateFlag, Flags
<1>3. CASE m = "mempool"
  <2>1. AfterSend(m) = SetFlags({"memPoolRequested"})
    BY <1>3 DEF AfterSend, GateFlag
  <2>2. QED
    BY <1>3, <2>1 DEF SetFlags, GateFlag, Flags
<1>4. CASE m \notin {"getheaders", "getaddr", "mempool"}
  <2>1. AfterSend(m) = st
    BY <1>4 DEF AfterSend, GateFlag
  <2>2. QED
    BY <1>4, <2>1 DEF GateFlag
<1>5. QED
  BY <1>1, <1>2, <1>3, <1>4

-----------------------------------------------------------------------------
(* The invariant is inductive                                              *)

\* Every step of Run, the reader, the timer, the writer and the outside
\* callers keeps HInv.
LEMMA HInvInductive == HInv /\ [Next]_vars => HInv'
<1> SUFFICES ASSUME HInv, [Next]_vars PROVE HInv'
  OBVIOUS
<1>0. TypeOK'
  BY ProcessInductive, StateInductive DEF HInv, TypeOK
<1> /\ st \in [Flags -> BOOLEAN] /\ sock \in {"none", "open", "closed"}
    /\ wire \in Seq(Msgs) /\ outgoing \in Seq(Msgs) /\ rdMsg \in Msgs
    /\ wrMsg \in Msgs
  BY DEF HInv, TypeOK, StateTypeOK, ProcessTypeOK
<1> USE GateFlagsFlags, GateFlagsAre
<1>1. CASE Running /\ RunConnect
  <2>1. UNCHANGED <<wire, wrPc, wrMsg, wrConn, outgoing, rdPc, rdMsg, panicked>>
        /\ wrPc = "NotStarted" /\ runPc' \in {"Done", "Version"}
    BY <1>1 DEF RunConnect, HInv, WriterAfterConnect
  <2>2. \A f \in GateFlags : st'[f] = st[f]
    <3>1. {"connected"} \in SUBSET Flags /\ {"connected"} \cap GateFlags = {}
      BY DEF Flags
    <3>2. QED
      BY <1>1, <3>1, NoGateFlag DEF RunConnect, Connect
  <2>3. Pipe' = Pipe /\ ~Dropped
    BY <2>1 DEF Pipe, InWriter, Dropped
  <2>4. HeaderFlags' /\ PendingNotIssued' /\ WriterAfterConnect'
    BY <2>1, <2>2 DEF HInv, HeaderFlags, PendingNotIssued, Issued,
       WriterAfterConnect
  <2>5. QED
    BY <1>0, <2>1, <2>2, <2>3, <2>4, PathKept DEF Running
<1>2. CASE Running /\ RunVersion
  <2>1. /\ wrPc = "NotStarted" /\ wrPc' = "Start" /\ rdPc' = "Check"
        /\ runPc' = "Wait" /\ UNCHANGED <<wire, wrMsg, wrConn, sock, st>>
    BY <1>2 DEF RunVersion, HInv, WriterAfterConnect
  <2>2. InWriter' = InWriter /\ ~Dropped /\ ~Dropped'
    BY <2>1 DEF InWriter, Dropped
  <2>3. HeaderFlags' /\ PendingNotIssued' /\ WriterAfterConnect'
    BY <2>1 DEF HInv, HeaderFlags, PendingNotIssued, WriterAfterConnect
  <2>4. CASE outgoingOpen
    <3>1. outgoing' = Append(outgoing, "version")
      BY <1>2, <2>4 DEF RunVersion, Send
    <3>2. Pipe' = Append(Pipe, "version")
      BY <2>1, <2>2, <3>1, PipeAppend, PipeType DEF HInv
    <3>3. /\ "version" \in Msgs /\ "version" \notin DOMAIN GateFlag
          /\ "version" \notin {"getaddr", "mempool"}
          /\ \A f \in GateFlags : st[f] => st'[f]
          /\ st'["handshakeComplete"] => st["handshakeComplete"]
      BY <2>1 DEF Msgs
    <3>4. (Dropped' <=> Dropped) /\ wire' = wire /\ Running
      BY <1>2, <2>1, <2>2
    <3>5. QED
      BY <1>0, <2>3, <3>2, <3>3, <3>4, PathAppended
  <2>5. CASE ~outgoingOpen
    <3>1. outgoing' = outgoing /\ ~Running'
      BY <1>2, <2>5 DEF RunVersion, Send, Running
    <3>2. Pipe' = Pipe
      BY <2>1, <2>2, <3>1 DEF Pipe
    <3>3. QED
      BY <1>0, <2>1, <2>2, <2>3, <3>1, <3>2, PathKept
  <2>6. QED
    BY <2>4, <2>5
<1>3. CASE Running /\ RunWait
  <2>1. UNCHANGED <<wire, wrPc, wrMsg, wrConn, outgoing, st, rdMsg>>
    BY <1>3 DEF RunWait
  <2>2. /\ rdPc' = rdPc \/ rdPc' # "Send"
        /\ sock = "closed" => sock' = "closed"
        /\ Running' => Running
        /\ WriterAfterConnect'
    BY <1>3 DEF RunWait, HInv, WriterAfterConnect, Running
  <2>3. QED
    BY <1>0, <2>1, <2>2, QuietStep
<1>4. CASE Running /\ ReaderCheck
  <2>1. UNCHANGED <<wire, wrPc, wrMsg, wrConn, outgoing, sock, runPc, panicked>>
    BY <1>4 DEF ReaderCheck, UnchangedReader
  <2>2. \A f \in GateFlags : st'[f] = st[f]
    <3>1. {"scoreUpdated"} \in SUBSET Flags
          /\ {"scoreUpdated"} \cap GateFlags = {}
      BY DEF Flags
    <3>2. QED
      BY <1>4, <3>1, NoGateFlag DEF ReaderCheck
  <2>3. PendingNotIssued'
    <3> SUFFICES ASSUME rdPc' = "Send", rdMsg' \in DOMAIN GateFlag
                 PROVE  ~Issued(rdMsg)' /\
                        (rdMsg' # "getheaders" => st'["handshakeComplete"])
      BY DEF PendingNotIssued
    <3>1. /\ rdMsg' = "getheaders" => ~st["handshakeComplete"]
          /\ rdMsg' = "getaddr" =>
                st["handshakeComplete"] /\ ~st["addressesRequested"]
          /\ rdMsg' = "mempool" =>
                st["handshakeComplete"] /\ ~st["memPoolRequested"]
      BY <1>4 DEF ReaderCheck
    <3>2. QED
      BY <2>2, <3>1 DEF Issued, GateFlag
  <2>4. QED
    BY <1>0, <2>1, <2>2, <2>3, PathKept
    DEF Pipe, InWriter, Dropped, HInv, HeaderFlags, WriterAfterConnect, Running
<1>5. CASE Running /\ ReaderSend
  <2>1. UNCHANGED <<wire, wrPc, wrMsg, wrConn, sock, runPc, rdMsg>>
        /\ rdPc = "Send" /\ rdPc' # "Send" /\ st' = AfterSend(rdMsg)
    BY <1>5 DEF ReaderSend, UnchangedReader
  <2>2. /\ \A f \in Flags : st[f] => st'[f]
        /\ rdMsg \in DOMAIN GateFlag => \A f \in GateFlag[rdMsg] : st'[f]
        /\ st'["handshakeComplete"] =>
              st["handshakeComplete"] \/ rdMsg = "getheaders"
        /\ HeaderFlags'
    BY <2>1, AfterSendFlags DEF HInv, HeaderFlags
  <2>3. PendingNotIssued' /\ WriterAfterConnect' /\ InWriter' = InWriter
        /\ (Dropped' <=> Dropped)
    BY <2>1 DEF PendingNotIssued, HInv, WriterAfterConnect, InWriter, Dropped
  <2>4. CASE outgoingOpen
    <3>1. outgoing' = Append(outgoing, rdMsg)
      BY <1>5, <2>4 DEF ReaderSend, Send
    <3>2. Pipe' = Append(Pipe, rdMsg)
      BY <2>1, <2>3, <3>1, PipeAppend, PipeType DEF HInv
    <3>3. rdMsg \in DOMAIN GateFlag => ~Issued(rdMsg) /\ Issued(rdMsg)'
      BY <2>1, <2>2 DEF HInv, PendingNotIssued, Issued
    <3>4. rdMsg \in {"getaddr", "mempool"} => st["handshakeComplete"]
      BY <2>1 DEF HInv, PendingNotIssued
    <3>5. QED
      BY <1>0, <1>5, <2>1, <2>2, <2>3, <3>2, <3>3, <3>4, PathAppended
  <2>5. CASE ~outgoingOpen
    <3>1. outgoing' = outgoing /\ ~Running'
      BY <1>5, <2>5 DEF ReaderSend, Send, Running
    <3>2. Pipe' = Pipe
      BY <2>1, <2>3, <3>1 DEF Pipe
    <3>3. QED
      BY <1>0, <2>1, <2>2, <2>3, <3>1, <3>2, PathKept
  <2>6. QED
    BY <2>4, <2>5
<1>6. CASE Running /\ ReaderRead
  <2>1. UNCHANGED <<wire, wrPc, wrMsg, wrConn, outgoing, st, rdMsg>>
    BY <1>6 DEF ReaderRead, UnchangedReader
  <2>2. /\ rdPc' = rdPc \/ rdPc' # "Send"
        /\ sock = "closed" => sock' = "closed"
        /\ Running' => Running
        /\ WriterAfterConnect'
    BY <1>6 DEF ReaderRead, UnchangedReader, HInv, WriterAfterConnect, Running
  <2>3. QED
    BY <1>0, <2>1, <2>2, QuietStep
<1>7. CASE Running /\ ReaderReadError
  <2>1. UNCHANGED <<wire, wrPc, wrMsg, wrConn, outgoing, st, rdMsg>>
    BY <1>7 DEF ReaderReadError, UnchangedReader
  <2>2. /\ rdPc' = rdPc \/ rdPc' # "Send"
        /\ sock = "closed" => sock' = "closed"
        /\ Running' => Running
        /\ WriterAfterConnect'
    BY <1>7 DEF ReaderReadError, UnchangedReader, HInv, WriterAfterConnect, Running
  <2>3. QED
    BY <1>0, <2>1, <2>2, QuietStep
<1>8. CASE Running /\ ReaderStop
  <2>1. UNCHANGED <<wire, wrPc, wrMsg, wrConn, outgoing, st, rdMsg>>
    BY <1>8 DEF ReaderStop, StopBody, Disconnect, UnchangedByStop
  <2>2. /\ rdPc' = rdPc \/ rdPc' # "Send"
        /\ sock = "closed" => sock' = "closed"
        /\ Running' => Running
        /\ WriterAfterConnect'
    BY <1>8 DEF ReaderStop, StopBody, Disconnect, UnchangedByStop, HInv, WriterAfterConnect, Running
  <2>3. QED
    BY <1>0, <2>1, <2>2, QuietStep
<1>9. CASE Running /\ PeerSends
  <2>1. UNCHANGED <<wire, wrPc, wrMsg, wrConn, outgoing, sock, runPc, panicked>>
    BY <1>9 DEF PeerSends, UnchangedReader
  <2>2. \A f \in GateFlags : st'[f] = st[f]
    <3>1. /\ {"versionReceived"} \in SUBSET Flags
          /\ {"versionReceived"} \cap GateFlags = {}
          /\ {"verified"} \in SUBSET Flags /\ {"verified"} \cap GateFlags = {}
      BY DEF Flags
    <3>2. QED
      BY <1>9, <3>1, NoGateFlag DEF PeerSends
  <2>3. PendingNotIssued'
    <3>1. rdPc' = "Send" => rdMsg' = "reply"
      BY <1>9 DEF PeerSends
    <3>2. QED
      BY <3>1 DEF PendingNotIssued, GateFlag
  <2>4. QED
    BY <1>0, <2>1, <2>2, <2>3, PathKept
    DEF Pipe, InWriter, Dropped, HInv, HeaderFlags, WriterAfterConnect, Running
<1>10. CASE Running /\ TimerCycle
  <2>1. UNCHANGED <<wire, wrPc, wrMsg, wrConn, outgoing, st, rdMsg>>
    BY <1>10 DEF TimerCycle
  <2>2. /\ rdPc' = rdPc \/ rdPc' # "Send"
        /\ sock = "closed" => sock' = "closed"
        /\ Running' => Running
        /\ WriterAfterConnect'
    BY <1>10 DEF TimerCycle, HInv, WriterAfterConnect, Running
  <2>3. QED
    BY <1>0, <2>1, <2>2, QuietStep
<1>11. CASE Running /\ TimerStop
  <2>1. UNCHANGED <<wire, wrPc, wrMsg, wrConn, outgoing, st, rdMsg>>
    BY <1>11 DEF TimerStop, StopBody, Disconnect, UnchangedByStop
  <2>2. /\ rdPc' = rdPc \/ rdPc' # "Send"
        /\ sock = "closed" => sock' = "closed"
        /\ Running' => Running
        /\ WriterAfterConnect'
    BY <1>11 DEF TimerStop, StopBody, Disconnect, UnchangedByStop, HInv, WriterAfterConnect, Running
  <2>3. QED
    BY <1>0, <2>1, <2>2, QuietStep
<1>12. CASE Running /\ WriterStart
  <2>1. /\ UNCHANGED <<wire, wrMsg, outgoing, sock, st, rdPc, rdMsg, runPc, panicked>>
        /\ wrPc = "Start" /\ wrPc' = "Recv"
    BY <1>12 DEF WriterStart, UnchangedWriter
  <2>2. Pipe' = Pipe /\ ~Dropped
    BY <2>1 DEF Pipe, InWriter, Dropped
  <2>3. QED
    BY <1>0, <2>1, <2>2, PathKept
    DEF HInv, HeaderFlags, PendingNotIssued, Issued, WriterAfterConnect, Running
<1>13. CASE Running /\ WriterRecv
  <2>1. /\ UNCHANGED <<wire, wrConn, sock, st, rdPc, rdMsg, runPc, panicked>>
        /\ wrPc = "Recv" /\ wrPc' \in {"Write", "Exit"}
    BY <1>13 DEF WriterRecv, UnchangedWriter
  <2>2. (Dropped' <=> Dropped) /\ InWriter = <<>>
    BY <2>1 DEF Dropped, InWriter
  <2>3. Pipe' = Pipe
    <3>1. CASE outgoing # <<>>
      <4>1. wrPc' = "Write" /\ wrMsg' = Head(outgoing)
            /\ outgoing' = Tail(outgoing)
        BY <1>13, <3>1 DEF WriterRecv
      <4>2. InWriter' = <<Head(outgoing)>>
        BY <4>1 DEF InWriter
      <4>3. QED
        BY <2>1, <2>2, <3>1, <4>1, <4>2, PipeRecv
    <3>2. CASE outgoing = <<>>
      <4>1. wrPc' = "Exit" /\ outgoing' = outgoing
        BY <1>13, <3>2 DEF WriterRecv
      <4>2. QED
        BY <2>1, <2>2, <4>1 DEF Pipe, InWriter
    <3>3. QED
      BY <3>1, <3>2
  <2>4. QED
    BY <1>0, <2>1, <2>2, <2>3, PathKept
    DEF HInv, HeaderFlags, PendingNotIssued, Issued, WriterAfterConnect, Running
<1>14. CASE Running /\ WriterWrite
  <2>1. /\ UNCHANGED <<wrMsg, wrConn, outgoing, sock, st, rdPc, rdMsg, runPc,
                      panicked>>
        /\ wrPc = "Write" /\ wrPc' = "Recv"
    BY <1>14 DEF WriterWrite, UnchangedWriter
  <2>2. InWriter = <<wrMsg>> /\ InWriter' = <<>>
    BY <2>1 DEF InWriter
  <2>3. WriterAfterConnect'
    BY <2>1 DEF HInv, WriterAfterConnect
  <2>4. CASE wrConn /\ sock = "open" /\ ~PeerStalls
    <3>1. wire' = Append(wire, wrMsg)
      BY <1>14, <2>4 DEF WriterWrite
    <3>2. Pipe' = Pipe /\ ~Dropped
      BY <2>1, <2>2, <2>4, <3>1, PipeWrite DEF Dropped
    <3>3. QED
      BY <1>0, <2>1, <2>3, <3>2, PathKept
      DEF HInv, HeaderFlags, PendingNotIssued, Issued, Running
  <2>5. CASE ~(wrConn /\ sock = "open" /\ ~PeerStalls)
    <3>1. wire' = wire /\ (~wrConn \/ sock = "closed")
      BY <1>14, <2>5 DEF WriterWrite
    <3>2. Dropped'
      BY <2>1, <3>1 DEF Dropped
    <3>3. QED
      BY <1>0, <2>1, <2>2, <2>3, <3>1, <3>2, PathDropped
  <2>6. QED
    BY <2>4, <2>5
<1>15. CASE Running /\ ExtCallStop
  <2>1. UNCHANGED <<wire, wrPc, wrMsg, wrConn, outgoing, st, rdMsg>>
    BY <1>15 DEF ExtCallStop
  <2>2. /\ rdPc' = rdPc \/ rdPc' # "Send"
        /\ sock = "closed" => sock' = "closed"
        /\ Running' => Running
        /\ WriterAfterConnect'
    BY <1>15 DEF ExtCallStop, HInv, WriterAfterConnect, Running
  <2>3. QED
    BY <1>0, <2>1, <2>2, QuietStep
<1>16. CASE Running /\ ExtStop
  <2>1. UNCHANGED <<wire, wrPc, wrMsg, wrConn, outgoing, st, rdMsg>>
    BY <1>16 DEF ExtStop, StopBody, Disconnect, UnchangedByStop
  <2>2. /\ rdPc' = rdPc \/ rdPc' # "Send"
        /\ sock = "closed" => sock' = "closed"
        /\ Running' => Running
        /\ WriterAfterConnect'
    BY <1>16 DEF ExtStop, StopBody, Disconnect, UnchangedByStop, HInv, WriterAfterConnect, Running
  <2>3. QED
    BY <1>0, <2>1, <2>2, QuietStep
<1>17. CASE Running /\ BcLock
  <2>1. UNCHANGED <<wire, wrPc, wrMsg, wrConn, outgoing, st, rdMsg>>
    BY <1>17 DEF BcLock
  <2>2. /\ rdPc' = rdPc \/ rdPc' # "Send"
        /\ sock = "closed" => sock' = "closed"
        /\ Running' => Running
        /\ WriterAfterConnect'
    BY <1>17 DEF BcLock, HInv, WriterAfterConnect, Running
  <2>3. QED
    BY <1>0, <2>1, <2>2, QuietStep
<1>18. CASE Running /\ BcSend
  <2>1. UNCHANGED <<wire, wrPc, wrMsg, wrConn, sock, st, rdPc, rdMsg, runPc>>
    BY <1>18 DEF BcSend
  <2>2. InWriter' = InWriter /\ (Dropped' <=> Dropped)
        /\ HeaderFlags' /\ PendingNotIssued' /\ WriterAfterConnect'
    BY <2>1 DEF InWriter, Dropped, HInv, HeaderFlags, PendingNotIssued,
       Issued, WriterAfterConnect
  <2>3. CASE outgoingOpen
    <3>1. outgoing' = Append(outgoing, "tx")
      BY <1>18, <2>3 DEF BcSend, Send
    <3>2. Pipe' = Append(Pipe, "tx")
      BY <2>1, <2>2, <3>1, PipeAppend, PipeType DEF HInv
    <3>3. /\ "tx" \in Msgs /\ "tx" \notin DOMAIN GateFlag
          /\ "tx" \notin {"getaddr", "mempool"}
          /\ \A f \in GateFlags : st[f] => st'[f]
          /\ st'["handshakeComplete"] => st["handshakeComplete"]
      BY <2>1 DEF Msgs
    <3>4. QED
      BY <1>0, <1>18, <2>1, <2>2, <3>2, <3>3, PathAppended DEF Running
  <2>4. CASE ~outgoingOpen
    <3>1. outgoing' = outgoing /\ ~Running'
      BY <1>18, <2>4 DEF BcSend, Send, Running
    <3>2. Pipe' = Pipe
      BY <2>1, <2>2, <3>1 DEF Pipe
    <3>3. QED
      BY <1>0, <2>1, <2>2, <3>1, <3>2, PathKept
  <2>5. QED
    BY <2>3, <2>4
<1>19. CASE Halted \/ UNCHANGED vars
  <2>1. UNCHANGED vars
    BY <1>19 DEF Halted
  <2>2. QED
    BY <1>0, <2>1, QuietStep DEF vars, HInv, WriterAfterConnect, Running
<1>20. QED
  BY <1>1, <1>2, <1>3, <1>4, <1>5, <1>6, <1>7, <1>8, <1>9, <1>10, <1>11,
     <1>12, <1>13, <1>14, <1>15, <1>16, <1>17, <1>18, <1>19 DEF Next


\* NewUntrustedNode's state satisfies HInv: nothing is queued or written
\* and no flag is raised.
LEMMA InitHInv == Init => HInv
<1> SUFFICES ASSUME Init PROVE HInv
  OBVIOUS
<1>1. TypeOK
  BY InitType
<1>2. Pipe = <<>>
  BY DEF Init, Pipe, InWriter
<1>3. ~st["handshakeComplete"] /\ ~st["headersRequested"]
  BY DEF Init, Flags
<1>4. QED
  BY <1>1, <1>2, <1>3 DEF Init, HInv, PipeUnique, Unique, PipeOrdered,
     QueuedIsIssued, PendingNotIssued, HeadersQueued, HeaderFlags,
     WriterAfterConnect

\* The wire is the start of the path, so what HInv says of the path it
\* says of the wire; the writer drops nothing it has written.
LEMMA HInvHandshake == HInv => HandshakeOrder
<1> SUFFICES ASSUME HInv PROVE HandshakeOrder
  OBVIOUS
<1>1. \A i \in 1..Len(wire) : Pipe[i] = wire[i] /\ i <= Len(Pipe)
  BY PipeType DEF HInv, TypeOK, StateTypeOK
<1>2. \A i, j \in 1..Len(wire) :
          i < j /\ wire[i] = wire[j] => wire[i] \notin DOMAIN GateFlag
  BY <1>1 DEF HInv, PipeUnique, Unique
<1>3. \A i \in 1..Len(wire) :
          wire[i] \in {"getaddr", "mempool"} =>
              \E j \in 1..(i - 1) : wire[j] = "getheaders"
  <2> SUFFICES ASSUME NEW i \in 1..Len(wire), wire[i] \in {"getaddr", "mempool"}
               PROVE  \E j \in 1..(i - 1) : wire[j] = "getheaders"
    OBVIOUS
  <2>1. HeadersBefore(Pipe, i)
    BY <1>1 DEF HInv, PipeOrdered
  <2>2. PICK j \in 1..(i - 1) : Pipe[j] = "getheaders"
    BY <2>1 DEF HeadersBefore
  <2>3. j \in 1..Len(wire)
    OBVIOUS
  <2>4. QED
    BY <1>1, <2>2, <2>3
<1>4. QED
  BY <1>2, <1>3 DEF HandshakeOrder

\* HandshakeOrder (checked by the node run), for every channel capacity
\* and bound: check()'s one-shot gates put each handshake request on the
\* wire at most once, and the address and mempool requests only after the
\* header request -- however the reader, the writer, the timer, Stop()
\* and BroadcastTx() interleave, and whether the peer reads or stalls.
THEOREM RequestsInOrder == Spec => []HandshakeOrder
<1>1. Init => HInv
  BY InitHInv
<1>2. HInv /\ [Next]_vars => HInv'
  BY HInvInductive
<1>3. HInv => HandshakeOrder
  BY HInvHandshake
<1>4. QED
  BY <1>1, <1>2, <1>3, PTL DEF Spec

=============================================================================
