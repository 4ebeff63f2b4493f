# TLA+ models of the spynode mempool, peer connection, voting systems and inspector

This directory holds TLA+ specifications of the concurrent parts of the
repository (the spynode mempool and peer connection) and of its pure
decision procedures (the vote tallies and the inspector's recognition of
protocol messages), the TLC configurations that model-check them, and
TLAPS proofs about the mempool and the peer connection.

## 1. The system and its parts

| Part | Source | State | Operations | Concurrency |
|---|---|---|---|---|
| Mempool | `src/pkg/spynode/handlers/data/mempool.go` | `txs` (tracked hashes), `inputs` (outpoint hash -> list of spending tx hashes), `requests` (tx hash -> time of last request), one `sync.Mutex` | `AddRequest`, `AddTransaction`, `RemoveTransaction`, `TransactionExists`, `Conflicting` | Shared by every peer connection. Each method locks the mutex for its whole body. |
| Untrusted peer connection | `src/pkg/spynode/untrusted_node.go` | `conn`, buffered channel `outgoing` (capacity 100) with flag `outgoingOpen`, `stopping`, `Active`, the handshake flags of `state`, the peer's score | `Run`, `Stop`, `BroadcastTx`, `ProcessBlock`, and the goroutines `monitorIncoming` (with `check`), `monitorRequestTimeouts` and `sendOutgoing` | Four goroutines per node, plus outside callers of `Stop` and `BroadcastTx`. Only some accesses take `node.mutex`. |
| Connection state, command handlers, `sendOutgoing`, TxTracker | not under `src/` | handshake flags, tracked requests | handle a message, check timeouts, check the tracker, write queued messages | Called from the node's goroutines. |
| Voting systems | `src/internal/vote/systems.go` | none (pure functions) | `GetVotingSystemCode`, `NewVotingSystem`, `Winners` of each voting system | none |
| Inspector | `src/pkg/inspector/inspector.go` | none | transaction decoding, `NewTransactionFromWire`, `isTokenizedOpReturn` | none |

How they interact:
- Every `UntrustedNode` has a `monitorIncoming` goroutine.
- That goroutine reads messages from the peer and dispatches them to the command handlers.
- The handlers call into the one shared mempool.

The voting systems and the inspector are called by the contract's
request handlers (outside `src/` as far as this project goes); they have
no state, so each is modelled as operators plus a harness that calls them
on every input of a small alphabet.

The two stateful parts are modelled separately. The mempool is shared by
peers and its methods are atomic under its mutex. This is why the model
lets each `p \in Peers` call any method at any time.

### The hard behaviours

- **Mempool.**
  - `Conflicting` calls `RemoveTransaction` while it holds the non-reentrant mutex.
  - `AddTransaction` appends to a slice copy and never stores the result.
  - `RemoveTransaction` compares list elements against the *outpoint* hash, and deletes any one-element list.
  - These defects only show after a sequence of calls by different peers with double-spending transactions.
- **Peer connection.**
  - `Stop` closes `outgoing` while other goroutines still send on it without the mutex. This happens for:
    - `Run`'s version message after an early `Stop`;
    - `check`'s requests;
    - handler replies.
  - The reader passes `node.conn` to `ReadMessage` after `Stop` set it to nil.
  - `BroadcastTx` blocks on a full channel while holding `node.mutex`, so `Stop` cannot run.
  - `BroadcastTx` before `Run` queues a tx ahead of the version message.
  - The one-shot handshake gates of `check` must send each request once and in order, while the timer, `Stop` and `BroadcastTx` run at the same time.
  - After a failed connect no goroutine drains `outgoing`, yet `BroadcastTx` keeps queueing into it.
- **Voting systems.**
  - Sums of `uint64` weights wrap around (only when the holdings are inconsistent with the asset's quantity).
  - The thresholds are `float64`; a division by zero holders is `+Inf` or `NaN`.
  - Loops that `break` at the first qualifying option visit a Go map in random order.
- **Inspector.**
  - The version is looked for at a fixed offset whatever the push opcode.
  - Every output carrying the signature overwrites the message, and an earlier non-OP_RETURN one aborts the transaction.

## 2. Modules

### `MemPool.tla`: the mempool

- **Data.**
  - A transaction is a model value of `Tx`.
  - The outpoints it spends are the fixed set `Spends[h]`, because a hash determines its inputs.
  - An outpoint stands for its hash.
  - `inputs` is a total function, and `<<>>` means "no entry": the code only ever stores non-empty lists.
  - The first-seen time in `memPoolTx` is never read, so it is left out.
- **Variables:** `txs`, `inputs`, `requests`, `mutex` (a peer or `NoHolder`), `pc` (per peer: `Idle`, or `RemoveWait` while stuck in `Conflicting`) and the clock `now`.
- **Actions:** one per method, each the whole method body under the mutex. There are four:
  - `AddRequest` has three disjuncts: already tracked; recorded; requested no more than 3 s ago.
  - `AddTransaction` only creates one-element lists. The appended list is never stored.
  - `RemoveTransaction` works through `RemoveInputs`:
    - it deletes any entry with at most one element;
    - it leaves longer entries as they were, since the search compares against the outpoint hash and its result is dropped.
  - `Conflicting`:
    - when no outpoint of `h` is indexed, it returns nothing;
    - otherwise it takes the mutex and waits for ever in `RemoveWait`, which is the nested `Lock()`.
- `Tick` advances the clock up to `MaxTime`.
- `TransactionExists` is read-only and is used as a guard.

### `UntrustedNode.tla`: one peer connection

- **Processes.** Each process is a program counter:
  - `runPc`: `Run`;
  - `rdPc`: `monitorIncoming` and `check`;
  - `tmPc`: `monitorRequestTimeouts`;
  - `wrPc`: the goroutine running `sendOutgoing`;
  - `extPc`: the owner calling `Stop`;
  - `bcPc` and `bcCount`: a caller of `BroadcastTx`.
- **Shared state:**
  - `mutex`;
  - `outgoing`, a sequence bounded by `Cap`;
  - `outgoingOpen`, which also means the channel is not closed;
  - `conn`, the TCP socket `sock`, `stopping`, `active`, the flags `st`, `score`, `peerMsgs`, `wire` (what reached the peer) and `panicked`.
- **Steps.**
  - Each action is one access to shared state.
  - A step that blocks has a false guard: a send on a full channel, a lock on a held mutex, or a read with nothing to read.
  - A send on a closed channel (`Send`) sets `panicked`, and so does a read through a nil `conn` (`ReaderRead`). After a panic nothing moves.
- **Actions and the code they model:**
  - `RunConnect` is the dial, which fails or succeeds.
  - `RunVersion` is line 76 and the starting of the goroutines.
  - `RunWait` is `wg.Wait` and `Active = false`.
  - `ReaderStop`, `TimerStop` and `ExtStop` are the `Stop` body in each caller.
  - `BcLock` and `BcSend` are `BroadcastTx`.
  - `ReaderCheck` is the gates of `check` in the code's order.
  - `ReaderSend` is the send of a gate or reply.
  - `ReaderRead`, `ReaderReadError` and `PeerSends` are the read loop and the handlers.
  - `TimerCycle` is `monitorRequestTimeouts`.
  - `WriterStart`, `WriterRecv` and `WriterWrite` are `sendOutgoing`.
- **Modelled from the spec, since the code is not under `src/`:**
  - the handlers, `sendOutgoing`, `CheckTimeouts` (`TimeoutPossible`) and `TxTracker.Check`;
  - `PROJECT.json` marks these map entries `spec_modelled`.
- **Peer behaviour.** The peer is untrusted and, for each message, may do any of these:
  - send version;
  - send headers;
  - send a message that is answered;
  - send a message the handler rejects (score -1 and Stop);
  - close the stream or send undecodable bytes (Stop).

  The constant `PeerStalls` makes it stop reading.


### `VoteSystems.tla`: the voting systems

- **Data.**
  - A contract is its code and its assets (asset ID -> the asset's own code and its number of holdings).
  - A vote is its asset ID (`""` for a contract vote), its number of ballots and its result map (option -> weight).
  - Weights and sums are taken modulo `2^Width` (`Modulus`): `Width = 64` in the code.
- **Operators, one per function:**
  - `GetVotingSystemCode` and `NewVotingSystem` (the `votingSystems` table is `VotingSystems`);
  - `MajorityVote`, `AbsoluteMajority`, `PluralityVotingSystem`, `SuperMajority`, `AbsoluteSuperMajority` and `NoVotingRights`, dispatched by `Winners`.
  - `TotalValue` is the wrapping sum, `TokenHolderCount` the holder count, and `AssetMissing` the "Asset not found" return.
  - `FirstFound` is a loop that stops at the first qualifying option: any one of them can be first, so a tally is the *set* of results a call can return.
- **Float arithmetic.** The `float64` comparisons are written as exact integer ones (`100 * w >= 67 * total`). For totals below 1500, `float64(total) * 0.67` and `* 0.5` compare with an integer exactly as the fractions do; this was checked exhaustively for every total and weight in that range. The instances checked here stay far below it. A turnout test with zero holders is treated as passing, as `NaN` and `+Inf` compare.
- **Reference.** `ReferenceWinners` is written from the systems' doc comments, in exact arithmetic. It lets no option win a vote in which nothing was cast, and no turnout be reached without holders. `Decided` is the interface's "a single winner".
- **Harness.** `contract`, `vote` and `out`: `Init` picks any contract and vote of the alphabet, and each action calls one function and records its result.

### `Inspector.tla`: recognising protocol messages

- **Data.** A script is a sequence of bytes; Go's slice `s[a:b]` is `SubSeq(s, a + 1, b)`. A transaction is its number of inputs and its sequence of output scripts. A decoded message (`protocol.New` is outside the repository) is named by the index of its output.
- **Operators:** `IsTokenizedOpReturn` (`isTokenizedOpReturn`) and `NewTransactionFromWire` (its early returns and its output loop, the last recognised output winning).
- **Reference:** `PushStart` and `PushLength` read the first push of a script as Bitcoin script defines it (direct pushes 1..75; `OP_PUSHDATA1`, `2` and `4` with 1, 2 or 4 length bytes); `CarriesVersion` says that push holds at least four bytes starting with the version.
- **Harness:** `tx` and `out`; the actions call the two functions.

### `MC_MemPool.tla`, `MC_UntrustedNode.tla`, `MC_VoteSystems.tla`, `MC_Inspector.tla`

These modules instantiate the specifications for TLC. The MC modules hold
the small constant values, and each `.cfg` names the specification and the
properties it checks.

### `HandshakePhases.tla`: what the handshake promises

This is an abstract specification of the progression that spec 4.2 lists: Connected, VersionReceived, HandshakeComplete, Verified, then the score bump, the address request and the mempool request.
- State: `done[i]` (phase `i` of the seven has been reached) and `score` (the sum of the reputation deltas for the peer).
- Actions:
  - `Advance(i)` reaches phase `i` once the phase before it is reached. It adds 5 to the score for phase 5 (the score bump) and nothing otherwise;
  - `Penalize` takes a point and moves no phase.

`UntrustedNode` implements it under this refinement mapping:
- `done <- [i \in 1..Len(Chain) |-> st[Chain[i]]]`, where `Chain` lists the flags of `node.state` in the order `check()` tests them (untrusted_node.go:199-237);
- `score <- score`.

Steps correspond as follows:
- `connect()` is `Advance(1)`;
- the version handler is `Advance(2)`;
- the header request's send is `Advance(3)`;
- the headers handler is `Advance(4)` once the handshake is complete;
- the score gate is `Advance(5)`;
- the getaddr and mempool sends are `Advance(6)` and `Advance(7)`;
- a failed dial, a rejected message and a timeout are `Penalize`;
- every other step stutters, including a raise of a flag that is already set.

### `MemPoolProofs.tla`, `UntrustedNodeProofs.tla`, `HandshakeProofs.tla`, `PhasesProofs.tla`, `InspectorProofs.tla`, `VoteSystemsProofs.tla`

The TLAPS proofs, described in section 5.

## 3. Properties and runs

| Run | cfg | Expect | Checks | What it shows |
|---|---|---|---|---|
| mempool | `MC_MemPool.cfg` | pass | `TypeOK`, `IndexSound` | Two peers, three txs (t2 double-spends t1 on o1 and t3 on o2), clock up to 5 s. No index entry ever points at an untracked tx or at a tx that does not spend the outpoint. 35k states. |
| mempool_self_deadlock | `MC_MemPool_NoSelfDeadlock.cfg` | violation | `NoSelfDeadlock` | `AddTransaction(t1)`, then `Conflicting(t2)`: the peer blocks on the mutex it holds, and every later mempool call of every peer blocks. |
| mempool_spend_unindexed | `MC_MemPool_SpendsIndexed.cfg` | violation | `SpendsIndexed` | Add t1, add t2, remove t1. t2 is tracked but its spend of o1 has no entry, so a later double spend of o1 is invisible to `Conflicting`. |
| node | `MC_UntrustedNode.cfg` | pass | `TypeOK`, `HandshakeOrder`, `StoppedWhenReturned`, `ShutdownCompletes`, `PhasesRefined` | See the four points below. 942k states; deadlock checking is off, because the node really blocks for good (node_stall_hang). |
| node_panic | `MC_UntrustedNode_NoPanic.cfg` | violation | `NoPanic` | `Stop` before `Run` reaches line 76: the version send panics on the closed channel. Other traces reach the same panic through check's sends, or the nil-conn read. |
| node_version_first | `MC_UntrustedNode_VersionFirst.cfg` | violation | `VersionFirst` | `BroadcastTx` before `Run` locks: the peer's first message is a tx. |
| node_stall_hang | `MC_UntrustedNode_Stall.cfg` | violation | `RunTerminates` | With a peer that reads: `Stop` is called, two `BroadcastTx` calls fill the channel before `Run` starts, and `Run` then blocks at its version send (line 76) holding the mutex, with no writer yet. `Stop` waits for the mutex forever and `Run` never returns. |
| vote | `MC_VoteSystems.cfg` | pass | `TypeOK`, `AgreesWithReference` | Every system decides as its description says whenever the sum does not wrap, is not zero and, for A and T, there are holders. 652k states. |
| vote_zero_total | `MC_VoteSystems_NoWinnerWithoutVotes.cfg` | violation | `NoWinnerWithoutVotes` | Weights (0, 0): SuperMajority's `0 >= 0.67 * 0` holds and option 0 wins. |
| vote_no_holders | `MC_VoteSystems_TurnoutNeedsHolders.cfg` | violation | `TurnoutNeedsHolders` | A contract with no assets, one ballot, weights (0, 1): the turnout `1/0` is `+Inf`, the test passes and T declares option 1. |
| inspector | `MC_Inspector.cfg` | pass | `TypeOK`, `RecognisesShortPushes` | For direct and `OP_PUSHDATA1` pushes of at least four bytes the check agrees with the script. 81k states. |
| inspector_every_push | `MC_Inspector_RecognisesEveryPush.cfg` | violation | `RecognisesEveryPush` | The script `6a 03 00 00 00 20 ...` (a 3-byte push, then the version bytes) is taken for a message; `OP_PUSHDATA2` and `OP_PUSHDATA4` messages are missed. |

What the passing `node` run shows:
- `HandshakeOrder`: getheaders, getaddr and mempool reach the peer at most once each, and getaddr and mempool only after getheaders.
- `PhasesRefined`: the node implements `HandshakePhases` (section 2). The handshake flags are raised in the order of spec 4.2, each once, and never cleared. The +5 is reported exactly when `ScoreUpdated` is raised after `Verified`. The instance reaches the last phase (`memPoolRequested`).
- `StoppedWhenReturned`: when `Run` returns after connecting, the channel and the connection are closed.
- `ShutdownCompletes`: once `Run` has started its three goroutines and waits on them, a call of `Stop` ends them all: the timer sees `stopping`, the reader's read fails on the closed connection, and the writer finds the channel closed and drained. `Run` then returns, or the process has died. This holds whatever the reader, the handlers and `BroadcastTx` do meanwhile. The stronger `RunTerminates` (every `Stop` ends `Run`) fails; that is the node_stall_hang finding.

Every passing property has a mutant in `PROJECT.json`. Each mutant is a
plausible bug that TLC catches:
- `AddTransactionStoresAppend` stores the appended list;
- `DisconnectKeepsConn`;
- `AfterSendForgetsFlag`;
- `ReaderCheckSkipsVerified` (the score gate does not test `Verified`);
- `TimerCycleIgnoresStopping`;
- `SendUnbounded`;
- `AddRequestStoresDeadline`;
- `MajorityVoteAtHalf` (`>=` for `>`) and `PluralityCollectsWeights` (collects weights, not options);
- `IsTokenizedOpReturnOffByOne`, `NewTransactionFromWireNilWhenPlain` (a nil transaction when no output carries a message).

**Bounds.**

*Mempool:*
- Three transactions over two outpoints give every overlap shape: a tx with one input, a tx with two inputs, and two double spends.
- Two peers give a second party to block on the held mutex.
- A clock of 5 s gets past the 3 s request window.

*Node:*
- `Cap = 2` lets the channel fill.
- `MaxPeerMsgs = 3` lets the peer complete the handshake (version, then headers) and send one more message.
- `MaxBroadcasts = 2` lets a tx race the version message. It also lets the callers fill the channel before `Run` starts the writer, which is the hang of node_stall_hang. With one broadcast fewer than `Cap` that hang is out of reach.

*Voting systems:*
- Two options are enough for a winner, a draw and a minority. `Width = 3` gives weights 0..7; `AgreesWithReference` is asked only where their sum does not wrap, because the weights are holdings of one asset and the asset's `uint64` quantity bounds their sum.
- Up to 3 ballots against up to 2 holdings in each of two assets makes each turnout test pass, fail, and meet zero holders, for contract votes and asset votes, with and without an unknown asset.
- Codes `A` (known) and `Q` (unknown) exercise both returns of `NewVotingSystem`; the two asset IDs are symmetric.

*Inspector:*
- Scripts start with OP_RETURN or OP_DUP; the push opcode is a 3-byte push, a 20-byte push, or `OP_PUSHDATA1`, `2` or `4`; the version sits at the offset where each push's data starts, or nowhere; lengths 19 and 20 sit on either side of the 20-byte bound. Two outputs let a later output overwrite an earlier one.

*Symmetry:* peers are symmetric in the mempool model and the run uses
`SYMMETRY`. Deadlock checking is off for the mempool, because the code
really deadlocks there (that is the `NoSelfDeadlock` finding). It is off for the node runs too, for the same reason (the node_stall_hang finding).

**Fairness.**
- `FairSpec` puts weak fairness on every step of the node's own goroutines and on the outside callers once they have called. The Go scheduler runs every runnable goroutine, so these steps are justified.
- Nothing forces the peer to send, the owner to call `Stop`, or `BroadcastTx` to be called. These are the environment's choices.
- `ShutdownCompletes` and `RunTerminates` are conditioned on a `Stop` having been called for that reason.

## 4. Findings

The violation runs show eight defects:
1. The `Conflicting` self-deadlock (mempool.go:169).
2. Second spenders are never indexed, and removing the first spender unindexes the outpoint (mempool.go:85, 130-136).
3. Panics from sends on the closed `outgoing`, and from the nil-conn read, after `Stop` (untrusted_node.go:76, 175, 210-246).
4. The tx ahead of version (untrusted_node.go:125).
5. The `Stop` hang when the channel is full before `Run` starts its writer (untrusted_node.go:76), even with a peer that reads. `BroadcastTx` blocks under the mutex the same way when the peer stalls (untrusted_node.go:125).
6. SuperMajority declares a random winner when nothing was cast (systems.go:221).
7. AbsoluteMajority and AbsoluteSuperMajority pass the turnout test with zero holders (systems.go:150, 264).
8. `isTokenizedOpReturn` reads the version at the wrong place for `OP_PUSHDATA2`/`4` and for pushes under four bytes (inspector.go:140-144).

Two more hazards are listed in `PROJECT.json` without a run of their own:
- after a failed connect `BroadcastTx` fills a channel nobody drains and `Stop` hangs (untrusted_node.go:66) -- the blocked send under the mutex of finding 5;
- undecodable input ends the connection without the penalty spec 7 asks for (untrusted_node.go:182-186);
- an earlier non-OP_RETURN output carrying the signature makes `NewTransactionFromWire` fail even when a valid message follows (inspector.go:102-110).

Details are under `findings` in `PROJECT.json`.

## 5. Proofs (checked by `tlapm`)

### `MemPoolProofs.tla`

Both results hold for every set of transactions, outpoints and peers, every
`Spends` and every `MaxTime \in Nat`. They rest on three assumptions:
- `SpendsAssumption`: `Spends` maps each tx to a set of outpoints;
- `NoHolderAssumption`;
- `MaxTimeAssumption`.

- `TypeCorrect`: `Spec => []TypeOK`.
  - It rests on the lemma `TypeInductive`, which has one step per action.
  - `AddTransaction` and `RemoveTransaction` are each split by `CASE TransactionExists(h)`.
  - In each case, the new value of `inputs` is first stated explicitly, and its type is then derived from it.
- `IndexSoundness`: `Spec => []IndexSound`.
  - `IndexSound` alone is not inductive. If some list held two hashes, `RemoveTransaction` would leave it in place after removing one of them, because the search compares against the outpoint hash.
  - The strengthening `IInv == TypeOK /\ IndexSound /\ SingleSpender` adds that no list has more than one element. That holds because `AddTransaction` never stores an appended list.
  - With it, every list `RemoveTransaction` leaves in place belongs to an outpoint the removed tx does not spend.
  - `IInv` was checked by TLC as an invariant before it was proved.
  - The lemma `IndexUnchanged` covers the steps that leave `txs` and `inputs` alone.

### `UntrustedNodeProofs.tla`

Both results hold for every channel capacity `Cap > 0`, every
`MaxBroadcasts`, `MaxPeerMsgs \in Nat` and either value of `PeerStalls`
(the module's three `ASSUME`s).

- `NodeTypeCorrect`: `Spec => []TypeOK`.
  - `TypeOK` is written as `ProcessTypeOK /\ StateTypeOK` (program counters, mutex, socket, panic; and the data). The SMT backend cannot take the whole of it in one obligation, so the lemmas `ProcessInductive` and `StateInductive` each have one step per action.
  - Lemmas on the helpers: `SendKeepsChannel` (a send keeps the channel within `Cap`), `SendPanics`, `SetFlagsType` and `AfterSendType`.
- `StoppedOnReturn`: `Spec => []StoppedWhenReturned`.
  - `StoppedWhenReturned` alone is not inductive. `RunWait` needs to know that a reader that exited has stopped the node, and that stopping has cleared `conn` and closed the socket.
  - The strengthening `IInv` adds six facts:
    - `ConnMatchesSocket`: `conn` is set exactly while the socket is open.
    - `StopClosesChannel`: `stopping` implies `~outgoingOpen`.
    - `ReaderExitsByStop`: the reader only exits through `Stop`.
    - `StoppedIsDisconnected`: a running node past `connect()` that is stopping has no `conn`. A `Stop` before `connect()` is followed by the version send on the closed channel, which panics. That is why the fact is conditioned on `Running`.
    - `ConnectedHasSocket`.
    - `BeforeConnect`: before `connect()` nothing is connected and the reader has not started.
  - `InvInductive` has one step per action. The steps that change `st` use `SetFlagsConnected` and `AfterSendConnected`: only `connect()` raises `connected`.
  - `IInv` was checked by TLC on the node instance (244k states) before it was proved.

### `HandshakeProofs.tla`

- `RequestsInOrder`: `Spec => []HandshakeOrder`, under the same three assumptions.
  - `HandshakeOrder` talks only about `wire`, and it is not inductive. A request still in the channel or held by the writer reaches the wire later.
  - The strengthening therefore follows a request along the whole path `Pipe == wire \o InWriter \o outgoing`. Every step of the node appends to the end of `Pipe` (a send), moves nothing (a receive or a successful write), or removes from the part after `wire` (a failed write once the connection is dropped). The lemmas `PipeAppend`, `PipeRecv`, `PipeWrite` and `PipeDrop` state this.
  - `HInv` is `TypeOK` plus six facts:
    - `PipeUnique`: no gated request occurs twice in `Pipe`.
    - `PipeOrdered`: each getaddr or mempool in `Pipe` has a getheaders before it, unless it sits past `wire` on a dropped connection, where it never reaches the peer.
    - `QueuedIsIssued`: a request in `Pipe` has its one-shot flags set.
    - `PendingNotIssued`: a request `check` is about to send does not have them yet. A getaddr or mempool is only about to be sent after the handshake completed.
    - `HeadersQueued`: once the handshake completed, getheaders is in `Pipe` or the connection is dropped.
    - `HeaderFlags` and `WriterAfterConnect` tie the flags and the writer to `connect()`.
  - `HInvInductive` has one step per action. The lemmas `PathKept`, `PathAppended`, `PathDropped` and `QuietStep` carry `PipeOrdered` across the three kinds of change to `Pipe`. `AfterSendFlags` shows that the flags `check` raises are those of the message it queues.
  - `HInv` was checked by TLC on the node instance, with both values of `PeerStalls`, before it was proved.

### `PhasesProofs.tla`

- `PhasesRefinement`: `Spec => PhasesRefined`, where `PhasesRefined` is `Phases!Spec`, the `HandshakePhases` specification under the mapping of section 2. It holds for every capacity and bound.
  - The flags only rise (lemma `FlagsRise`): no step of the node clears a flag of `node.state`.
  - A step raises at most one flag of the chain, and the guard of that step has just read the flag before it. The lemmas `AdvanceStep`, `KeepStep` and `RaiseStep` turn such a raise into `Advance(i)`, or into a stutter when the flag was already set. `OnlyPhases` names the one chain flag each raise touches.
  - Two of those guards are not in the step itself. The invariant `PInv` is `TypeOK` plus two facts:
    - `ReaderConnected`: the version handler runs in the reader, which `Run` starts only after `connect()`.
    - `PendingGate`: a request the reader is about to send was chosen by a gate that read the flag before the one the send raises.
  - `PInv` was checked by TLC on the node instance before it was proved (`PInvInductive`).
  - `PhaseStep`: `PInv /\ [Next]_vars => [Phases!Next]_Phases!phaseVars`, with one case per action. A failed dial, a rejected message and a timeout are `Penalize`.
  - The mutant `ReaderCheckSkipsVerified` drops the `Verified` guard of the score gate. TLC finds that it breaks the refinement.
- `ScoreRisesOnlyAtGate`: `Spec => [][score' > score => st["verified"] /\ ~st["scoreUpdated"] /\ st'["scoreUpdated"]]_vars`. This action property is a corollary of `PhaseStep` (lemma `RiseIsBump`). In the abstract spec only `Advance(5)` raises the score. So the +5 of untrusted_node.go:221-224 is reported once per connection, and only for a verified peer.

### `InspectorProofs.tla`

Both results hold for every set of output scripts `Scripts \subseteq Seq(0..255)` and every `MaxOutputs \in Nat`.
- The invariant `IInv == TypeOK /\ OutComputed`. `OutComputed` says that the last result in `out` is what `isTokenizedOpReturn` or `NewTransactionFromWire` computes for the transaction. `TypeOK` alone is not inductive, because it does not say which output a message names. TLC checked `IInv` on the inspector instance (81k states) before it was proved.
- Lemmas:
  - `MaxIsLargest`: a non-empty set of output indices has a largest element, which is `Max`. It is derived from the well-foundedness of `<` on `Nat` (`NatLessThanWellFounded` and `WFMin`, applied to the distances `n - t`), so it needs no induction.
  - `WireResult`: `NewTransactionFromWire` returns an error, `[msg |-> 0]`, or the message of the last protocol output. In the last case that output is an OP_RETURN script, because the loop returns `ErrInvalidProtocol` first otherwise.
  - `ShortPushAgrees`: for a direct push or `OP_PUSHDATA1` of at least four bytes, the offset `isTokenizedOpReturn` reads (`pkScript[2:6]` or `pkScript[3:7]`) is where the push's data begins.
- Theorems:
  - `InspectorTypeCorrect`: `Spec => []TypeOK`.
  - `ShortPushesRecognised`: `Spec => []RecognisesShortPushes`.

### `VoteSystemsProofs.tla`

- `VoteTypeCorrect`: `Spec => []TypeOK`, for every set of options, asset IDs and codes, every width and every bound.
  - `TypeOK` is inductive as it stands.
  - The lemma `CodeType` follows the early returns of `GetVotingSystemCode`.
  - The lemma `WinnersType` shows that every Winners method only collects keys of `vote.Result`, or returns the error. That holds whatever the folds compute, so it needs no fact about `FoldFunction`.
  - The early-return chains of `GetVotingSystemCode`, the absolute systems and `NewTransactionFromWire` are written as `IF ... ELSE IF`, not as `CASE`. The guards of a `CASE` overlap (for example, a missing asset together with a turnout test on its undefined holdings), and in the logic a `CASE` may then take any arm whose guard holds. TLC takes the first, as the code does.

What stays with TLC:
- All liveness (`ShutdownCompletes`), since TLAPS does not handle fairness or `ENABLED`.
- `AgreesWithReference`. It compares the code's operators with reference definitions over every input of a small alphabet, and proving it for every input would take induction over the folds (`TotalValue` equals the exact sum whenever that sum does not wrap). TLAPS cannot instantiate the library's induction theorems, which take an operator parameter.
- The violated properties.

## 6. Not modelled, and why

- **`ProcessBlock`.** It only forwards to `TxTracker.Remove`, whose state is outside the model.
- **Inspector:** `NewTransaction` (hex decoding and wire deserialisation, done by external libraries), `NewTransactionFromHash` (a call to a node), `NewUTXOFromWire` (a field copy) and `isPayToPublicKeyHash` (never called). A message that `protocol.New` fails to decode is nil; the model names a message by its output and does not tell a failed decoding apart.
- **Float rounding beyond 1500 votes.** The integer form of the thresholds is exact below that; whether rounding ever flips a decision for large totals is not checked.
- **Unbounded growth of `requests`.** This is out of reach of a finite model.
- **The data race on `stopping` and `state`.** Each read of them is atomic in the model.
- **A write on a nil connection.** `sendOutgoing` is not under src/ and is modelled from the spec: a write on a nil or closed connection fails and the message is dropped. If the real write loop dereferences a nil `conn` it panics instead; the model does not tell these apart.

## 7. Plan

1. An abstract mempool (a set of txs with a "conflicts" relation) and a refinement mapping from `MemPool`. The refinement is expected to fail where the findings above say, so its scope must be chosen with care.
2. Lemmas about the vote operators (for example that `PluralityVotingSystem` never returns an empty set for a non-empty result).
