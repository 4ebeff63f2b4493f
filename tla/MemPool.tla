------------------------------- MODULE MemPool -------------------------------
(***************************************************************************)
(* The spynode mempool (src/pkg/spynode/handlers/data/mempool.go): the     *)
(* process-wide index of unconfirmed transactions, shared by every peer    *)
(* connection and guarded by one sync.Mutex.                               *)
(*                                                                         *)
(* Data abstraction.  A transaction is its hash, a model value of Tx; the  *)
(* outpoints it spends are the fixed set Spends[h] (a tx hash determines   *)
(* its inputs).  OutpointHash is injective on Outpoints, so an outpoint    *)
(* stands for its hash.  The first-seen time kept in memPoolTx is never    *)
(* read and is left out.  The map `inputs` is modelled as a total function *)
(* where <<>> stands for "no entry": the code only ever stores non-empty   *)
(* lists, so "exists" and "non-empty" coincide.                            *)
(*                                                                         *)
(* Every exported method takes the mutex for its whole body, so it is one  *)
(* atomic step guarded by the mutex being free -- except Conflicting,      *)
(* which calls RemoveTransaction with the mutex already held.  Go's        *)
(* sync.Mutex is not re-entrant: that inner Lock() never returns.          *)
(***************************************************************************)
EXTENDS Integers, Sequences

CONSTANTS
    Tx,         \* transaction hashes
    Outpoints,  \* outpoints a transaction may spend
    Spends,     \* Spends[h]: the outpoints spent by the inputs of tx h
    Peers,      \* the peer connections calling into the shared mempool
    NoHolder,   \* the mutex value when no goroutine holds it
    MaxTime     \* bound on the clock, in seconds

ASSUME SpendsAssumption == Spends \in [Tx -> SUBSET Outpoints]
ASSUME NoHolderAssumption == NoHolder \notin Peers
ASSUME MaxTimeAssumption == MaxTime \in Nat

VARIABLES
    txs,       \* memPool.txs: the set of tracked tx hashes
    inputs,    \* memPool.inputs: outpoint -> list of spending tx hashes
    requests,  \* memPool.requests: tx hash -> time of the last request
    mutex,     \* memPool.mutex: NoHolder or the peer holding it
    pc,        \* per peer: "Idle" or "RemoveWait" (inside Conflicting)
    now        \* time.Now(), whole seconds

vars == <<txs, inputs, requests, mutex, pc, now>>

\* The value of requests[h] when h was never requested.
NoRequest == -1

-----------------------------------------------------------------------------
(* Helpers                                                                 *)

\* memPoolTx.outPoints of a tx: the outpoints of its inputs.
OutPoints(h) == Spends[h]

\* _, exists := memPool.txs[hash]
TransactionExists(h) == h \in txs

\* _, exists := memPool.inputs[outpointHash]
Indexed(o) == inputs[o] # <<>>

\* Every exported method starts with memPool.mutex.Lock().
Unlocked == mutex = NoHolder

-----------------------------------------------------------------------------
(* Operations                                                              *)

\* NewMemPool: empty maps, mutex free, no peer inside a call.
Init ==
    /\ txs = {}
    /\ inputs = [o \in Outpoints |-> <<>>]
    /\ requests = [h \in Tx |-> NoRequest]
    /\ mutex = NoHolder
    /\ pc = [p \in Peers |-> "Idle"]
    /\ now = 0

\* Mutant of AddRequest: stores the request's expiry (now + 3) instead of
\* its time.
AddRequestStoresDeadline(p, h) ==
    /\ pc[p] = "Idle"
    /\ Unlocked
    /\ ~TransactionExists(h)
    /\ requests[h] = NoRequest \/ now - requests[h] > 3
    /\ requests' = [requests EXCEPT ![h] = now + 3]
    /\ UNCHANGED <<txs, inputs, mutex, pc, now>>

\* AddRequest: record a request for h unless h is tracked or was requested
\* no more than 3 seconds ago.  The booleans it returns are determined by
\* which disjunct is taken.
AddRequest(p, h) ==
    /\ pc[p] = "Idle"
    /\ Unlocked
    /\ \/ TransactionExists(h) /\ UNCHANGED requests
       \/ /\ ~TransactionExists(h)
          /\ requests[h] = NoRequest \/ now - requests[h] > 3
          /\ requests' = [requests EXCEPT ![h] = now]
       \/ /\ ~TransactionExists(h)
          /\ requests[h] # NoRequest /\ now - requests[h] <= 3
          /\ UNCHANGED requests
    /\ UNCHANGED <<txs, inputs, mutex, pc, now>>

\* Mutant of AddTransaction: the appended list is stored back, so a second
\* spender is indexed (half of the fix, without fixing RemoveTransaction).
AddTransactionStoresAppend(p, h) ==
    /\ pc[p] = "Idle"
    /\ Unlocked
    /\ ~TransactionExists(h)
    /\ txs' = txs \cup {h}
    /\ inputs' = [o \in Outpoints |->
                    IF o \in OutPoints(h)
                    THEN IF Indexed(o) THEN Append(inputs[o], h) ELSE <<h>>
                    ELSE inputs[o]]
    /\ UNCHANGED <<requests, mutex, pc, now>>

\* AddTransaction: a tracked hash is a no-op.  Otherwise the tx is added
\* and each outpoint with no entry gets the list <<h>>.  For an outpoint
\* that already has an entry, the code appends h to a local copy of the
\* list that is never stored back (and collects the conflicts into a list
\* that is discarded), so the entry is left as it was.
AddTransaction(p, h) ==
    /\ pc[p] = "Idle"
    /\ Unlocked
    /\ \/ TransactionExists(h) /\ UNCHANGED <<txs, inputs>>
       \/ /\ ~TransactionExists(h)
          /\ txs' = txs \cup {h}
          /\ inputs' = [o \in Outpoints |->
                          IF o \in OutPoints(h) /\ ~Indexed(o)
                          THEN <<h>> ELSE inputs[o]]
    /\ UNCHANGED <<requests, mutex, pc, now>>

\* The effect of RemoveTransaction on the index.  An entry of one element
\* is deleted whoever it belongs to.  An entry of several elements is
\* searched for an element equal to the *outpoint* hash, which no tx hash
\* is, and the pruned slice is not stored back: it is left as it was.
RemoveInputs(h) ==
    [o \in Outpoints |->
        IF o \in OutPoints(h) /\ Len(inputs[o]) <= 1 THEN <<>> ELSE inputs[o]]

\* RemoveTransaction: unindex the outpoints of h and forget h.  A hash that
\* is not tracked leaves everything unchanged.
RemoveTransaction(p, h) ==
    /\ pc[p] = "Idle"
    /\ Unlocked
    /\ \/ TransactionExists(h)
          /\ txs' = txs \ {h}
          /\ inputs' = RemoveInputs(h)
       \/ ~TransactionExists(h) /\ UNCHANGED <<txs, inputs>>
    /\ UNCHANGED <<requests, mutex, pc, now>>

\* Conflicting(tx h): under the mutex, look up every outpoint h spends.
\* None indexed: return the empty list.  Otherwise the first hash found is
\* passed to RemoveTransaction, whose Lock() blocks on the mutex this very
\* goroutine holds: the peer stays in "RemoveWait" holding the mutex.
Conflicting(p, h) ==
    /\ pc[p] = "Idle"
    /\ Unlocked
    /\ \/ /\ \A o \in OutPoints(h) : ~Indexed(o)
          /\ UNCHANGED <<mutex, pc>>
       \/ /\ \E o \in OutPoints(h) : Indexed(o)
          /\ mutex' = p
          /\ pc' = [pc EXCEPT ![p] = "RemoveWait"]
    /\ UNCHANGED <<txs, inputs, requests, now>>

\* Time passes, up to the bound MaxTime.
Tick ==
    /\ now < MaxTime
    /\ now' = now + 1
    /\ UNCHANGED <<txs, inputs, requests, mutex, pc>>

Next ==
    \/ \E p \in Peers, h \in Tx :
          \/ AddRequest(p, h)
          \/ AddTransaction(p, h)
          \/ RemoveTransaction(p, h)
          \/ Conflicting(p, h)
    \/ Tick

Spec == Init /\ [][Next]_vars

-----------------------------------------------------------------------------
(* Properties                                                              *)

\* Type invariant; a request time is never in the future.
TypeOK ==
    /\ txs \in SUBSET Tx
    /\ inputs \in [Outpoints -> Seq(Tx)]
    /\ requests \in [Tx -> {NoRequest} \cup 0..now]
    /\ mutex \in Peers \cup {NoHolder}
    /\ pc \in [Peers -> {"Idle", "RemoveWait"}]
    /\ now \in 0..MaxTime

\* The input index only points at tracked transactions that really spend
\* the outpoint (spec section 3): after any sequence of AddTransaction and
\* RemoveTransaction calls, RemoveTransaction never leaves a dangling entry
\* for a removed tx, and AddTransaction never indexes a tx under an
\* outpoint it does not spend.
IndexSound ==
    \A o \in Outpoints : \A i \in 1..Len(inputs[o]) :
        /\ inputs[o][i] \in txs
        /\ o \in OutPoints(inputs[o][i])

\* A peer never waits for the mempool mutex while it holds it itself
\* (Conflicting calling RemoveTransaction).  Expected to be violated.
NoSelfDeadlock ==
    \A p \in Peers : pc[p] = "RemoveWait" => mutex # p

\* A double spend among tracked transactions stays visible to Conflicting:
\* every outpoint spent by a tracked tx has an entry in the input index.
\* Expected to be violated: only the first spender is ever indexed, and
\* removing it deletes the entry while a second spender is still tracked.
SpendsIndexed ==
    \A h \in txs : \A o \in OutPoints(h) : Indexed(o)

=============================================================================
