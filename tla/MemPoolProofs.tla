---------------------------- MODULE MemPoolProofs ----------------------------
(***************************************************************************)
(* Proofs about MemPool, for every set of transactions, outpoints and      *)
(* peers and every clock bound.                                            *)
(***************************************************************************)
EXTENDS MemPool, TLAPS

(***************************************************************************)
(* No index entry ever holds more than one hash: AddTransaction only       *)
(* creates one-element lists and never stores an appended one.  This is   *)
(* what makes IndexSound inductive: RemoveTransaction prunes a list of    *)
(* several elements wrongly, and it is the fact that no such list exists  *)
(* that keeps removed hashes out of the index.                            *)
(***************************************************************************)
SingleSpender == \A o \in Outpoints : Len(inputs[o]) <= 1

IInv == TypeOK /\ IndexSound /\ SingleSpender

-----------------------------------------------------------------------------

\* The mempool's state keeps its type: the maps keep their key sets, the
\* lists hold tx hashes and every recorded request time lies in the past.
LEMMA TypeInductive == TypeOK /\ [Next]_vars => TypeOK'
  <2> SUFFICES ASSUME TypeOK, [Next]_vars PROVE TypeOK'
    OBVIOUS
  <2>1. ASSUME NEW p \in Peers, NEW h \in Tx, AddRequest(p, h) PROVE TypeOK'
    BY <2>1 DEF AddRequest, TypeOK, TransactionExists, Unlocked
  <2>2. ASSUME NEW p \in Peers, NEW h \in Tx, AddTransaction(p, h) PROVE TypeOK'
    <3>1. CASE TransactionExists(h)
      BY <2>2, <3>1 DEF AddTransaction, TypeOK
    <3>2. CASE ~TransactionExists(h)
      <4>1. inputs' = [o \in Outpoints |->
                         IF o \in OutPoints(h) /\ ~Indexed(o)
                         THEN <<h>> ELSE inputs[o]]
        BY <2>2, <3>2 DEF AddTransaction
      <4>2. inputs' \in [Outpoints -> Seq(Tx)]
        BY <4>1 DEF TypeOK
      <4>3. QED
        BY <2>2, <3>2, <4>2 DEF AddTransaction, TypeOK, TransactionExists
    <3>3. QED
      BY <3>1, <3>2
  <2>3. ASSUME NEW p \in Peers, NEW h \in Tx, RemoveTransaction(p, h) PROVE TypeOK'
    <3>1. CASE TransactionExists(h)
      <4>1. inputs' = RemoveInputs(h)
        BY <2>3, <3>1 DEF RemoveTransaction
      <4>2. inputs' \in [Outpoints -> Seq(Tx)]
        BY <4>1 DEF RemoveInputs, TypeOK
      <4>3. QED
        BY <2>3, <3>1, <4>2 DEF RemoveTransaction, TypeOK
    <3>2. CASE ~TransactionExists(h)
      BY <2>3, <3>2 DEF RemoveTransaction, TypeOK
    <3>3. QED
      BY <3>1, <3>2
  <2>4. ASSUME NEW p \in Peers, NEW h \in Tx, Conflicting(p, h) PROVE TypeOK'
    BY <2>4 DEF Conflicting, TypeOK, Unlocked
  <2>5. CASE Tick
    BY <2>5, MaxTimeAssumption DEF Tick, TypeOK
  <2>6. CASE UNCHANGED vars
    BY <2>6 DEF vars, TypeOK
  <2>7. QED
    BY <2>1, <2>2, <2>3, <2>4, <2>5, <2>6 DEF Next

\* Same statement as a temporal theorem of the specification.
LEMMA TypeCorrect == Spec => []TypeOK
<1>1. Init => TypeOK
  BY SpendsAssumption, NoHolderAssumption, MaxTimeAssumption DEF Init, TypeOK
<1>2. QED
  BY <1>1, TypeInductive, PTL DEF Spec

-----------------------------------------------------------------------------

\* The steps that leave the mempool's maps alone preserve the index facts.
LEMMA IndexUnchanged ==
    ASSUME IndexSound, SingleSpender, UNCHANGED <<txs, inputs>>
    PROVE  IndexSound' /\ SingleSpender'
  BY DEF IndexSound, SingleSpender, OutPoints

\* Every index entry points at a tracked transaction that spends the
\* outpoint, whatever sequence of AddTransaction, RemoveTransaction,
\* AddRequest and Conflicting calls the peers make.
THEOREM IndexSoundness == Spec => []IndexSound
<1>1. Init => IInv
  BY SpendsAssumption, NoHolderAssumption, MaxTimeAssumption
  DEF Init, IInv, TypeOK, IndexSound, SingleSpender
<1>2. IInv /\ [Next]_vars => IInv'
  <2> SUFFICES ASSUME IInv, [Next]_vars PROVE IInv'
    OBVIOUS
  <2>0. TypeOK'
    BY TypeInductive DEF IInv
  <2> USE DEF IInv
  <2>1. ASSUME NEW p \in Peers, NEW h \in Tx, AddRequest(p, h)
        PROVE  IndexSound' /\ SingleSpender'
    BY <2>1, IndexUnchanged DEF AddRequest
  <2>2. ASSUME NEW p \in Peers, NEW h \in Tx, AddTransaction(p, h)
        PROVE  IndexSound' /\ SingleSpender'
    <3>1. CASE TransactionExists(h)
      BY <2>2, <3>1, IndexUnchanged DEF AddTransaction
    <3>2. CASE ~TransactionExists(h)
      <4>1. /\ txs' = txs \cup {h}
            /\ inputs' = [o \in Outpoints |->
                            IF o \in OutPoints(h) /\ ~Indexed(o)
                            THEN <<h>> ELSE inputs[o]]
        BY <2>2, <3>2 DEF AddTransaction
      <4>2. IndexSound'
        BY <4>1 DEF IndexSound, TypeOK
      <4>3. SingleSpender'
        BY <4>1 DEF SingleSpender, TypeOK
      <4>4. QED
        BY <4>2, <4>3
    <3>3. QED
      BY <3>1, <3>2
  <2>3. ASSUME NEW p \in Peers, NEW h \in Tx, RemoveTransaction(p, h)
        PROVE  IndexSound' /\ SingleSpender'
    <3>1. CASE TransactionExists(h)
      <4>1. /\ txs' = txs \ {h}
            /\ inputs' = RemoveInputs(h)
        BY <2>3, <3>1 DEF RemoveTransaction
      \* A list left in place is not one of h's: h's lists have one element.
      <4>2. ASSUME NEW o \in Outpoints, inputs'[o] # <<>>
            PROVE  /\ inputs'[o] = inputs[o]
                   /\ o \notin OutPoints(h)
        BY <4>1, <4>2 DEF RemoveInputs, SingleSpender, TypeOK
      <4>3. IndexSound'
        BY <4>1, <4>2 DEF IndexSound, TypeOK
      <4>4. SingleSpender'
        BY <4>1 DEF RemoveInputs, SingleSpender, TypeOK
      <4>5. QED
        BY <4>3, <4>4
    <3>2. CASE ~TransactionExists(h)
      BY <2>3, <3>2, IndexUnchanged DEF RemoveTransaction
    <3>3. QED
      BY <3>1, <3>2
  <2>4. ASSUME NEW p \in Peers, NEW h \in Tx, Conflicting(p, h)
        PROVE  IndexSound' /\ SingleSpender'
    BY <2>4, IndexUnchanged DEF Conflicting
  <2>5. CASE Tick
    BY <2>0, <2>5, IndexUnchanged DEF Tick
  <2>6. CASE UNCHANGED vars
    BY <2>0, <2>6, IndexUnchanged DEF vars
  <2>7. QED
    BY <2>0, <2>1, <2>2, <2>3, <2>4, <2>5, <2>6 DEF Next
<1>3. IInv => IndexSound
  BY DEF IInv
<1>4. QED
  BY <1>1, <1>2, <1>3, PTL DEF Spec

=============================================================================
