--------------------------- MODULE InspectorProofs ---------------------------
(***************************************************************************)
(* Proofs about Inspector, for every set of output scripts and every bound *)
(* on the number of outputs: what each call returns is what               *)
(* isTokenizedOpReturn and NewTransactionFromWire compute for the         *)
(* transaction, a decoded message comes from an OP_RETURN output the      *)
(* check recognises, and the check agrees with the script's first push    *)
(* for direct and OP_PUSHDATA1 pushes.                                     *)
(***************************************************************************)
EXTENDS Inspector, WellFoundedInduction, SequenceTheorems, TLAPS

\* The output scripts that carry the protocol signature, the set the loop
\* of NewTransactionFromWire takes the last of.
Tokenized(t) == {i \in DOMAIN t.outputs : IsTokenizedOpReturn(t.outputs[i])}

\* What each call returned is what the code computes for the transaction.
OutComputed ==
    /\ out.op = "check" =>
          out.value = IsTokenizedOpReturn(tx.outputs[out.index])
    /\ out.op = "tx" => out.value = NewTransactionFromWire(tx)

IInv == TypeOK /\ OutComputed

-----------------------------------------------------------------------------
(* Lemmas                                                                  *)

\* A non-empty set of outputs 1..n has a largest element, and Max is it.
LEMMA MaxIsLargest ==
    ASSUME NEW n \in Nat, NEW T \in SUBSET (1..n), T # {}
    PROVE  /\ Max(T) \in T
           /\ \A y \in T : Max(T) >= y
<1> DEFINE U == {n - t : t \in T}
<1>1. U \subseteq Nat /\ U # {}
  <2>1. \A t \in T : n - t \in Nat
    OBVIOUS
  <2>2. PICK t0 \in T : TRUE
    BY Zenon
  <2>3. n - t0 \in U
    BY Zenon DEF U
  <2>. QED BY <2>1, <2>3, Zenon DEF U
<1>2. PICK u \in U : \A v \in U : ~(<<v, u>> \in OpToRel(<, Nat))
  BY <1>1, NatLessThanWellFounded, WFMin, Zenon
<1>3. PICK t1 \in T : u = n - t1
  BY Zenon DEF U
<1>4. \A y \in T : t1 >= y
  <2> SUFFICES ASSUME NEW y \in T PROVE t1 >= y
    BY Zenon
  <2>1. n - y \in U
    BY Zenon DEF U
  <2>2. ~(<<n - y, u>> \in OpToRel(<, Nat))
    BY <1>2, <2>1, Zenon
  <2>3. ~(n - y < u)
    BY <2>2, <1>1, <2>1 DEF OpToRel
  <2>. QED BY <2>3, <1>3
<1>5. \E x \in T : \A y \in T : x >= y
  BY <1>4, Zenon
<1>. QED BY <1>5, Zenon DEF Max

\* The protocol outputs of a transaction are among its outputs 1..n.
LEMMA TokenizedOutputs ==
    ASSUME NEW t \in Txs
    PROVE  \E n \in 0..MaxOutputs :
              /\ DOMAIN t.outputs = 1..n
              /\ Tokenized(t) \in SUBSET (1..n)
BY MaxOutputsAssumption DEF Txs, Tokenized

\* NewTransactionFromWire returns an error, no message (0), or the message
\* of the last protocol output, which is an OP_RETURN script.
LEMMA WireResult ==
    ASSUME NEW t \in Txs
    PROVE  LET r == NewTransactionFromWire(t) IN
           \/ r \in Errors
           \/ /\ r = [msg |-> 0]
           \/ /\ r = [msg |-> Max(Tokenized(t))]
              /\ Max(Tokenized(t)) \in Tokenized(t)
              /\ t.outputs[Max(Tokenized(t))][1] = OP_RETURN
<1>1. PICK n \in 0..MaxOutputs :
         DOMAIN t.outputs = 1..n /\ Tokenized(t) \in SUBSET (1..n)
  BY TokenizedOutputs
<1>2. CASE Tokenized(t) # {}
  <2>1. n \in Nat /\ Tokenized(t) \in SUBSET (1..n)
    BY <1>1, MaxOutputsAssumption
  <2>2. Max(Tokenized(t)) \in Tokenized(t)
    BY <2>1, <1>2, MaxIsLargest
  <2>. QED BY <1>2, <2>2 DEF NewTransactionFromWire, Tokenized, Errors
<1>3. CASE Tokenized(t) = {}
  BY <1>3 DEF NewTransactionFromWire, Tokenized, Errors
<1>. QED BY <1>2, <1>3

\* For a script of at least 20 bytes whose first push is a direct push or
\* OP_PUSHDATA1 of at least four bytes, isTokenizedOpReturn reads the
\* version where the push's data begins.
LEMMA ShortPushAgrees ==
    ASSUME NEW s \in Seq(Int), Len(s) >= 20, s[2] <= OP_PUSHDATA1,
           PushLength(s) >= 4
    PROVE  IsTokenizedOpReturn(s) <=> CarriesVersion(s)
<1>0. s[2] \in Int
  OBVIOUS
<1>1. CASE s[2] < OP_PUSHDATA1
  <2>1. PushStart(s) = 3
    BY <1>0, <1>1 DEF PushStart, OP_PUSHDATA1, OP_PUSHDATA2, OP_PUSHDATA4
  <2>2. IsTokenizedOpReturn(s) <=> SubSeq(s, 3, 6) = TargetVersion
    BY <1>1 DEF IsTokenizedOpReturn
  <2>3. CarriesVersion(s) <=> SubSeq(s, 3, 6) = TargetVersion
    BY <2>1 DEF CarriesVersion
  <2>. QED BY <2>2, <2>3
<1>2. CASE s[2] = OP_PUSHDATA1
  <2>1. PushStart(s) = 4
    BY <1>0, <1>2 DEF PushStart, OP_PUSHDATA1, OP_PUSHDATA2, OP_PUSHDATA4
  <2>2. IsTokenizedOpReturn(s) <=> SubSeq(s, 4, 7) = TargetVersion
    BY <1>2 DEF IsTokenizedOpReturn, OP_PUSHDATA1
  <2>3. CarriesVersion(s) <=> SubSeq(s, 4, 7) = TargetVersion
    BY <2>1 DEF CarriesVersion
  <2>. QED BY <2>2, <2>3
<1>. QED BY <1>0, <1>1, <1>2 DEF OP_PUSHDATA1
\* Every output script is a sequence of integers.
LEMMA ScriptsAreIntSeqs == \A s \in Scripts : s \in Seq(Int)
<1> SUFFICES ASSUME NEW s \in Scripts PROVE s \in Seq(Int)
  OBVIOUS
<1>1. s \in Seq(0..255)
  BY ScriptsAssumption
<1>2. 0..255 \subseteq Int
  OBVIOUS
<1>. QED BY <1>1, <1>2, SeqMonotonic, Zenon

-----------------------------------------------------------------------------
(* The invariant                                                           *)

LEMMA InitIInv == Init => IInv
BY DEF Init, IInv, TypeOK, OutComputed

\* Each call returns what the code computes, and the result has its type.
LEMMA IInvInductive == IInv /\ [Next]_vars => IInv'
<1> SUFFICES ASSUME IInv, [Next]_vars PROVE IInv'
  OBVIOUS
<1>1. CASE CallIsTokenizedOpReturn
  <2>1. PICK i \in DOMAIN tx.outputs :
           out' = [op |-> "check", index |-> i,
                   value |-> IsTokenizedOpReturn(tx.outputs[i])]
    BY <1>1 DEF CallIsTokenizedOpReturn
  <2>2. tx' = tx
    BY <1>1 DEF CallIsTokenizedOpReturn
  <2>3. IsTokenizedOpReturn(tx.outputs[i]) \in BOOLEAN
    BY DEF IsTokenizedOpReturn
  <2>. QED BY <2>1, <2>2, <2>3 DEF IInv, TypeOK, OutComputed
<1>2. CASE CallNewTransactionFromWire
  <2>1. out' = [op |-> "tx", value |-> NewTransactionFromWire(tx)]
        /\ tx' = tx
    BY <1>2 DEF CallNewTransactionFromWire
  <2>2. tx \in Txs
    BY DEF IInv, TypeOK
  <2>3. NewTransactionFromWire(tx) \in
           Errors \cup [msg : {0} \cup DOMAIN tx.outputs]
    <3>1. \/ NewTransactionFromWire(tx) \in Errors
          \/ NewTransactionFromWire(tx) = [msg |-> 0]
          \/ /\ NewTransactionFromWire(tx) = [msg |-> Max(Tokenized(tx))]
             /\ Max(Tokenized(tx)) \in Tokenized(tx)
      BY <2>2, WireResult, Zenon
    <3>2. Tokenized(tx) \subseteq DOMAIN tx.outputs
      BY DEF Tokenized
    <3>. QED BY <3>1, <3>2
  <2>. QED BY <2>1, <2>2, <2>3 DEF IInv, TypeOK, OutComputed
<1>3. CASE UNCHANGED vars
  BY <1>3 DEF IInv, TypeOK, OutComputed, vars
<1>. QED BY <1>1, <1>2, <1>3 DEF Next

-----------------------------------------------------------------------------
(* The theorems                                                            *)

\* Whatever the scripts and the bound on outputs, isTokenizedOpReturn
\* returns a Boolean for an output of the transaction, and
\* NewTransactionFromWire an error or the message of one of its outputs.
THEOREM InspectorTypeCorrect == Spec => []TypeOK
<1>1. IInv => TypeOK
  BY DEF IInv
<1>. QED BY <1>1, InitIInv, IInvInductive, PTL DEF Spec

\* Whatever the scripts, isTokenizedOpReturn takes a script of at least
\* 20 bytes for a protocol message exactly when its first push carries the
\* version, when that push is a direct push or OP_PUSHDATA1 of at least
\* four bytes.
THEOREM ShortPushesRecognised == Spec => []RecognisesShortPushes
<1>1. IInv => RecognisesShortPushes
  <2> SUFFICES ASSUME IInv, out.op = "check",
                      Len(tx.outputs[out.index]) >= 20,
                      tx.outputs[out.index][2] <= OP_PUSHDATA1,
                      PushLength(tx.outputs[out.index]) >= 4
               PROVE  out.value <=> CarriesVersion(tx.outputs[out.index])
    BY DEF RecognisesShortPushes
  <2>1. out.value = IsTokenizedOpReturn(tx.outputs[out.index])
    BY DEF IInv, OutComputed
  <2>2. tx.outputs[out.index] \in Scripts
    BY DEF IInv, TypeOK, Txs
  <2>3. tx.outputs[out.index] \in Seq(Int)
    BY <2>2, ScriptsAreIntSeqs
  <2>. QED BY <2>1, <2>3, ShortPushAgrees
<1>. QED BY <1>1, InitIInv, IInvInductive, PTL DEF Spec

=============================================================================
