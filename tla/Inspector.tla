------------------------------ MODULE Inspector ------------------------------
(***************************************************************************)
(* How src/pkg/inspector/inspector.go recognises a protocol message in a  *)
(* transaction: isTokenizedOpReturn on one output script, and the output  *)
(* loop of NewTransactionFromWire, next to a reference reading of the     *)
(* script's first push.                                                    *)
(*                                                                         *)
(* A script is its sequence of bytes (numbers 0..255); Go's 0-based slice *)
(* s[a:b] is SubSeq(s, a + 1, b).  A transaction is its number of inputs  *)
(* and its sequence of output scripts.  protocol.New, which decodes the   *)
(* message, is outside the repository: a decoded message is named by the  *)
(* index of the output it came from.                                       *)
(***************************************************************************)
EXTENDS Integers, Sequences, FiniteSets, FiniteSetsExt

CONSTANTS
    Scripts,    \* the output scripts a transaction may carry
    MaxOutputs  \* bound on len(tx.TxOut)

ASSUME ScriptsAssumption == Scripts \subseteq Seq(0..255)
ASSUME MaxOutputsAssumption == MaxOutputs \in Nat

OP_RETURN == 106                     \* txscript.OP_RETURN (0x6a)
OP_PUSHDATA1 == 76                   \* 0x4c
OP_PUSHDATA2 == 77                   \* 0x4d
OP_PUSHDATA4 == 78                   \* 0x4e

\* targetVersion: the protocol prefix 0x00 0x00 0x00 0x20.
TargetVersion == <<0, 0, 0, 32>>

\* The errors of NewTransactionFromWire.
Errors == [err : {"ErrMissingInputs", "ErrMissingOutputs", "ErrInvalidProtocol"}]

-----------------------------------------------------------------------------

\* Mutant of isTokenizedOpReturn: the version of a direct push is read one
\* byte early.
IsTokenizedOpReturnOffByOne(s) ==
    /\ Len(s) >= 20
    /\ IF s[2] < OP_PUSHDATA1 THEN SubSeq(s, 2, 5) = TargetVersion
                              ELSE SubSeq(s, 4, 7) = TargetVersion

\* isTokenizedOpReturn: at least 20 bytes, and the four bytes after the
\* push opcode (pkScript[2:6]) or, for any opcode from OP_PUSHDATA1 on,
\* after one length byte (pkScript[3:7]) are the target version.
IsTokenizedOpReturn(s) ==
    /\ Len(s) >= 20
    /\ IF s[2] < OP_PUSHDATA1 THEN SubSeq(s, 3, 6) = TargetVersion
                              ELSE SubSeq(s, 4, 7) = TargetVersion

\* Mutant of NewTransactionFromWire: a transaction with no protocol output
\* gives a nil *Transaction and a nil error.
NewTransactionFromWireNilWhenPlain(tx) ==
    LET T == {i \in DOMAIN tx.outputs : IsTokenizedOpReturn(tx.outputs[i])} IN
    IF tx.inputs = 0 THEN [err |-> "ErrMissingInputs"]
    ELSE IF tx.outputs = <<>> THEN [err |-> "ErrMissingOutputs"]
    ELSE IF \E i \in T : tx.outputs[i][1] # OP_RETURN
         THEN [err |-> "ErrInvalidProtocol"]
    ELSE IF T = {} THEN [nil |-> TRUE]
    ELSE [msg |-> Max(T)]

\* NewTransactionFromWire: an error without inputs or outputs, or when an
\* output carrying the signature is not an OP_RETURN script (the first such
\* output returns); else the message of the last output carrying it (0:
\* none), each later one overwriting the earlier.
NewTransactionFromWire(tx) ==
    LET T == {i \in DOMAIN tx.outputs : IsTokenizedOpReturn(tx.outputs[i])} IN
    IF tx.inputs = 0 THEN [err |-> "ErrMissingInputs"]
    ELSE IF tx.outputs = <<>> THEN [err |-> "ErrMissingOutputs"]
    ELSE IF \E i \in T : tx.outputs[i][1] # OP_RETURN
         THEN [err |-> "ErrInvalidProtocol"]
    ELSE [msg |-> IF T = {} THEN 0 ELSE Max(T)]

-----------------------------------------------------------------------------
(* The reference: Bitcoin script's push opcodes                            *)

\* Where the data of the push starting at byte 2 begins, and how long it
\* is: opcodes 1..75 push that many bytes; OP_PUSHDATA1, 2 and 4 take a
\* 1, 2 or 4-byte little-endian length first.
PushStart(s) ==
    CASE s[2] < OP_PUSHDATA1 -> 3
      [] s[2] = OP_PUSHDATA1 -> 4
      [] s[2] = OP_PUSHDATA2 -> 5
      [] s[2] = OP_PUSHDATA4 -> 7
      [] OTHER               -> Len(s) + 1

PushLength(s) ==
    CASE s[2] < OP_PUSHDATA1 -> s[2]
      [] s[2] = OP_PUSHDATA1 -> s[3]
      [] s[2] = OP_PUSHDATA2 -> s[3] + 256 * s[4]
      [] s[2] = OP_PUSHDATA4 -> s[3] + 256 * (s[4] + 256 * (s[5] + 256 * s[6]))
      [] OTHER               -> 0

\* The first push of the script holds at least four bytes and they are the
\* target version.
CarriesVersion(s) ==
    /\ Len(s) >= 7
    /\ PushLength(s) >= 4
    /\ PushStart(s) + 3 <= Len(s)
    /\ SubSeq(s, PushStart(s), PushStart(s) + 3) = TargetVersion

-----------------------------------------------------------------------------
(* The calls                                                               *)

VARIABLES tx, out

vars == <<tx, out>>

Txs == [inputs : {0, 1},
        outputs : UNION {[1..n -> Scripts] : n \in 0..MaxOutputs}]

Init ==
    /\ tx \in Txs
    /\ out = [op |-> "none"]

CallIsTokenizedOpReturn ==
    /\ \E i \in DOMAIN tx.outputs :
          out' = [op |-> "check", index |-> i,
                  value |-> IsTokenizedOpReturn(tx.outputs[i])]
    /\ UNCHANGED tx

CallNewTransactionFromWire ==
    /\ out' = [op |-> "tx", value |-> NewTransactionFromWire(tx)]
    /\ UNCHANGED tx

Next == CallIsTokenizedOpReturn \/ CallNewTransactionFromWire

Spec == Init /\ [][Next]_vars

-----------------------------------------------------------------------------
(* Properties                                                              *)

\* Type invariant: a check returns a Boolean for an output of the
\* transaction, NewTransactionFromWire an error or an output's message.
TypeOK ==
    /\ tx \in Txs
    /\ \/ out = [op |-> "none"]
       \/ out.op = "check" /\ out.index \in DOMAIN tx.outputs
          /\ out.value \in BOOLEAN
       \/ out.op = "tx"
          /\ out.value \in Errors \cup [msg : {0} \cup DOMAIN tx.outputs]

\* The script checked last is taken for a protocol message exactly when
\* its first push carries the version -- for scripts of the 20 bytes the
\* check asks for whose first push is a direct push or uses OP_PUSHDATA1
\* (payloads of 4 to 255 bytes).
RecognisesShortPushes ==
    LET s == tx.outputs[out.index] IN
    out.op = "check" /\ Len(s) >= 20
    /\ s[2] <= OP_PUSHDATA1 /\ PushLength(s) >= 4
    => (out.value <=> CarriesVersion(s))

\* The same for every push opcode.  Expected to be violated: the version
\* of an OP_PUSHDATA2 or OP_PUSHDATA4 push (a payload over 255 bytes) is
\* looked for at the wrong offset, and a push of fewer than four bytes
\* followed by the version bytes is taken for a message.
RecognisesEveryPush ==
    LET s == tx.outputs[out.index] IN
    out.op = "check" /\ Len(s) >= 20 => (out.value <=> CarriesVersion(s))

=============================================================================
