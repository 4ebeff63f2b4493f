---------------------------- MODULE MC_Inspector ----------------------------
(* Model-checking instance of Inspector.  A script is its first byte      *)
(* (OP_RETURN or OP_DUP, which starts a pay-to-pubkey-hash script), a     *)
(* push opcode (short pushes of 3 and 20 bytes, OP_PUSHDATA1, 2 and 4),   *)
(* eight bytes holding the target version at offset 2, 3, 4 or 6 (where  *)
(* the data of the different pushes starts) or not at all, padded with    *)
(* zeros to 19 or 20 bytes, either side of isTokenizedOpReturn's bound.   *)
(* Transactions have up to two outputs.                                   *)
EXTENDS Inspector

\* The eight bytes after the opcode, 0x05 standing for any other byte
\* (and, as a length byte, for a push of five bytes).
VersionAt(k) == [i \in 1..8 |-> IF i >= k - 1 /\ i <= k + 2
                           THEN TargetVersion[i - k + 2] ELSE 5]
Tails == {VersionAt(k) : k \in {2, 3, 4, 6}} \cup {[i \in 1..8 |-> 5]}

MkScript(b0, op, t, n) ==
    [i \in 1..n |-> CASE i = 1 -> b0
                      [] i = 2 -> op
                      [] i <= 10 -> t[i - 2]
                      [] OTHER -> 0]

MCScripts ==
    {MkScript(b0, op, t, n) : b0 \in {OP_RETURN, 118},
                              op \in {3, 20, OP_PUSHDATA1, OP_PUSHDATA2, OP_PUSHDATA4},
                              t \in Tails, n \in {19, 20}}
MCMaxOutputs == 2
=============================================================================
