----------------------------- MODULE VoteSystems -----------------------------
(***************************************************************************)
(* The voting systems of src/internal/vote/systems.go: the choice of a     *)
(* system for a vote (GetVotingSystemCode, NewVotingSystem) and the tally  *)
(* of each system (the Winners methods), next to a reference tally written *)
(* from the systems' own descriptions (the doc comments of the types).    *)
(*                                                                         *)
(* Data abstraction.  A contract is its voting-system code and its assets *)
(* (asset ID -> the asset's code and number of holdings); a vote is its   *)
(* asset ID ("" for a contract vote), its number of ballots and its       *)
(* result map (option -> token weight, a uint64).                          *)
(*                                                                         *)
(* Arithmetic.  The sums of the results are uint64 and wrap modulo        *)
(* 2^Width (Width = 64 in the code).  The float64 comparisons are written  *)
(* as exact integer comparisons: for every total below 1500 the code's    *)
(* float64(total) * 0.67 and * 0.5 thresholds and the ballots / holders    *)
(* quotients compare with an integer exactly as the rational numbers do    *)
(* (checked exhaustively), which covers every instance checked here.  A   *)
(* division by zero holders gives +Inf or NaN, and both `<= 0.5` and      *)
(* `< 0.67` are then false: the turnout test passes.                       *)
(*                                                                         *)
(* Go's map iteration order is random: a loop that stops at the first     *)
(* qualifying option may stop at any of them.  So a tally is the SET of   *)
(* results the call can return.  A result is the sorted slice of winning   *)
(* options, which carries the same information as the set of them.        *)
(***************************************************************************)
EXTENDS Integers, FiniteSets, Functions, FiniteSetsExt

CONSTANTS
    Options,    \* the uint8 option keys of vote.Result
    AssetIDs,   \* asset IDs
    Error,      \* the error results ("Asset not found", "No voting system")
    Width,      \* bit width of the uint64 sums (64 in the code)
    Codes,      \* voting-system codes a contract or an asset may carry
    MaxBallots, \* bound on len(vote.Ballots)
    MaxHoldings \* bound on len(asset.Holdings)

ASSUME OptionsAssumption == Options \subseteq Nat /\ Options # {}
ASSUME WidthAssumption == Width \in Nat \ {0}
ASSUME BoundsAssumption == MaxBallots \in Nat /\ MaxHoldings \in Nat

\* The codes of the votingSystems table (lines 12-19).
VotingSystems == {"M", "A", "P", "S", "T", "N"}

Modulus == 2 ^ Width

-----------------------------------------------------------------------------
(* Choosing the voting system                                              *)

\* GetVotingSystemCode: the contract's code for a contract vote; for an
\* asset vote, an error if the asset is unknown, else the asset's own code
\* if it has one, else the contract's.
GetVotingSystemCode(c, v) ==
    IF v.assetID = "" THEN c.votingSystem
    ELSE IF v.assetID \notin DOMAIN c.assets THEN Error
    ELSE IF c.assets[v.assetID].votingSystem # ""
         THEN c.assets[v.assetID].votingSystem
         ELSE c.votingSystem

\* NewVotingSystem: the system registered under the code, or an error.
NewVotingSystem(code) == IF code \in VotingSystems THEN code ELSE Error

-----------------------------------------------------------------------------
(* The tallies                                                             *)

\* totalValue += v over vote.Result, in uint64.
TotalValue(v) == FoldFunction(LAMBDA x, y : (x + y) % Modulus, 0, v.result)

\* The holder count of AbsoluteMajority and AbsoluteSuperMajority: the
\* holdings of every asset for a contract vote, of the vote's asset else.
TokenHolderCount(c, v) ==
    IF v.assetID = ""
    THEN SumFunction([a \in DOMAIN c.assets |-> c.assets[a].holdings])
    ELSE c.assets[v.assetID].holdings

\* The asset of an asset vote is not in the contract: "Asset not found".
AssetMissing(c, v) == v.assetID # "" /\ v.assetID \notin DOMAIN c.assets

\* A range over vote.Result that appends the first qualifying option and
\* breaks: any one qualifying option, or none.
FirstFound(Q) == IF Q = {} THEN {{}} ELSE {{k} : k \in Q}

\* ResultMaximum (not in src/): the largest weight of the result map.
ResultMaximum(r) == IF DOMAIN r = {} THEN 0 ELSE Max(Range(r))

\* Mutant of MajorityVote: an option with exactly half of the total wins.
MajorityVoteAtHalf(v) ==
    FirstFound({k \in DOMAIN v.result : 2 * v.result[k] >= TotalValue(v)})

\* MajorityVote.Winners: the first option over half of the total.
MajorityVote(v) ==
    FirstFound({k \in DOMAIN v.result : 2 * v.result[k] > TotalValue(v)})

\* AbsoluteMajority.Winners: more than half of the holders must have
\* voted; then every option over half of the total.
AbsoluteMajority(c, v) ==
    LET h == TokenHolderCount(c, v) IN
    IF AssetMissing(c, v) THEN {Error}
    ELSE IF h > 0 /\ 2 * v.ballots <= h THEN {{}}
    ELSE {{k \in DOMAIN v.result : 2 * v.result[k] > TotalValue(v)}}

\* Mutant of PluralityVotingSystem: the weights are collected, not the keys.
PluralityCollectsWeights(v) ==
    {{v.result[k] : k \in {j \in DOMAIN v.result : v.result[j] = ResultMaximum(v.result)}}}

\* PluralityVotingSystem.Winners: every option with the largest weight.
PluralityVotingSystem(v) ==
    {{k \in DOMAIN v.result : v.result[k] = ResultMaximum(v.result)}}

\* SuperMajority.Winners: the first option with at least 67% of the total.
SuperMajority(v) ==
    FirstFound({k \in DOMAIN v.result : 100 * v.result[k] >= 67 * TotalValue(v)})

\* AbsoluteSuperMajority.Winners: at least 67% of the holders must have
\* voted; then every option with at least 67% of the total.
AbsoluteSuperMajority(c, v) ==
    LET h == TokenHolderCount(c, v) IN
    IF AssetMissing(c, v) THEN {Error}
    ELSE IF h > 0 /\ 100 * v.ballots < 67 * h THEN {{}}
    ELSE {{k \in DOMAIN v.result : 100 * v.result[k] >= 67 * TotalValue(v)}}

\* NoVotingRights.Winners: no winner.
NoVotingRights == {{}}

\* The results vs.Winners(c, v) may return, vs the system of code sys.
Winners(sys, c, v) ==
    CASE sys = "M" -> MajorityVote(v)
      [] sys = "A" -> AbsoluteMajority(c, v)
      [] sys = "P" -> PluralityVotingSystem(v)
      [] sys = "S" -> SuperMajority(v)
      [] sys = "T" -> AbsoluteSuperMajority(c, v)
      [] sys = "N" -> NoVotingRights

-----------------------------------------------------------------------------
(* The reference tally, in exact arithmetic                                *)

\* The votes cast, without wrap-around.
ExactTotal(v) == SumFunction(v.result)

\* The options the descriptions of the systems make winners: M, more than
\* half of the votes cast; A, the same once more than half of all holders
\* voted; P, the most votes; S, at least 67% of the votes cast, and T the
\* same once at least 67% of all holders voted.  No option wins a vote in
\* which no votes were cast, and no turnout is reached without holders.
ReferenceWinners(sys, c, v) ==
    LET t == ExactTotal(v)
        h == TokenHolderCount(c, v)
        over(n, d) == {k \in DOMAIN v.result : t > 0 /\ d * v.result[k] > n * t}
        atLeast(n, d) == {k \in DOMAIN v.result : t > 0 /\ d * v.result[k] >= n * t}
    IN CASE sys = "M" -> over(1, 2)
         [] sys = "A" -> IF h > 0 /\ 2 * v.ballots > h THEN over(1, 2) ELSE {}
         [] sys = "P" -> {k \in DOMAIN v.result :
                              t > 0 /\ v.result[k] = ResultMaximum(v.result)}
         [] sys = "S" -> atLeast(67, 100)
         [] sys = "T" -> IF h > 0 /\ 100 * v.ballots >= 67 * h
                         THEN atLeast(67, 100) ELSE {}
         [] sys = "N" -> {}

\* A vote is decided only by a single winner (the VotingSystem interface:
\* "Unless there is a single winner, the vote has not been successful").
Decided(w) == w # Error /\ Cardinality(w) = 1


-----------------------------------------------------------------------------
(* The calls                                                               *)
(*                                                                         *)
(* A contract and a vote the program can hold, and the last call made on   *)
(* them with its result.  Every call is pure: it only sets `out`.          *)

VARIABLES contract, vote, out

vars == <<contract, vote, out>>

\* An asset of the contract: its own code ("" for none) and holdings.
Assets == [votingSystem : Codes \cup {""}, holdings : 0..MaxHoldings]

Contracts ==
    [votingSystem : Codes,
     assets : UNION {[D -> Assets] : D \in SUBSET AssetIDs}]

\* The result map holds uint64 weights; with no ballot no weight is cast.
Votes ==
    {v \in [assetID : {""} \cup AssetIDs, ballots : 0..MaxBallots,
            result : [Options -> 0..(Modulus - 1)]] :
        v.ballots = 0 => \A k \in Options : v.result[k] = 0}

Init ==
    /\ contract \in Contracts
    /\ vote \in Votes
    /\ out = [op |-> "none"]

CallGetVotingSystemCode ==
    /\ out' = [op |-> "code", value |-> GetVotingSystemCode(contract, vote)]
    /\ UNCHANGED <<contract, vote>>

CallNewVotingSystem ==
    /\ \E code \in Codes \cup {""} :
          out' = [op |-> "system", value |-> NewVotingSystem(code)]
    /\ UNCHANGED <<contract, vote>>

CallWinners ==
    /\ \E s \in VotingSystems :
          \E w \in Winners(s, contract, vote) :
             out' = [op |-> "winners", sys |-> s, value |-> w]
    /\ UNCHANGED <<contract, vote>>

Next == CallGetVotingSystemCode \/ CallNewVotingSystem \/ CallWinners

Spec == Init /\ [][Next]_vars

-----------------------------------------------------------------------------
(* Properties                                                              *)

\* Type invariant: a tally returns an error or a set of the vote's options.
TypeOK ==
    /\ contract \in Contracts
    /\ vote \in Votes
    /\ \/ out = [op |-> "none"]
       \/ out.op = "code" /\ out.value \in Codes \cup {"", Error}
       \/ out.op = "system" /\ out.value \in VotingSystems \cup {Error}
       \/ /\ out.op = "winners" /\ out.sys \in VotingSystems
          /\ out.value \in (SUBSET Options) \cup {Error}

\* The option a result decides, {} when it decides none.
Decision(w) == IF Decided(w) THEN w ELSE {}

\* The last tally decides what the reference decides, for a vote whose
\* conditions P hold.  The absolute systems need the asset to exist.
AgreementOn(P) ==
    out.op = "winners" /\ P
    /\ (out.sys \in {"A", "T"} => ~AssetMissing(contract, vote))
    => Decision(out.value) = Decision(ReferenceWinners(out.sys, contract, vote))

\* Whatever the order in which Go's map iteration visits the options, each
\* Winners method decides the vote as its system's description says, as
\* long as the weights do not wrap (they are token holdings, whose sum an
\* asset's uint64 quantity bounds), votes were cast and (for the absolute
\* systems) the contract has holders.
AgreesWithReference ==
    AgreementOn(/\ 0 < ExactTotal(vote) /\ ExactTotal(vote) < Modulus
                /\ (out.sys \in {"A", "T"} /\ ~AssetMissing(contract, vote)
                    => TokenHolderCount(contract, vote) > 0))

\* A vote in which no weight was cast decides nothing.  Expected to be
\* violated: SuperMajority's `>=` admits every option at a zero total and
\* the map order picks one of them.
NoWinnerWithoutVotes ==
    out.op = "winners" /\ ExactTotal(vote) = 0 => ~Decided(out.value)

\* The absolute systems decide nothing when the contract (or the vote's
\* asset) has no holders: no turnout of holders can be reached.  Expected
\* to be violated: the division by zero holders is +Inf or NaN and the
\* turnout test passes.
TurnoutNeedsHolders ==
    /\ out.op = "winners" /\ out.sys \in {"A", "T"}
    /\ ~AssetMissing(contract, vote)
    /\ TokenHolderCount(contract, vote) = 0
    => ~Decided(out.value)

=============================================================================
