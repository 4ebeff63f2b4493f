-------------------------- MODULE VoteSystemsProofs --------------------------
(***************************************************************************)
(* Proofs about VoteSystems, for every set of options, asset IDs and      *)
(* codes, every width and every bound on ballots and holdings: the voting *)
(* system chosen for a vote is a known code, an asset's or the contract's  *)
(* own, or an error, and every tally returns an error or a set of the      *)
(* vote's own options, whichever system runs it and whatever the weights.  *)
(***************************************************************************)
EXTENDS VoteSystems, TLAPS

\* GetVotingSystemCode returns the contract's code, an asset's own code or
\* an error.
LEMMA CodeType ==
    ASSUME NEW c \in Contracts, NEW v \in Votes
    PROVE  GetVotingSystemCode(c, v) \in Codes \cup {"", Error}
<1>1. CASE v.assetID = ""
  BY <1>1 DEF GetVotingSystemCode, Contracts
<1>2. CASE v.assetID # "" /\ v.assetID \notin DOMAIN c.assets
  BY <1>2 DEF GetVotingSystemCode
<1>3. CASE v.assetID # "" /\ v.assetID \in DOMAIN c.assets
  <2>0. PICK D \in SUBSET AssetIDs : c.assets \in [D -> Assets]
    BY DEF Contracts
  <2>1. c.assets[v.assetID] \in Assets
    BY <1>3, <2>0
  <2>2. c.assets[v.assetID].votingSystem \in Codes \cup {""}
    BY <2>1 DEF Assets
  <2>. QED BY <1>3, <2>2 DEF GetVotingSystemCode, Contracts
<1>. QED BY <1>1, <1>2, <1>3

\* Every result a Winners method may return is an error or a set of the
\* options of vote.Result: the loops only ever collect keys of the map.
LEMMA WinnersType ==
    ASSUME NEW s \in VotingSystems, NEW c \in Contracts, NEW v \in Votes
    PROVE  Winners(s, c, v) \subseteq (SUBSET Options) \cup {Error}
<1>1. DOMAIN v.result = Options
  BY DEF Votes
<1>2. \A Q \in SUBSET Options : FirstFound(Q) \subseteq SUBSET Options
  BY DEF FirstFound
<1>3. CASE s = "M"
  BY <1>1, <1>2, <1>3 DEF Winners, MajorityVote
<1>4. CASE s = "A"
  BY <1>1, <1>4 DEF Winners, AbsoluteMajority
<1>5. CASE s = "P"
  BY <1>1, <1>5 DEF Winners, PluralityVotingSystem
<1>6. CASE s = "S"
  BY <1>1, <1>2, <1>6 DEF Winners, SuperMajority
<1>7. CASE s = "T"
  BY <1>1, <1>7 DEF Winners, AbsoluteSuperMajority
<1>8. CASE s = "N"
  BY <1>8 DEF Winners, NoVotingRights
<1>. QED BY <1>3, <1>4, <1>5, <1>6, <1>7, <1>8 DEF VotingSystems

LEMMA InitTypeOK == Init => TypeOK
BY DEF Init, TypeOK

\* Each call leaves the contract and the vote alone and returns a result
\* of its type.
LEMMA TypeInductive == TypeOK /\ [Next]_vars => TypeOK'
<1> SUFFICES ASSUME TypeOK, [Next]_vars PROVE TypeOK'
  OBVIOUS
<1>1. CASE CallGetVotingSystemCode
  <2>1. GetVotingSystemCode(contract, vote) \in Codes \cup {"", Error}
    BY CodeType DEF TypeOK
  <2>. QED BY <1>1, <2>1 DEF CallGetVotingSystemCode, TypeOK
<1>2. CASE CallNewVotingSystem
  <2>1. PICK code \in Codes \cup {""} :
           out' = [op |-> "system", value |-> NewVotingSystem(code)]
    BY <1>2 DEF CallNewVotingSystem
  <2>2. NewVotingSystem(code) \in VotingSystems \cup {Error}
    BY DEF NewVotingSystem
  <2>. QED BY <1>2, <2>1, <2>2 DEF CallNewVotingSystem, TypeOK
<1>3. CASE CallWinners
  <2>0. PICK s \in VotingSystems :
           \E w \in Winners(s, contract, vote) :
              out' = [op |-> "winners", sys |-> s, value |-> w]
    BY <1>3 DEF CallWinners
  <2>1. PICK w \in Winners(s, contract, vote) :
           out' = [op |-> "winners", sys |-> s, value |-> w]
    BY <2>0
  <2>2. w \in (SUBSET Options) \cup {Error}
    BY WinnersType DEF TypeOK
  <2>. QED BY <1>3, <2>1, <2>2 DEF CallWinners, TypeOK
<1>4. CASE UNCHANGED vars
  BY <1>4 DEF vars, TypeOK
<1>. QED BY <1>1, <1>2, <1>3, <1>4 DEF Next

\* Whatever the options, assets, codes, width and bounds, a voting-system
\* code is known, "" or an error, and every Winners call returns an error
\* or a set of the vote's own options.
THEOREM VoteTypeCorrect == Spec => []TypeOK
BY InitTypeOK, TypeInductive, PTL DEF Spec
=============================================================================
