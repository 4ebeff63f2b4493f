--------------------------- MODULE MC_VoteSystems ---------------------------
(* Model-checking instance of VoteSystems: two options with 3-bit weights, *)
(* so that two weights can sum past the width and wrap; up to three      *)
(* ballots against up to two holdings in each of two assets, so that the *)
(* turnout tests are met, missed, and met with no holders at all; one     *)
(* known and one unknown voting-system code.                              *)
EXTENDS VoteSystems, TLC

CONSTANTS a1, a2

MCOptions == {0, 1}
MCAssetIDs == {a1, a2}
MCWidth == 3
MCCodes == {"A", "Q"}
MCMaxBallots == 3
MCMaxHoldings == 2

AssetSymmetry == Permutations(MCAssetIDs)
=============================================================================
