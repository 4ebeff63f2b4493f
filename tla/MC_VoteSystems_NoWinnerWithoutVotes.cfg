CONSTANTS
    a1 = a1
    a2 = a2
    Error = Error
    Options <- MCOptions
    AssetIDs <- MCAssetIDs
    Width <- MCWidth
    Codes <- MCCodes
    MaxBallots <- MCMaxBallots
    MaxHoldings <- MCMaxHoldings
SYMMETRY AssetSymmetry
SPECIFICATION Spec
INVARIANT NoWinnerWithoutVotes
