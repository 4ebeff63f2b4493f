CONSTANTS
    Scripts <- MCScripts
    MaxOutputs <- MCMaxOutputs
SPECIFICATION Spec
INVARIANT TypeOK
INVARIANT RecognisesShortPushes
