CONSTANTS
    Scripts <- MCScripts
    MaxOutputs <- MCMaxOutputs
SPECIFICATION Spec
INVARIANT RecognisesEveryPush
