SPECIFICATION Spec
CONSTANTS
  NumImages = 5
  NumSplits = 2
INVARIANTS
  SplitsKeepPairs
