SPECIFICATION Spec
CONSTANTS
  MaxBody = 6
  MaxChunk = 15
  MaxRequired = 16
  Stale <- AnyStale
  Far = 10
INVARIANTS
  BodyExact
  NeverStarves
  HeadWellCut
