SPECIFICATION Spec
CONSTANTS
  InitCap = 4
  MaxAppend = 4
  MaxSize = 40
  MaxLength = 70
INVARIANTS
  Fits
  InBlock
