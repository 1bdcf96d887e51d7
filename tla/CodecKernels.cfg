SPECIFICATION Spec
CONSTANTS
  Arch <- SmallArch
  Value <- SmallValue
  Precision = 2
  Clients = 2
  Garbage = 7
  Documents <- SmallDocuments
INVARIANTS
  ReadsBack
  FieldsArrive
PROPERTIES
  KernelsSurvive
