SPECIFICATION Spec
CONSTANTS
  Logger = {t1, t2}
  LogLengthMax = 4
  MaxMessages = 7
INVARIANTS
  LastMessages
  NoHole
