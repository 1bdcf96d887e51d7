SPECIFICATION Spec
CONSTANTS
  Device = {d1, d2}
  Worker = {w1}
  NumRounds = 2
  ClientsPerRound = 2
  MaxClients = 2
  Faulty = TRUE
  MayShutdown = TRUE
  FirstCapacity = 1
  NoRequest = NoRequest
SYMMETRY Symmetry
PROPERTY
  DevicesKeepContract
CHECK_DEADLOCK FALSE
