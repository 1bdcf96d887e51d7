SPECIFICATION FairSpec
CONSTANTS
  Device = {d1, d2}
  Worker = {w1}
  NumRounds = 2
  ClientsPerRound = 2
  MaxClients = 2
  Faulty = FALSE
  MayShutdown = FALSE
  FirstCapacity = 2
  NoRequest = NoRequest
PROPERTIES
  Terminates
  RoundsComplete
  Registered
