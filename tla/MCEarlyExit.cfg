SPECIFICATION Spec
CONSTANTS
  Device = {d1, d2}
  Worker = {w1, w2}
  NumRounds = 1
  ClientsPerRound = 2
  MaxClients = 2
  Faulty = FALSE
  MayShutdown = FALSE
  FirstCapacity = 2
  NoRequest = NoRequest
SYMMETRY Symmetry
INVARIANTS
  AllRoundsAggregated
