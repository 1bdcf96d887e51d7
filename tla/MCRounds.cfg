SPECIFICATION Spec
CONSTANTS
  Device = {d1, d2, d3}
  Worker = {w1, w2}
  NumRounds = 2
  ClientsPerRound = 2
  MaxClients = 3
  Faulty = FALSE
  MayShutdown = FALSE
  FirstCapacity = 2
  NoRequest = NoRequest
SYMMETRY Symmetry
INVARIANTS
  TypeOK
  Exclusion
  FedAvgExact
  NoLateUpdate
  NoTornBroadcast
  ParticipantsAreReady
  StatsInRange
  StatsOncePerClient
  FileComplete
PROPERTIES
  NoRoundAbandoned
  MembershipStable
  NoStaleInFlight
  ImplementsFedAvg
