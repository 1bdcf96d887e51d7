SPECIFICATION FairSpec
CONSTANTS
  NumClients = 2
  MaxLaunches = 2
  NumRounds = 2
  PerRound = {1}
  MaxEntries = 2
  MaxFaults = 1
  NumSplits = 1
  SplitSize = 5
  BATCH_SIZE = 2
  NUM_EPOCHS = 2
INVARIANTS
  OneEmulatorPerAddress
  ReturnsClean
  BatchInside
  SocketsReturned
  OneHandler
  NoSurplusResult
  TrainsOnSamples
PROPERTIES
  InterfaceAroundServer
  EpochWhole
  DeviceKeepsContract
  RoundCompletes
  PingAnswered
CHECK_DEADLOCK FALSE
