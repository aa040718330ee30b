CONSTANTS
  MaxFds = 2
  RecvMax = 2
  MaxSessions = 2
  MaxSlices = 2
  Wants = {2}
  MaxLine = 3
  MaxFaults = 1
SPECIFICATION FairSpec
CHECK_DEADLOCK FALSE
INVARIANTS
  TunnelInv
  PrefixOfItsSession
  WorkerNotStuck
PROPERTIES
  ImplementsStreams
  OpenIsAnswered
  DownDelivered
