CONSTANTS
  o1 = o1
  o2 = o2
  None = None
  SubObjs <- MCSubObjs
  Topics <- MCTopics
  Matches <- MCMatches
  Uptime = "uptime"
  Latency = "latency"
  Ids <- AppIds
  Apps <- LedApps
  ConnectPeriod = 2
  LoopbackTimeout = 1
  MaxAge = 4
  Modulus = 1
  MaxNet = 3
  MaxLine = 11
  MaxToUc = 4
  Budgets <- Traffic
  Backlog = 1
SPECIFICATION Spec
SYMMETRY Addresses
INVARIANTS
  TypeOK
  PublishReachesItsTopic
  SampleReachesItsSubscriber
