CONSTANTS
  o1 = o1
  o2 = o2
  None = None
  SubObjs <- MCSubObjs
  Topics <- MCTopics
  Matches <- MCMatches
  Uptime = "uptime"
  Latency = "latency"
  Ids <- PlainIds
  Apps <- PlainApps
  ConnectPeriod = 4
  LoopbackTimeout = 2
  MaxAge = 7
  Modulus = 4
  MaxNet = 4
  MaxLine = 16
  MaxToUc = 5
  Budgets <- FaultsOrSlow
  Backlog = 3
SPECIFICATION FairSpec
INVARIANTS
  DeclaredBeforeUse
PROPERTIES
  LatencyIsElapsed
  Recovers
  DeclaredUnlessLost
