CONSTANTS
  o1 = o1
  o2 = o2
  None = None
  SubObjs <- MCSubObjs
  Topics <- MCTopics
  Matches <- MCMatches
  Uptime = "uptime"
  Latency = "latency"
  Ids <- AppIds
  Apps <- ListenerApps
  ConnectPeriod = 10
  LoopbackTimeout = 5
  MaxAge = 16
  Modulus = 1
  MaxNet = 2
  MaxLine = 8
  MaxToUc = 3
  Budgets <- OneForeign
  Backlog = 0
SPECIFICATION Spec
INVARIANT LoopbackIsUptime
