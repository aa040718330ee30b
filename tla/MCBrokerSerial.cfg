CONSTANTS
  None = None
  Topics <- MCTopics
  Uptime = "uptime"
  Latency = "latency"
  Apps <- MCApps
  ConnectPeriod = 10
  LoopbackTimeout = 5
  MaxAge = 17
  Modulus = 1
  MaxLine = 4
SPECIFICATION USpec
INVARIANTS
  OutageNoticed
  UInv
