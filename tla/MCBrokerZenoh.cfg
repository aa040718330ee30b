CONSTANTS
  o1 = o1
  o2 = o2
  o3 = o3
  None = None
  Ids <- MCIds
  Topics <- MCTopics
  Matches <- MCMatches
  Values <- MCValues
  SubObjs <- MCSubObjs
  MaxNet = 1
SPECIFICATION ZSpec
SYMMETRY Addresses
INVARIANTS
  ZTypeOK
  ZInv
  DeclaredMatchesTable
  OneSubscriptionPerId
  HandlerTargetIntact
  NoDoubleUndeclare
  SessionBacksTables
PROPERTY ImplementsRouting
