CONSTANTS
  Size = 3
  MaxSent = 3
  MaxDamage = 2
  MaxNoise = 1
  MaxStalls = 1
SPECIFICATION Spec
CHECK_DEADLOCK FALSE
INVARIANTS
  TypeOK
  IntactDelivered
  TextButFlagsReachesStdout
PROPERTY ImplementsChannel
