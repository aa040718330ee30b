CONSTANTS
  First <- AllBytes
  Alphabet <- StuffingBytes
  MaxLen = 3
SPECIFICATION DataSpec
CHECK_DEADLOCK FALSE
INVARIANTS
  FcsIsCrc
  RoundTrip
  BitErrorDetected
