\* One sending thread.
SPECIFICATION Spec
CONSTANTS
  Threads = {"loop"}
  Values <- AllValues
  Messages <- AllMessages
  Capacity = 7
  MaxMessages = 2
  FilterCapacity = 7
  ReaderOf <- Readers
INVARIANTS
  TypeOK
  FrameIsMessage
  AbortsOnlyTooLong
  HandledAsSent
  WireCarriesLeadingParts
CHECK_DEADLOCK FALSE
