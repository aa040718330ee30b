\* The proxy: the worker thread and zenoh's thread share the serializer.
SPECIFICATION Spec
CONSTANTS
  Threads = {"worker", "zenoh"}
  Values <- AllValues
  Messages <- ProxyMessages
  Capacity = 7
  MaxMessages = 2
  FilterCapacity = 7
  ReaderOf <- Readers
INVARIANT FrameIsMessage
CHECK_DEADLOCK FALSE
