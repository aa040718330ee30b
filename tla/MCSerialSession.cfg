SPECIFICATION FairSpec
CONSTANTS
  Fds = {3, 4, 5}
  MaxArrived = 4
INVARIANTS
  InvokersOwnTheirFd
  NoLeakedFd
  EmittedInOrder
  FdInv
PROPERTY LossIsHandled
