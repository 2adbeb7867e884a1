SPECIFICATION FairSpec
CONSTANTS
  n1 = n1
  n2 = n2
  Node = {n1}
  Command <- Returning
  Garbled <- NoneGarbled
  RxCapacity = 1
  TxCapacity = 1
  DelayPool = 1
  PacketLogSize = 2
  MaxHeard = 2
  MaxCalls = 2
  MaxFail = 0
CHECK_DEADLOCK FALSE
PROPERTY
  SendsWhenNeeded
