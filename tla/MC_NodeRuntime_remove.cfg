SPECIFICATION FairSpec
CONSTANTS
  n1 = n1
  n2 = n2
  Node = {n1, n2}
  Command <- Removing
  Garbled <- NoneGarbled
  RxCapacity = 2
  TxCapacity = 1
  DelayPool = 1
  PacketLogSize = 2
  MaxHeard = 1
  MaxCalls = 1
  MaxFail = 0
CHECK_DEADLOCK FALSE
PROPERTY
  LayersCalledOnEveryPacket
