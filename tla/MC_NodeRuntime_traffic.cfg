\* One node, its client and retry task, queues of one slot, three frames of which one
\* is garbled, and a driver error.
SPECIFICATION FairSpec
CONSTANTS
  n1 = n1
  n2 = n2
  Node = {n1}
  Command <- Mixed
  Garbled <- OneGarbled
  RxCapacity = 1
  TxCapacity = 1
  DelayPool = 1
  PacketLogSize = 2
  MaxHeard = 3
  MaxCalls = 2
  MaxFail = 1
CHECK_DEADLOCK FALSE
INVARIANTS
  NoLockCycle
  TypeOK
  HandledInOrder
  RadioListens
PROPERTY
  QueuesDrain
