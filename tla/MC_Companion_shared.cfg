\* One message for one of two nodes.
SPECIFICATION Spec
CONSTANTS
  n1 = n1
  n2 = n2
  m1 = m1
  m2 = m2
  r1 = r1
  NoMessage = NoMessage
  NoRepeater = NoRepeater
  NoNode = NoNode
  Node = {n1, n2}
  Message = {m1, m2}
  Repeater = {r1}
  NotifyCapacity = 1
  NodeLogSize = 1
  LatestSize = 1
  LogCapacity = 2
  MaxReceived = 1
  MaxLogins = 1
  MaxCrash = 0
SYMMETRY Symmetry
\* Clients stay away and the air falls silent when the bounds are reached.
CHECK_DEADLOCK FALSE
INVARIANTS
  FetchedWasAddressed
