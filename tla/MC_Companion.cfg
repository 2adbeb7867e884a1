\* Two nodes that hear two messages and the answers of a repeater, logs of one
\* entry, a flash log that overflows and a reboot.
SPECIFICATION Spec
CONSTANTS
  n1 = n1
  n2 = n2
  m1 = m1
  m2 = m2
  r1 = r1
  NoMessage = NoMessage
  NoRepeater = NoRepeater
  NoNode = NoNode
  Node = {n1, n2}
  Message = {m1, m2}
  Repeater = {r1}
  NotifyCapacity = 1
  NodeLogSize = 1
  LatestSize = 1
  LogCapacity = 1
  MaxReceived = 3
  MaxLogins = 1
  MaxCrash = 1
SYMMETRY Symmetry
\* Clients stay away and the air falls silent when the bounds are reached.
CHECK_DEADLOCK FALSE
INVARIANTS
  TypeOK
  StoredOnce
  GivenIsWritten
  LoginAnsweredOnce
