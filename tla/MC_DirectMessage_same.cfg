\* The same text to two contacts in the same second.
CONSTANTS
  s1 = s1
  s2 = s2
  p1 = p1
  p2 = p2
  b1 = b1
  b2 = b2
  Send = {s1, s2}
  Peer = {p1, p2}
  Body = {b1}
  DestOf <- TwoDests
  BodyOf <- SameBody
  FloodAt = 3
  LastAttempt = 3
  PacketLogSize = 4
  MessageLogSize = 1
  MaxCopies = 1
SPECIFICATION Spec
INVARIANTS AckedByPeer
CHECK_DEADLOCK FALSE
