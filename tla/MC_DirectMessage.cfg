\* Two messages with different texts to one contact, which another overhears,
\* fewer attempts, and logs so short that the older message comes back after
\* the newer one has evicted it.  Each is sent once directly and once flooded.
CONSTANTS
  s1 = s1
  s2 = s2
  p1 = p1
  p2 = p2
  b1 = b1
  b2 = b2
  Send = {s1, s2}
  Peer = {p1, p2}
  Body = {b1, b2}
  DestOf <- OneDest
  BodyOf <- TwoBodies
  FloodAt = 1
  LastAttempt = 0
  PacketLogSize = 1
  MessageLogSize = 1
  MaxCopies = 1
SPECIFICATION FairSpec
INVARIANTS TypeOK NoEarlyRepeat GivesUpAfterFlood
PROPERTIES SendEnds PromiseSpec
CHECK_DEADLOCK FALSE
