\* Two connections of three commands each, and reads of up to two whole frames:
\* pieces end at, before, behind and inside frames.
SPECIFICATION Spec
CONSTANTS
  Data = {d1, d2}
  d1 = d1
  d2 = d2
  Unsigned = Unsigned
  ReadSize = 6
  MaxCommands = 3
  MaxConnect = 2
INVARIANTS TypeOK EveryCommandOnce SessionSigns
PROPERTY ServedOrGone
CHECK_DEADLOCK FALSE
