\* Two devices whose bots hear a ping, each other and themselves; logs so short
\* that they forget while packets are on the air.
SPECIFICATION Spec
CONSTANTS
  n1 = n1
  n2 = n2
  u1 = u1
  u2 = u2
  u3 = u3
  Node = {n1, n2}
  UserMessage = {u1, u2, u3}
  Garbled = {u2}
  Outside = Outside
  NoMessage = NoMessage
  Author <- Authors
  Copies <- Heard
  Channel = {"public", "private"}
  ChannelOf <- Channels
  Word <- Words
  TextOf <- Texts
  Knows <- Keys
  Serves <- Served
  Name <- Names
  Variant = {0}
  PacketLogSize = 1
  MessageLogSize = 1
  MaxCopies = 1
INVARIANTS TypeOK NoPacketTwice NoMessageTwice LayersAgree NoAnswerToAnswers
CHECK_DEADLOCK FALSE
