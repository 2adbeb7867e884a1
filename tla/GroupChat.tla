----------------------------- MODULE GroupChat -----------------------------
(***************************************************************************)
(* Channel messages among devices with a companion and a ping bot: the     *)
(* dispatch of a received packet to the layers of a node                   *)
(* (chiyocore/src/simple_mesh/mod.rs, layer.rs), the two logs against      *)
(* duplicates, and the bot's delayed answers (ping_bot.rs).                *)
(*                                                                         *)
(* The network loses, delays, reorders and repeats packets, as in          *)
(* DirectMessage: every node, the sender included, may hear a flooded      *)
(* packet up to MaxCopies times at any later time.  A node handles one     *)
(* packet at a time; the layers that are called for it run concurrently.   *)
(***************************************************************************)
EXTENDS HashLog

CONSTANTS Node,           \* devices with one node each
          UserMessage,    \* messages that users write, each sent once
          Garbled,        \* those that are no UTF-8
          Author,         \* the node whose client sends it, or Outside
          Outside,
          NoMessage,
          Copies,         \* how often each node may hear each of them
          Channel,
          ChannelOf,      \* the channel a user's message is in
          Word,           \* what texts are made of between colons
          TextOf,         \* its text, cut at the colons
          Knows,          \* the channels each node has the key of
          Serves,         \* the channels of its bot
          Name,           \* the name of its bot, cut at the colons
          Variant,        \* the second and the path an answer tells of
          PacketLogSize,  \* capacity of packet_log (32)
          MessageLogSize, \* capacity of message_log (32)
          MaxCopies       \* bound: how often a node may hear an answer

Layer == {"companion", "bot"}

\* A string is its pieces between colons, each a sequence of words, so that
\* `split_once(':')` gives its Head and its Tail.
Pieces == Seq(Seq(Word)) \ {<<>>}

ASSUME ChatAssumption ==
  /\ Outside \notin Node
  /\ Garbled \subseteq UserMessage
  /\ Author \in [UserMessage -> Node \cup {Outside}]
  /\ Copies \in [UserMessage -> [Node -> Nat]]
  /\ ChannelOf \in [UserMessage -> Channel]
  /\ {"!ping", "pong", "path"} \subseteq Word
  /\ TextOf \in [UserMessage \ Garbled -> Pieces]
  /\ Name \in [Node -> Pieces]
  /\ Knows \in [Node -> SUBSET Channel] /\ Serves \in [Node -> SUBSET Channel]
  /\ PacketLogSize \in Nat \ {0} /\ MessageLogSize \in Nat \ {0}
  /\ MaxCopies \in Nat

\* Who may be named in an answer: what is before the first colon of a text.
User == {Head(TextOf[m]) : m \in UserMessage \ Garbled} \cup {Head(Name[n]) : n \in Node}

\* A message and its packet: the packet's hash covers the encrypted message and
\* nothing else that differs.
Answer == [by : Node, channel : Channel, user : User, at : Variant]
Message == UserMessage \cup Answer

ASSUME MessageAssumption == NoMessage \notin Message /\ UserMessage \cap Answer = {}

VARIABLES unsent,     \* the messages that users have yet to send
          air,        \* how often each node may still hear each packet
          packetLog, messageLog, \* of each node, newest first
          now,        \* the message each node has called its layers for
          layer,      \* how far each layer is with it
          delayed,    \* answers whose delay has not passed yet
          given,      \* what each layer has handled to its end, newest first
          taken,      \* ghost: messages each node took for new, newest first
          handled,    \* ghost: packets each node has logged, newest first
          answers     \* ghost: how often each node has begun to answer each message

packets == <<packetLog, handled>>
calls == <<now, layer, given>>
vars == <<unsent, air, packets, messageLog, taken, calls, delayed, answers>>

TypeOK ==
  /\ unsent \subseteq UserMessage
  /\ air \in [Message -> [Node -> Nat]]
  /\ packetLog \in [Node -> Seq(Message)] /\ messageLog \in [Node -> Seq(Message)]
  /\ now \in [Node -> Message \cup {NoMessage}]
  /\ layer \in [Node -> [Layer -> {"idle", "called", "done", "failed"}]]
  /\ delayed \in [Node -> [Answer -> Nat]]
  /\ given \in [Node -> [Layer -> Seq(Message)]]
  /\ taken \in [Node -> Seq(Message)]
  /\ handled \in [Node -> Seq(Message)] /\ answers \in [Node -> [Message -> Nat]]
  /\ \A n \in Node : /\ Len(packetLog[n]) <= PacketLogSize
                     /\ Len(messageLog[n]) <= MessageLogSize

Init ==
  /\ unsent = UserMessage
  /\ air = [m \in Message |-> [n \in Node |-> 0]]
  /\ packetLog = [n \in Node |-> <<>>] /\ messageLog = [n \in Node |-> <<>>]
  /\ now = [n \in Node |-> NoMessage]
  /\ layer = [n \in Node |-> [l \in Layer |-> "idle"]]
  /\ delayed = [n \in Node |-> [a \in Answer |-> 0]]
  /\ given = [n \in Node |-> [l \in Layer |-> <<>>]]
  /\ taken = [n \in Node |-> <<>>] /\ handled = [n \in Node |-> <<>>]
  /\ answers = [n \in Node |-> [m \in Message |-> 0]]

CopiesOf(m, n) == IF m \in UserMessage THEN Copies[m][n] ELSE MaxCopies

OnAir(m) == air' = [air EXCEPT ![m] = [n \in Node |-> @[n] + CopiesOf(m, n)]]

-----------------------------------------------------------------------------
ChannelFor(m) == IF m \in UserMessage THEN ChannelOf[m] ELSE m.channel

\* "{name}: pong @[{user}] ...\npath: {path}", the text of an answer.
AnswerText(a) == Name[a.by] \o << <<"pong">> \o a.user, <<"path">> >>

Text(m) == IF m \in UserMessage THEN TextOf[m] ELSE AnswerText(m)

\* Faulty variant: asks for the second piece of the text, whatever follows it.
AsksSomewhere(m) == Len(Text(m)) > 1 /\ Text(m)[2] = <<"!ping">>

\* PingBot::group_text: all that is behind the first colon of the text is "!ping".
Asks(m) == Tail(Text(m)) = << <<"!ping">> >>

AnswerOf(n, m, v) == [by |-> n, channel |-> ChannelFor(m), user |-> Head(Text(m)), at |-> v]

\* decode_channel_message finds a channel whose key fits.
Decodes(n, m) == ChannelFor(m) \in Knows[n]

\* A layer is done with the message of its node, or has returned an error.
Ended(n, l) == layer[n][l] \in {"done", "failed"}

\* Faulty variant: try_join, which drops the other layers at the first error.
JoinedOnError(n) == (\A l \in Layer : Ended(n, l)) \/ (\E l \in Layer : layer[n][l] = "failed")

\* `join` of the layers' calls: it looks at their errors when all have returned.
Joined(n) == \A l \in Layer : Ended(n, l)

\* Faulty variant: a message that comes with another packet's is given again.
NewMessageAlways(n, m) == TRUE

\* message_log.push finds no duplicate.
NewMessage(n, m) == ~ContainsHash(messageLog[n], m)

\* Faulty variant: answers are not logged.
EnterHeard(n, log, m) ==
  IF m \in Answer /\ m.by = n THEN log ELSE PushFront(log, m, PacketLogSize)

\* packet_log.push of what it does not contain: what the node hears and, before
\* any delay, what it sends.
Enter(n, log, m) == PushFront(log, m, PacketLogSize)

-----------------------------------------------------------------------------
\* A log and its history after packet_log.push.
Logged(n, at, m) ==
  IF ContainsHash(at.log, m) THEN at
  ELSE [log |-> Enter(n, at.log, m), all |-> <<m>> \o at.all]

LogOf(n) == [log |-> packetLog[n], all |-> handled[n]]

Log(n, at) == /\ packetLog' = [packetLog EXCEPT ![n] = at.log]
              /\ handled' = [handled EXCEPT ![n] = at.all]

\* Somebody else's message.
UserSends(m) ==
  /\ m \in unsent /\ Author[m] = Outside
  /\ unsent' = unsent \ {m}
  /\ OnAir(m)
  /\ UNCHANGED <<packets, messageLog, taken, calls, delayed, answers>>

\* send_channel_message of a client: send_flood_packet logs the packet, so that
\* its echo is ignored, and sends it.  The client waits while a received message
\* has the companion.
ClientSends(m) ==
  /\ m \in unsent /\ Author[m] \in Node
  /\ now[Author[m]] = NoMessage
  /\ unsent' = unsent \ {m}
  /\ Log(Author[m], Logged(Author[m], LogOf(Author[m]), m))
  /\ OnAir(m)
  /\ UNCHANGED <<messageLog, taken, calls, delayed, answers>>

\* The next packet is taken when the node is done with the one before.
Hear(n, m) == /\ air[m][n] > 0
              /\ now[n] = NoMessage
              /\ air' = [air EXCEPT ![m][n] = @ - 1]
              /\ UNCHANGED unsent

\* SimpleMesh::packet drops what is in its log.
HearAgain(n, m) == /\ Hear(n, m) /\ ContainsHash(packetLog[n], m)
                   /\ UNCHANGED <<packets, messageLog, taken, calls, delayed, answers>>

\* A message that it cannot read, or that message_log knows though packet_log
\* has forgotten it.
HearUnread(n, m) == /\ Hear(n, m) /\ ~ContainsHash(packetLog[n], m)
                    /\ ~Decodes(n, m) \/ ~NewMessage(n, m)
                    /\ Log(n, Logged(n, LogOf(n), m))
                    /\ UNCHANGED <<messageLog, taken, calls, delayed, answers>>

\* All layers are called for a new message.
HearMessage(n, m) ==
  /\ Hear(n, m) /\ ~ContainsHash(packetLog[n], m) /\ Decodes(n, m) /\ NewMessage(n, m)
  /\ Log(n, Logged(n, LogOf(n), m))
  /\ messageLog' = [messageLog EXCEPT ![n] = PushFront(@, m, MessageLogSize)]
  /\ taken' = [taken EXCEPT ![n] = <<m>> \o @]
  /\ now' = [now EXCEPT ![n] = m]
  /\ layer' = [layer EXCEPT ![n] = [l \in Layer |-> "called"]]
  /\ UNCHANGED <<given, delayed, answers>>

\* Layer l returns.
Return(n, l, result) ==
  /\ layer' = [layer EXCEPT ![n][l] = result]
  /\ given' = [given EXCEPT ![n][l] = <<now[n]>> \o @]
  /\ UNCHANGED <<unsent, air, messageLog, taken, now>>

\* Companion::group_text has stored the message, and then fails to print it.
StoreMessage(n) ==
  /\ layer[n]["companion"] = "called"
  /\ Return(n, "companion", IF now[n] \in Garbled THEN "failed" ELSE "done")
  /\ UNCHANGED <<packets, delayed, answers>>

\* The bot fails on a text of its channels that it cannot read, and leaves what is
\* not for it.
LeaveMessage(n) ==
  LET served == ChannelFor(now[n]) \in Serves[n] IN
  /\ layer[n]["bot"] = "called"
  /\ \/ served /\ now[n] \in Garbled /\ Return(n, "bot", "failed")
     \/ served /\ now[n] \notin Garbled /\ ~Asks(now[n]) /\ Return(n, "bot", "done")
     \/ ~served /\ Return(n, "bot", "done")
  /\ UNCHANGED <<packets, delayed, answers>>

\* It logs the answer to a ping and spawns the task that is to send it.
AnswerMessage(n) ==
  /\ layer[n]["bot"] = "called"
  /\ ChannelFor(now[n]) \in Serves[n] /\ now[n] \notin Garbled /\ Asks(now[n])
  /\ \E v \in Variant :
       LET a == AnswerOf(n, now[n], v)
       IN /\ Log(n, Logged(n, LogOf(n), a))
          /\ delayed' = [delayed EXCEPT ![n][a] = @ + 1]
  /\ answers' = [answers EXCEPT ![n][now[n]] = @ + 1]
  /\ Return(n, "bot", "done")

\* The node is done with the packet.
Join(n) ==
  /\ now[n] # NoMessage /\ Joined(n)
  /\ now' = [now EXCEPT ![n] = NoMessage]
  /\ layer' = [layer EXCEPT ![n] = [l \in Layer |-> "idle"]]
  /\ UNCHANGED <<unsent, air, packets, messageLog, taken, given, delayed, answers>>

\* lora.rs, send_delayed: the delay has passed.
SendAnswer(n, a) ==
  /\ delayed[n][a] > 0
  /\ delayed' = [delayed EXCEPT ![n][a] = @ - 1]
  /\ OnAir(a)
  /\ UNCHANGED <<unsent, packets, messageLog, taken, calls, answers>>

Next == \/ \E m \in UserMessage : UserSends(m) \/ ClientSends(m)
        \/ \E n \in Node, m \in Message :
             HearAgain(n, m) \/ HearUnread(n, m) \/ HearMessage(n, m)
        \/ \E n \in Node :
             StoreMessage(n) \/ LeaveMessage(n) \/ AnswerMessage(n) \/ Join(n)
        \/ \E n \in Node, a \in Answer : SendAnswer(n, a)

Spec == Init /\ [][Next]_vars

-----------------------------------------------------------------------------
Repeats(history, window) ==
  \E i, j \in 1..Len(history) : /\ i < j /\ j - i <= window
                                /\ history[i] = history[j]

\* No packet is taken for new, neither one that was heard nor the echo of one
\* the node sent, before PacketLogSize others have come (mod.rs:839, 309).
NoPacketTwice == \A n \in Node : ~Repeats(handled[n], PacketLogSize)

\* No message is given to the layers, and no ping answered, twice within
\* MessageLogSize others, however short the packet log is (mod.rs:583).
NoMessageTwice == \A n \in Node, l \in Layer : ~Repeats(given[n][l], MessageLogSize)

\* Each layer of a node handles every message the node takes for new, to its end
\* and in the same order as the others, whichever of them fails or is slow: but
\* for the message its node is at, none is left out (layer.rs:281-293, 359-381).
LayersAgree ==
  \A n \in Node, l \in Layer :
    given[n][l] = IF layer[n][l] = "called" THEN Tail(taken[n]) ELSE taken[n]

\* The bots never answer each other or themselves, whatever they are called and
\* whoever they name: no node begins an answer to an answer (ping_bot.rs:50-81).
NoAnswerToAnswers == \A n \in Node, a \in Answer : answers[n][a] = 0
=============================================================================
