-------------------------- MODULE GroupChat_proofs --------------------------
(***************************************************************************)
(* Proofs about GroupChat for any number of nodes, messages and copies of  *)
(* them on the air, and logs of any size.                                  *)
(***************************************************************************)
EXTENDS GroupChat, SequenceLemmas

-----------------------------------------------------------------------------
\* The packet log of each node is the window of what it has handled.
PacketInv ==
  /\ packetLog = [n \in Node |-> packetLog[n]] /\ handled = [n \in Node |-> handled[n]]
  /\ \A n \in Node : Window(Message, packetLog[n], handled[n], PacketLogSize)

\* The message log of node n is the window of what it has taken for new.  Its
\* layers are called for the last of these or for none; each has handled the
\* others and, unless it has yet to return, the last.
CallInv(n) ==
  /\ Window(Message, messageLog[n], taken[n], MessageLogSize)
  /\ now[n] \in Message \cup {NoMessage}
  /\ \A l \in Layer : layer[n][l] \in {"idle", "called", "done", "failed"}
  /\ now[n] = NoMessage => \A l \in Layer : layer[n][l] = "idle"
  /\ now[n] # NoMessage => taken[n] # <<>> /\ Head(taken[n]) = now[n]
  /\ \A l \in Layer :
       given[n][l] = IF layer[n][l] = "called" THEN Tail(taken[n]) ELSE taken[n]

Shapes ==
  /\ messageLog = [n \in Node |-> messageLog[n]] /\ taken = [n \in Node |-> taken[n]]
  /\ now = [n \in Node |-> now[n]]
  /\ layer = [n \in Node |-> [l \in Layer |-> layer[n][l]]]
  /\ given = [n \in Node |-> [l \in Layer |-> given[n][l]]]

MessageInv == Shapes /\ \A n \in Node : CallInv(n)

LEMMA InitPackets == Init => PacketInv
<1> SUFFICES ASSUME Init PROVE PacketInv
  OBVIOUS
<1>1. \A n \in Node : packetLog[n] = <<>> /\ handled[n] = <<>>
  BY DEF Init
<1>2. QED
  BY <1>1, ChatAssumption, EmptyWindow DEF Init, PacketInv

LEMMA InitMessages == Init => MessageInv
<1> SUFFICES ASSUME Init PROVE MessageInv
  OBVIOUS
<1>1. \A n \in Node : messageLog[n] = <<>> /\ taken[n] = <<>> /\ now[n] = NoMessage
  BY DEF Init
<1>2. \A n \in Node : layer[n] = [l \in Layer |-> "idle"] /\ given[n] = [l \in Layer |-> <<>>]
  BY DEF Init
<1>3. \A n \in Node, l \in Layer : layer[n][l] = "idle" /\ given[n][l] = <<>>
  BY <1>2
<1>4. Shapes
  BY <1>1, <1>3 DEF Init, Shapes
<1>5. ASSUME NEW n \in Node PROVE CallInv(n)
  BY <1>1, <1>3, ChatAssumption, EmptyWindow DEF CallInv
<1>6. QED
  BY <1>4, <1>5 DEF MessageInv

\* What is pushed, contained or not, leaves a window.
LEMMA LoggedWindow ==
  ASSUME NEW n, NEW at, NEW m \in Message, Window(Message, at.log, at.all, PacketLogSize)
  PROVE  Window(Message, Logged(n, at, m).log, Logged(n, at, m).all, PacketLogSize)
<1>1. CASE ContainsHash(at.log, m)
  BY <1>1 DEF Logged
<1>2. CASE ~ContainsHash(at.log, m)
  <2>1. Window(Message, PushFront(at.log, m, PacketLogSize), <<m>> \o at.all, PacketLogSize)
    BY <1>2, ChatAssumption, PushKeepsWindow
  <2>2. QED
    BY <1>2, <2>1 DEF Logged, Enter
<1>3. QED
  BY <1>1, <1>2

LEMMA LogKeepsPackets ==
  ASSUME PacketInv, NEW n \in Node, NEW at, Log(n, at), Window(Message, at.log, at.all, PacketLogSize)
  PROVE  PacketInv'
<1>1. \A k \in Node : /\ packetLog'[k] = IF k = n THEN at.log ELSE packetLog[k]
                      /\ handled'[k] = IF k = n THEN at.all ELSE handled[k]
  BY DEF PacketInv, Log
<1>2. /\ packetLog' = [k \in Node |-> packetLog'[k]]
      /\ handled' = [k \in Node |-> handled'[k]]
  BY DEF PacketInv, Log
<1>3. ASSUME NEW k \in Node PROVE Window(Message, packetLog'[k], handled'[k], PacketLogSize)
  <2>1. CASE k = n
    BY <1>1, <2>1
  <2>2. CASE k # n
    BY <1>1, <2>2 DEF PacketInv
  <2>3. QED
    BY <2>1, <2>2
<1>4. QED
  BY <1>2, <1>3 DEF PacketInv

LEMMA Joining ==
  ASSUME NEW S, NEW s \in Seq(S), NEW t \in Seq(S)
  PROVE  s \o t \in Seq(S) /\ Len(s \o t) = Len(s) + Len(t)
OBVIOUS

\* The text of an answer begins as the bot's name does, and has a colon more.
LEMMA AnswerTextLong ==
  ASSUME NEW a \in Answer
  PROVE  /\ AnswerText(a) \in Seq(Seq(Word))
         /\ Head(AnswerText(a)) = Head(Name[a.by])
         /\ Len(Tail(AnswerText(a))) > 1
<1>1. Name[a.by] \in Seq(Seq(Word)) /\ Name[a.by] # <<>> /\ a.user \in User
  BY ChatAssumption DEF Answer, Pieces
<1>2. a.user \in Seq(Word)
  <2>1. \A m \in UserMessage \ Garbled : TextOf[m] \in Seq(Seq(Word)) /\ TextOf[m] # <<>>
    BY ChatAssumption DEF Pieces
  <2>2. \A n \in Node : Name[n] \in Seq(Seq(Word)) /\ Name[n] # <<>>
    BY ChatAssumption DEF Pieces
  <2>3. \A m \in UserMessage \ Garbled : Head(TextOf[m]) \in Seq(Word)
    BY <2>1
  <2>4. \A n \in Node : Head(Name[n]) \in Seq(Word)
    BY <2>2
  <2>5. QED
    BY <1>1, <2>3, <2>4 DEF User
<1>3. <<"pong">> \o a.user \in Seq(Word) /\ <<"path">> \in Seq(Word)
  <2>1. "pong" \in Word /\ "path" \in Word
    BY ChatAssumption
  <2>2. <<"pong">> \in Seq(Word) /\ <<"path">> \in Seq(Word)
    BY <2>1
  <2>3. QED
    BY <1>2, <2>2
<1> DEFINE rest == << <<"pong">> \o a.user, <<"path">> >>
<1>4. rest \in Seq(Seq(Word)) /\ Len(rest) = 2
  BY <1>3
<1> DEFINE text == AnswerText(a)
<1>5. text = Name[a.by] \o rest
  BY DEF AnswerText
<1> HIDE DEF rest
<1>6. Len(Name[a.by]) \in Nat /\ Len(Name[a.by]) >= 1
  BY <1>1
<1> HIDE DEF text
<1>7. text \in Seq(Seq(Word)) /\ Len(text) = Len(Name[a.by]) + 2
  BY <1>1, <1>4, <1>5, Joining
<1>8. text[1] = Name[a.by][1]
  BY <1>1, <1>4, <1>5, <1>6
<1>9. Head(text) = text[1] /\ Len(Tail(text)) = Len(text) - 1
  BY <1>6, <1>7
<1>10. Head(Name[a.by]) = Name[a.by][1]
  BY <1>1
<1>11. QED
  BY <1>6, <1>7, <1>8, <1>9, <1>10 DEF text

\* What the bot answers with is an answer.
LEMMA AnswersAreAnswers ==
  ASSUME MessageInv, NEW n \in Node, AnswerMessage(n), NEW v \in Variant
  PROVE  AnswerOf(n, now[n], v) \in Answer
<1>1. now[n] \in Message \ Garbled
  BY DEF MessageInv, CallInv, AnswerMessage, Layer
<1>2. ChannelFor(now[n]) \in Channel
  BY <1>1, ChatAssumption DEF ChannelFor, Message, Answer
<1>3. Head(Text(now[n])) \in User
  <2>1. CASE now[n] \in UserMessage
    BY <1>1, <2>1 DEF Text, User
  <2>2. CASE now[n] \notin UserMessage
    <3>1. now[n] \in Answer /\ now[n].by \in Node
      BY <1>1, <2>2 DEF Message, Answer
    <3>2. Head(Text(now[n])) = Head(Name[now[n].by])
      BY <2>2, <3>1, AnswerTextLong DEF Text
    <3>3. QED
      BY <3>1, <3>2 DEF User
  <2>3. QED
    BY <2>1, <2>2
<1>4. QED
  BY <1>2, <1>3 DEF AnswerOf, Answer

LEMMA NextPackets == MessageInv /\ PacketInv /\ [Next]_vars => PacketInv'
<1> SUFFICES ASSUME MessageInv, PacketInv, [Next]_vars PROVE PacketInv'
  OBVIOUS
<1>1. ASSUME UNCHANGED packets PROVE PacketInv'
  BY <1>1 DEF PacketInv, packets
<1>2. ASSUME NEW n \in Node, NEW m \in Message, Log(n, Logged(n, LogOf(n), m)) PROVE PacketInv'
  <2>1. Window(Message, LogOf(n).log, LogOf(n).all, PacketLogSize)
    BY DEF LogOf, PacketInv
  <2>2. QED
    BY <1>2, <2>1, LoggedWindow, LogKeepsPackets
<1>3. ASSUME NEW m \in UserMessage, UserSends(m) PROVE PacketInv'
  BY <1>1, <1>3 DEF UserSends
<1>4. ASSUME NEW m \in UserMessage, ClientSends(m) PROVE PacketInv'
  BY <1>2, <1>4 DEF ClientSends, Message
<1>5. ASSUME NEW n \in Node, NEW m \in Message, HearAgain(n, m) PROVE PacketInv'
  BY <1>1, <1>5 DEF HearAgain
<1>6. ASSUME NEW n \in Node, NEW m \in Message, HearUnread(n, m) PROVE PacketInv'
  BY <1>2, <1>6 DEF HearUnread
<1>7. ASSUME NEW n \in Node, NEW m \in Message, HearMessage(n, m) PROVE PacketInv'
  BY <1>2, <1>7 DEF HearMessage
<1>8. ASSUME NEW n \in Node, StoreMessage(n) \/ LeaveMessage(n) \/ Join(n) PROVE PacketInv'
  BY <1>1, <1>8 DEF StoreMessage, LeaveMessage, Join
<1>9. ASSUME NEW n \in Node, AnswerMessage(n) PROVE PacketInv'
  <2>1. PICK v \in Variant : Log(n, Logged(n, LogOf(n), AnswerOf(n, now[n], v)))
    BY <1>9 DEF AnswerMessage
  <2>2. AnswerOf(n, now[n], v) \in Message
    BY <1>9, AnswersAreAnswers DEF Message
  <2>3. QED
    BY <1>2, <2>1, <2>2
<1>10. ASSUME NEW n \in Node, NEW a \in Answer, SendAnswer(n, a) PROVE PacketInv'
  BY <1>1, <1>10 DEF SendAnswer
<1>11. CASE UNCHANGED vars
  BY <1>1, <1>11 DEF vars
<1>12. QED
  BY <1>3, <1>4, <1>5, <1>6, <1>7, <1>8, <1>9, <1>10, <1>11 DEF Next

LEMMA WindowFits ==
  ASSUME NEW log, NEW history, NEW size \in Nat, Window(Message, log, history, size)
  PROVE  log \in Seq(Message) /\ history \in Seq(Message) /\ Len(log) <= size
BY DEF Window, Recent

-----------------------------------------------------------------------------
\* What is no step of node n's layers leaves its part of the invariant alone.
LEMMA CallsUnchanged ==
  ASSUME NEW n, CallInv(n), messageLog'[n] = messageLog[n], taken'[n] = taken[n],
         now'[n] = now[n], layer'[n] = layer[n], given'[n] = given[n]
  PROVE  CallInv(n)'
BY DEF CallInv

\* Layers called for a new message.
LEMMA HearKeepsCalls ==
  ASSUME MessageInv, NEW n \in Node, NEW m \in Message, HearMessage(n, m)
  PROVE  MessageInv'
<1>1. /\ ~ContainsHash(messageLog[n], m) /\ now[n] = NoMessage
      /\ messageLog' = [messageLog EXCEPT ![n] = PushFront(messageLog[n], m, MessageLogSize)]
      /\ taken' = [taken EXCEPT ![n] = <<m>> \o taken[n]]
      /\ now' = [now EXCEPT ![n] = m]
      /\ layer' = [layer EXCEPT ![n] = [l \in Layer |-> "called"]]
      /\ given' = given
  BY DEF HearMessage, Hear, NewMessage
<1>2. Shapes /\ \A k \in Node : CallInv(k)
  BY DEF MessageInv
<1>3. \A k \in Node \ {n} : /\ messageLog'[k] = messageLog[k] /\ taken'[k] = taken[k]
                            /\ now'[k] = now[k] /\ layer'[k] = layer[k] /\ given'[k] = given[k]
  BY <1>1, <1>2 DEF Shapes
<1>4. /\ messageLog'[n] = PushFront(messageLog[n], m, MessageLogSize)
      /\ taken'[n] = <<m>> \o taken[n] /\ now'[n] = m
      /\ layer'[n] = [l \in Layer |-> "called"] /\ given'[n] = given[n]
  BY <1>1, <1>2 DEF Shapes
<1>5. Shapes'
  <2>1. \A k \in Node : layer'[k] = [l \in Layer |-> layer'[k][l]]
    <3>1. \A k \in Node : layer[k] = [l \in Layer |-> layer[k][l]]
      BY <1>2 DEF Shapes
    <3>2. \A k \in Node \ {n} : layer'[k] = [l \in Layer |-> layer'[k][l]]
      BY <1>3, <3>1
    <3>3. layer'[n] = [l \in Layer |-> layer'[n][l]]
      BY <1>4
    <3>4. QED
      BY <3>2, <3>3
  <2>2. layer' = [k \in Node |-> [l \in Layer |-> layer'[k][l]]]
    <3>1. layer' = [k \in Node |-> layer'[k]]
      BY <1>1, <1>2 DEF Shapes
    <3>2. QED
      BY <2>1, <3>1
  <2>3. /\ messageLog' = [k \in Node |-> messageLog'[k]] /\ taken' = [k \in Node |-> taken'[k]]
        /\ now' = [k \in Node |-> now'[k]]
    BY <1>1, <1>2 DEF Shapes
  <2>4. QED
    BY <1>1, <1>2, <2>2, <2>3 DEF Shapes
<1>6. CallInv(n)'
  <2>1. Window(Message, messageLog[n], taken[n], MessageLogSize) /\ taken[n] \in Seq(Message)
    BY <1>2, ChatAssumption, WindowFits DEF CallInv
  <2>2. Window(Message, messageLog'[n], taken'[n], MessageLogSize)
    BY <1>1, <1>4, <2>1, ChatAssumption, PushKeepsWindow
  <2>3. taken'[n] # <<>> /\ Head(taken'[n]) = m /\ Tail(taken'[n]) = taken[n]
    BY <1>4, <2>1
  <2>4. \A l \in Layer : layer'[n][l] = "called" /\ given'[n][l] = taken[n]
    BY <1>1, <1>2, <1>4 DEF CallInv
  <2>5. now'[n] # NoMessage
    BY <1>4, MessageAssumption
  <2>6. QED
    BY <1>4, <2>2, <2>3, <2>4, <2>5 DEF CallInv
<1>7. QED
  BY <1>2, <1>3, <1>5, <1>6, CallsUnchanged DEF MessageInv

\* A layer returns.
LEMMA ReturnKeepsCalls ==
  ASSUME MessageInv, NEW n \in Node, NEW l \in Layer, NEW result \in {"done", "failed"},
         layer[n][l] = "called", Return(n, l, result)
  PROVE  MessageInv'
<1>1. /\ layer' = [layer EXCEPT ![n] = [layer[n] EXCEPT ![l] = result]]
      /\ given' = [given EXCEPT ![n] = [given[n] EXCEPT ![l] = <<now[n]>> \o given[n][l]]]
      /\ messageLog' = messageLog /\ taken' = taken /\ now' = now
  BY DEF Return
<1>2. Shapes /\ \A k \in Node : CallInv(k)
  BY DEF MessageInv
<1>3. \A k \in Node \ {n} : layer'[k] = layer[k] /\ given'[k] = given[k]
  BY <1>1, <1>2 DEF Shapes
<1>4. /\ layer'[n] = [layer[n] EXCEPT ![l] = result]
      /\ given'[n] = [given[n] EXCEPT ![l] = <<now[n]>> \o given[n][l]]
      /\ layer[n] = [i \in Layer |-> layer[n][i]] /\ given[n] = [i \in Layer |-> given[n][i]]
  BY <1>1, <1>2 DEF Shapes
<1>5. \A i \in Layer : /\ layer'[n][i] = IF i = l THEN result ELSE layer[n][i]
                       /\ given'[n][i] = IF i = l THEN <<now[n]>> \o given[n][l] ELSE given[n][i]
  BY <1>4
<1>6. Shapes'
  <2>1. /\ layer'[n] = [i \in Layer |-> layer'[n][i]] /\ given'[n] = [i \in Layer |-> given'[n][i]]
    BY <1>4
  <2>2. \A k \in Node : /\ layer'[k] = [i \in Layer |-> layer'[k][i]]
                        /\ given'[k] = [i \in Layer |-> given'[k][i]]
    BY <1>2, <1>3, <2>1 DEF Shapes
  <2>3. layer' = [k \in Node |-> layer'[k]] /\ given' = [k \in Node |-> given'[k]]
    BY <1>1, <1>2 DEF Shapes
  <2>4. QED
    BY <1>1, <1>2, <2>2, <2>3 DEF Shapes
<1>7. CallInv(n)'
  <2>1. Window(Message, messageLog[n], taken[n], MessageLogSize) /\ taken[n] \in Seq(Message)
    BY <1>2, ChatAssumption, WindowFits DEF CallInv
  <2>2. now[n] # NoMessage
    BY <1>2 DEF CallInv
  <2>3. taken[n] # <<>> /\ Head(taken[n]) = now[n] /\ given[n][l] = Tail(taken[n])
    BY <1>2, <2>2 DEF CallInv
  <2>4. <<now[n]>> \o given[n][l] = taken[n]
    BY <2>1, <2>3
  <2>5. \A i \in Layer :
          given'[n][i] = IF layer'[n][i] = "called" THEN Tail(taken'[n]) ELSE taken'[n]
    <3>1. layer'[n][l] # "called" /\ given'[n][l] = taken'[n]
      BY <1>1, <1>5, <2>4
    <3>2. \A i \in Layer \ {l} : layer'[n][i] = layer[n][i] /\ given'[n][i] = given[n][i]
      BY <1>5
    <3>3. \A i \in Layer :
            given[n][i] = IF layer[n][i] = "called" THEN Tail(taken[n]) ELSE taken[n]
      BY <1>2 DEF CallInv
    <3>4. taken' = taken
      BY <1>1
    <3>5. QED
      BY <3>1, <3>2, <3>3, <3>4
  <2>6. \A i \in Layer : layer'[n][i] \in {"idle", "called", "done", "failed"}
    BY <1>2, <1>5 DEF CallInv
  <2>7. /\ Window(Message, messageLog'[n], taken'[n], MessageLogSize)
        /\ now'[n] \in Message \cup {NoMessage} /\ now'[n] # NoMessage
        /\ taken'[n] # <<>> /\ Head(taken'[n]) = now'[n]
    BY <1>1, <1>2, <2>1, <2>2, <2>3 DEF CallInv
  <2>8. QED
    BY <2>5, <2>6, <2>7 DEF CallInv
<1>8. QED
  BY <1>1, <1>2, <1>3, <1>6, <1>7, CallsUnchanged DEF MessageInv

\* All layers have returned.
LEMMA JoinKeepsCalls ==
  ASSUME MessageInv, NEW n \in Node, Join(n)
  PROVE  MessageInv'
<1>1. /\ \A l \in Layer : layer[n][l] \in {"done", "failed"}
      /\ now' = [now EXCEPT ![n] = NoMessage]
      /\ layer' = [layer EXCEPT ![n] = [l \in Layer |-> "idle"]]
      /\ messageLog' = messageLog /\ taken' = taken /\ given' = given
  BY DEF Join, Joined, Ended
<1>2. Shapes /\ \A k \in Node : CallInv(k)
  BY DEF MessageInv
<1>3. \A k \in Node \ {n} : layer'[k] = layer[k] /\ now'[k] = now[k]
  BY <1>1, <1>2 DEF Shapes
<1>4. layer'[n] = [l \in Layer |-> "idle"] /\ now'[n] = NoMessage
  BY <1>1, <1>2 DEF Shapes
<1>5. Shapes'
  <2>1. \A k \in Node : layer'[k] = [l \in Layer |-> layer'[k][l]]
    BY <1>2, <1>3, <1>4 DEF Shapes
  <2>2. layer' = [k \in Node |-> layer'[k]] /\ now' = [k \in Node |-> now'[k]]
    BY <1>1, <1>2 DEF Shapes
  <2>3. layer' = [k \in Node |-> [l \in Layer |-> layer'[k][l]]]
    BY <2>1, <2>2
  <2>4. QED
    BY <1>1, <1>2, <2>2, <2>3 DEF Shapes
<1>6. CallInv(n)'
  <2>1. \A l \in Layer : layer'[n][l] = "idle" /\ given'[n][l] = taken'[n]
    BY <1>1, <1>2, <1>4 DEF CallInv
  <2>2. Window(Message, messageLog'[n], taken'[n], MessageLogSize)
    BY <1>1, <1>2 DEF CallInv
  <2>3. QED
    BY <1>4, <2>1, <2>2 DEF CallInv
<1>7. QED
  BY <1>1, <1>2, <1>3, <1>5, <1>6, CallsUnchanged DEF MessageInv

LEMMA NextMessages == MessageInv /\ [Next]_vars => MessageInv'
<1> SUFFICES ASSUME MessageInv, [Next]_vars PROVE MessageInv'
  OBVIOUS
<1>1. ASSUME UNCHANGED <<messageLog, taken, calls>> PROVE MessageInv'
  BY <1>1 DEF MessageInv, Shapes, CallInv, calls
<1>2. ASSUME NEW m \in UserMessage, UserSends(m) \/ ClientSends(m) PROVE MessageInv'
  BY <1>1, <1>2 DEF UserSends, ClientSends
<1>3. ASSUME NEW n \in Node, NEW m \in Message, HearAgain(n, m) \/ HearUnread(n, m)
      PROVE  MessageInv'
  BY <1>1, <1>3 DEF HearAgain, HearUnread
<1>4. ASSUME NEW n \in Node, NEW m \in Message, HearMessage(n, m) PROVE MessageInv'
  BY <1>4, HearKeepsCalls
<1>5. ASSUME NEW n \in Node, StoreMessage(n) PROVE MessageInv'
  <2>1. "companion" \in Layer /\ layer[n]["companion"] = "called"
    BY <1>5 DEF StoreMessage, Layer
  <2>2. \E result \in {"done", "failed"} : Return(n, "companion", result)
    BY <1>5 DEF StoreMessage
  <2>3. QED
    BY <2>1, <2>2, ReturnKeepsCalls
<1>6. ASSUME NEW n \in Node, LeaveMessage(n) \/ AnswerMessage(n) PROVE MessageInv'
  <2>1. "bot" \in Layer /\ layer[n]["bot"] = "called"
    BY <1>6 DEF LeaveMessage, AnswerMessage, Layer
  <2>2. \E result \in {"done", "failed"} : Return(n, "bot", result)
    BY <1>6 DEF LeaveMessage, AnswerMessage
  <2>3. QED
    BY <2>1, <2>2, ReturnKeepsCalls
<1>7. ASSUME NEW n \in Node, Join(n) PROVE MessageInv'
  BY <1>7, JoinKeepsCalls
<1>8. ASSUME NEW n \in Node, NEW a \in Answer, SendAnswer(n, a) PROVE MessageInv'
  BY <1>1, <1>8 DEF SendAnswer
<1>9. CASE UNCHANGED vars
  BY <1>1, <1>9 DEF vars
<1>10. QED
  BY <1>2, <1>3, <1>4, <1>5, <1>6, <1>7, <1>8, <1>9 DEF Next

LEMMA WindowHasNoRepeats ==
  ASSUME NEW log, NEW history, NEW size \in Nat, Window(Message, log, history, size)
  PROVE  ~Repeats(history, size)
<1>1. /\ \A i, j \in 1..Len(history) : (i < j /\ history[i] = history[j]) => j - i > size
      /\ Len(history) \in Nat
  BY DEF Window, Recent, NoRepeat
<1>2. \A i, j \in 1..Len(history) : j - i \in Int
  BY <1>1
<1>3. QED
  BY <1>1, <1>2 DEF Repeats

\* What does not repeat does not without its newest entry.
LEMMA TailHasNoRepeats ==
  ASSUME NEW history \in Seq(Message), NEW size \in Nat, history # <<>>, ~Repeats(history, size)
  PROVE  ~Repeats(Tail(history), size)
<1> DEFINE rest == Tail(history)
<1>1. /\ Len(history) \in Nat /\ Len(rest) = Len(history) - 1
      /\ \A i \in 1..Len(rest) : i + 1 \in 1..Len(history) /\ rest[i] = history[i + 1]
  OBVIOUS
<1> HIDE DEF rest
<1>2. ASSUME NEW i \in 1..Len(rest), NEW j \in 1..Len(rest),
             i < j, j - i <= size, rest[i] = rest[j]
      PROVE  FALSE
  <2>1. i + 1 < j + 1 /\ (j + 1) - (i + 1) <= size /\ history[i + 1] = history[j + 1]
    BY <1>1, <1>2
  <2>2. QED
    BY <1>1, <2>1 DEF Repeats
<1>3. QED
  BY <1>2 DEF Repeats, rest

\* No packet, not even the echo of one the node has sent, is taken for new before
\* PacketLogSize others (mod.rs:839, 309).
THEOREM PacketsAreNew == Spec => []NoPacketTwice
<1>1. PacketInv => NoPacketTwice
  BY ChatAssumption, WindowHasNoRepeats DEF PacketInv, NoPacketTwice
<1>2. QED
  BY <1>1, InitPackets, InitMessages, NextPackets, NextMessages, PTL DEF Spec

\* No layer is given a message twice within MessageLogSize others, whatever the
\* packet log has forgotten (mod.rs:583).
THEOREM MessagesAreNew == Spec => []NoMessageTwice
<1>1. MessageInv => NoMessageTwice
  <2> SUFFICES ASSUME MessageInv, NEW n \in Node, NEW l \in Layer
               PROVE  ~Repeats(given[n][l], MessageLogSize)
    BY DEF NoMessageTwice
  <2>1. /\ Window(Message, messageLog[n], taken[n], MessageLogSize)
        /\ now[n] = NoMessage \/ taken[n] # <<>>
        /\ given[n][l] = IF layer[n][l] = "called" THEN Tail(taken[n]) ELSE taken[n]
        /\ now[n] = NoMessage => layer[n][l] = "idle"
    BY DEF MessageInv, CallInv
  <2>2. ~Repeats(taken[n], MessageLogSize) /\ taken[n] \in Seq(Message)
    BY <2>1, ChatAssumption, WindowHasNoRepeats, WindowFits
  <2>3. CASE layer[n][l] = "called"
    BY <2>1, <2>2, <2>3, TailHasNoRepeats, ChatAssumption
  <2>4. CASE layer[n][l] # "called"
    BY <2>1, <2>2, <2>4
  <2>5. QED
    BY <2>3, <2>4
<1>2. QED
  BY <1>1, InitMessages, NextMessages, PTL DEF Spec

\* Each layer has handled all messages that its node took for new, in their order,
\* but for the one it is called for (layer.rs:281-293, 359-381).
THEOREM AllLayersAgree == Spec => []LayersAgree
<1>1. MessageInv => LayersAgree
  BY DEF MessageInv, CallInv, LayersAgree
<1>2. QED
  BY <1>1, InitMessages, NextMessages, PTL DEF Spec

-----------------------------------------------------------------------------
\* What is on the air and waiting to be sent, per packet.
AirInv ==
  /\ unsent \subseteq UserMessage
  /\ air \in [Message -> [Node -> Nat]]
  /\ delayed \in [Node -> [Answer -> Nat]]
  /\ answers \in [Node -> [Message -> Nat]]

LEMMA InitAir == Init => AirInv
BY DEF Init, AirInv

LEMMA NextAir == MessageInv /\ AirInv /\ [Next]_vars => AirInv'
<1> SUFFICES ASSUME MessageInv, AirInv, [Next]_vars PROVE AirInv'
  OBVIOUS
<1> USE DEF AirInv
<1>1. ASSUME NEW m \in Message, OnAir(m) PROVE air' \in [Message -> [Node -> Nat]]
  <2>1. \A n \in Node : CopiesOf(m, n) \in Nat /\ air[m][n] \in Nat
    <3>1. \A k \in UserMessage : Copies[k] \in [Node -> Nat]
      BY ChatAssumption
    <3>2. QED
      BY <1>1, <3>1, ChatAssumption DEF CopiesOf
  <2>2. [n \in Node |-> air[m][n] + CopiesOf(m, n)] \in [Node -> Nat]
    BY <2>1
  <2>3. air' = [air EXCEPT ![m] = [n \in Node |-> air[m][n] + CopiesOf(m, n)]]
    BY <1>1 DEF OnAir
  <2>4. QED
    BY <2>2, <2>3
<1>2. ASSUME NEW m \in UserMessage, UserSends(m) \/ ClientSends(m) PROVE AirInv'
  BY <1>1, <1>2 DEF UserSends, ClientSends, Message
<1>3. ASSUME NEW n \in Node, NEW m \in Message, Hear(n, m)
      PROVE  unsent' = unsent /\ air' \in [Message -> [Node -> Nat]]
  <2>1. air[m] \in [Node -> Nat] /\ air[m][n] - 1 \in Nat
    BY <1>3 DEF Hear
  <2>2. [air[m] EXCEPT ![n] = air[m][n] - 1] \in [Node -> Nat]
    BY <2>1
  <2>3. air' = [air EXCEPT ![m] = [air[m] EXCEPT ![n] = air[m][n] - 1]]
    BY <1>3 DEF Hear
  <2>4. QED
    BY <1>3, <2>2, <2>3 DEF Hear
<1>4. ASSUME NEW n \in Node, NEW m \in Message,
             HearAgain(n, m) \/ HearUnread(n, m) \/ HearMessage(n, m)
      PROVE  AirInv'
  BY <1>3, <1>4 DEF HearAgain, HearUnread, HearMessage
<1>5. ASSUME NEW n \in Node, NEW a \in Answer, NEW k \in Nat,
             delayed' = [delayed EXCEPT ![n] = [delayed[n] EXCEPT ![a] = k]]
      PROVE  delayed' \in [Node -> [Answer -> Nat]]
  <2>1. [delayed[n] EXCEPT ![a] = k] \in [Answer -> Nat]
    OBVIOUS
  <2>2. QED
    BY <1>5, <2>1
<1>6. ASSUME NEW n \in Node, StoreMessage(n) \/ LeaveMessage(n) \/ Join(n) PROVE AirInv'
  BY <1>6 DEF StoreMessage, LeaveMessage, Join, Return
<1>7. ASSUME NEW n \in Node, AnswerMessage(n) PROVE AirInv'
  <2>1. PICK v \in Variant : delayed' = [delayed EXCEPT ![n][AnswerOf(n, now[n], v)] = @ + 1]
    BY <1>7 DEF AnswerMessage
  <2>2. AnswerOf(n, now[n], v) \in Answer
    BY <1>7, AnswersAreAnswers
  <2>3. delayed[n][AnswerOf(n, now[n], v)] + 1 \in Nat
    BY <2>2
  <2>4. delayed' \in [Node -> [Answer -> Nat]]
    BY <1>5, <2>1, <2>2, <2>3
  <2>5. answers' \in [Node -> [Message -> Nat]]
    <3>1. now[n] \in Message
      BY <1>7 DEF MessageInv, CallInv, AnswerMessage, Layer
    <3>2. [answers[n] EXCEPT ![now[n]] = answers[n][now[n]] + 1] \in [Message -> Nat]
      BY <3>1
    <3>3. answers' = [answers EXCEPT ![n] = [answers[n] EXCEPT ![now[n]] = answers[n][now[n]] + 1]]
      BY <1>7 DEF AnswerMessage
    <3>4. QED
      BY <3>2, <3>3
  <2>6. QED
    BY <1>7, <2>4, <2>5 DEF AnswerMessage, Return
<1>8. ASSUME NEW n \in Node, NEW a \in Answer, SendAnswer(n, a) PROVE AirInv'
  <2>1. delayed[n][a] - 1 \in Nat
    BY <1>8 DEF SendAnswer
  <2>2. delayed' \in [Node -> [Answer -> Nat]]
    BY <1>5, <1>8, <2>1 DEF SendAnswer
  <2>3. QED
    BY <1>1, <1>8, <2>2 DEF SendAnswer, Message
<1>9. CASE UNCHANGED vars
  BY <1>9 DEF vars
<1>10. QED
  BY <1>2, <1>4, <1>6, <1>7, <1>8, <1>9 DEF Next

\* Every variable keeps its type, and no log outgrows its capacity.
THEOREM TypeCorrect == Spec => []TypeOK
<1>1. AirInv /\ PacketInv /\ MessageInv => TypeOK
  <2> SUFFICES ASSUME AirInv, PacketInv, MessageInv PROVE TypeOK
    OBVIOUS
  <2>1. \A n \in Node : /\ packetLog[n] \in Seq(Message) /\ handled[n] \in Seq(Message)
                        /\ Len(packetLog[n]) <= PacketLogSize
    BY WindowFits, ChatAssumption DEF PacketInv
  <2>2. \A n \in Node : /\ messageLog[n] \in Seq(Message) /\ taken[n] \in Seq(Message)
                        /\ Len(messageLog[n]) <= MessageLogSize
    BY WindowFits, ChatAssumption DEF MessageInv, CallInv
  <2>3. packetLog \in [Node -> Seq(Message)] /\ handled \in [Node -> Seq(Message)]
    BY <2>1 DEF PacketInv
  <2>4. messageLog \in [Node -> Seq(Message)] /\ taken \in [Node -> Seq(Message)]
    BY <2>2 DEF MessageInv, Shapes
  <2>5. now \in [Node -> Message \cup {NoMessage}]
    BY DEF MessageInv, Shapes, CallInv
  <2>6. layer \in [Node -> [Layer -> {"idle", "called", "done", "failed"}]]
    <3>1. \A n \in Node : [l \in Layer |-> layer[n][l]]
                            \in [Layer -> {"idle", "called", "done", "failed"}]
      BY DEF MessageInv, CallInv
    <3>2. layer = [n \in Node |-> [l \in Layer |-> layer[n][l]]]
      BY DEF MessageInv, Shapes
    <3>3. QED
      BY <3>1, <3>2
  <2>7. given \in [Node -> [Layer -> Seq(Message)]]
    <3>1. ASSUME NEW n \in Node, NEW l \in Layer PROVE given[n][l] \in Seq(Message)
      <4>1. /\ given[n][l] = IF layer[n][l] = "called" THEN Tail(taken[n]) ELSE taken[n]
            /\ layer[n][l] = "called" => taken[n] # <<>>
        BY DEF MessageInv, CallInv
      <4>2. QED
        BY <2>2, <4>1
    <3>2. \A n \in Node : [l \in Layer |-> given[n][l]] \in [Layer -> Seq(Message)]
      BY <3>1
    <3>3. given = [n \in Node |-> [l \in Layer |-> given[n][l]]]
      BY DEF MessageInv, Shapes
    <3>4. QED
      BY <3>2, <3>3
  <2>8. QED
    BY <2>1, <2>2, <2>3, <2>4, <2>5, <2>6, <2>7 DEF TypeOK, AirInv
<1>2. QED
  BY <1>1, InitAir, InitPackets, InitMessages, NextAir, NextPackets, NextMessages, PTL DEF Spec

-----------------------------------------------------------------------------
\* What is behind the first colon of an answer is more than a ping.
LEMMA AnswersDoNotAsk == \A a \in Answer : ~Asks(a)
<1> SUFFICES ASSUME NEW a \in Answer, Asks(a) PROVE FALSE
  OBVIOUS
<1>1. a \notin UserMessage
  BY MessageAssumption
<1>2. Tail(AnswerText(a)) = << <<"!ping">> >>
  BY <1>1 DEF Asks, Text
<1>3. Len(<< <<"!ping">> >>) = 1
  OBVIOUS
<1>4. Len(Tail(AnswerText(a))) > 1
  BY AnswerTextLong
<1>5. QED
  BY <1>2, <1>3, <1>4

\* The bots of any number of nodes, whatever their names and however their answers
\* are heard and repeated, answer no answer (ping_bot.rs:50-81).
THEOREM BotsAnswerUsers == Spec => []NoAnswerToAnswers
<1>1. Init => NoAnswerToAnswers
  BY DEF Init, NoAnswerToAnswers, Message
<1>2. MessageInv /\ AirInv /\ NoAnswerToAnswers /\ [Next]_vars => NoAnswerToAnswers'
  <2> SUFFICES ASSUME MessageInv, AirInv, NoAnswerToAnswers, [Next]_vars
               PROVE  NoAnswerToAnswers'
    OBVIOUS
  <2>1. ASSUME UNCHANGED answers PROVE NoAnswerToAnswers'
    BY <2>1 DEF NoAnswerToAnswers
  <2>2. ASSUME NEW n \in Node, AnswerMessage(n) PROVE NoAnswerToAnswers'
    <3>1. now[n] \notin Answer
      BY <2>2, AnswersDoNotAsk DEF AnswerMessage
    <3>2. answers' = [answers EXCEPT ![n] = [answers[n] EXCEPT ![now[n]] = answers[n][now[n]] + 1]]
      BY <2>2 DEF AnswerMessage
    <3>3. answers \in [Node -> [Message -> Nat]]
      BY DEF AirInv
    <3>4. \A k \in Node, a \in Answer : answers'[k][a] = answers[k][a]
      BY <3>1, <3>2, <3>3 DEF Message
    <3>5. QED
      BY <3>4 DEF NoAnswerToAnswers
  <2>3. ASSUME NEW n \in Node, StoreMessage(n) \/ LeaveMessage(n) \/ Join(n)
        PROVE  NoAnswerToAnswers'
    BY <2>1, <2>3 DEF StoreMessage, LeaveMessage, Join
  <2>4. ASSUME NEW m \in UserMessage, UserSends(m) \/ ClientSends(m) PROVE NoAnswerToAnswers'
    BY <2>1, <2>4 DEF UserSends, ClientSends
  <2>5. ASSUME NEW n \in Node, NEW m \in Message,
               HearAgain(n, m) \/ HearUnread(n, m) \/ HearMessage(n, m)
        PROVE  NoAnswerToAnswers'
    BY <2>1, <2>5 DEF HearAgain, HearUnread, HearMessage
  <2>6. ASSUME NEW n \in Node, NEW a \in Answer, SendAnswer(n, a) PROVE NoAnswerToAnswers'
    BY <2>1, <2>6 DEF SendAnswer
  <2>7. CASE UNCHANGED vars
    BY <2>1, <2>7 DEF vars
  <2>8. QED
    BY <2>2, <2>3, <2>4, <2>5, <2>6, <2>7 DEF Next
<1>3. QED
  BY <1>1, <1>2, InitAir, NextAir, InitMessages, NextMessages, PTL DEF Spec
=============================================================================
