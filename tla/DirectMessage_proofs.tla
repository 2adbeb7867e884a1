------------------------ MODULE DirectMessage_proofs ------------------------
(***************************************************************************)
(* Proofs about DirectMessage for any number of messages, contacts,        *)
(* attempts and copies on the air, and logs of any size.                   *)
(***************************************************************************)
EXTENDS DirectMessage, SequenceLemmas

-----------------------------------------------------------------------------
(***************************************************************************)
(* The attempts of one task.                                               *)
(***************************************************************************)

\* How many packets a task has sent when it begins its round.
Before(s) == IF hasFlooded[s] THEN FloodAt ELSE 0

\* A task that has not flooded is before its FloodAt-th attempt.
AttemptInv(s) ==
  /\ pc[s] \in {"idle", "send", "select", "wait", "reset", "done"}
  /\ attempt[s] \in 0..(LastAttempt + 1) /\ hasFlooded[s] \in BOOLEAN
  /\ transmitted[s] \in Nat
  /\ pc[s] # "done" => attempt[s] <= LastAttempt /\ outcome[s] = "none"
  /\ pc[s] = "idle" => attempt[s] = 0 /\ transmitted[s] = 0 /\ ~hasFlooded[s]
  /\ pc[s] = "send" => transmitted[s] = Before(s) + attempt[s]
  /\ pc[s] \in {"select", "wait"} => transmitted[s] = Before(s) + attempt[s] + 1
  /\ pc[s] \in {"send", "select", "wait"} /\ ~hasFlooded[s] => attempt[s] < FloodAt
  /\ pc[s] = "reset" => attempt[s] = 0 /\ ~hasFlooded[s] /\ transmitted[s] = FloodAt
  /\ pc[s] = "done" =>
       /\ outcome[s] \in {"acked", "failed"}
       /\ transmitted[s] <= FloodAt + LastAttempt + 1
       /\ outcome[s] = "failed" => /\ hasFlooded[s]
                                   /\ transmitted[s] = FloodAt + LastAttempt + 1

RetryInv ==
  /\ pc = [s \in Send |-> pc[s]] /\ attempt = [s \in Send |-> attempt[s]]
  /\ hasFlooded = [s \in Send |-> hasFlooded[s]]
  /\ transmitted = [s \in Send |-> transmitted[s]]
  /\ outcome = [s \in Send |-> outcome[s]]
  /\ \A s \in Send : AttemptInv(s)

LEMMA InitRetry == Init => RetryInv
BY SendAssumption DEF Init, RetryInv, AttemptInv, Before

\* Only the task itself, or the ack it waits for, moves it on.
LEMMA NextRetry == RetryInv /\ [Next]_vars => RetryInv'
<1> SUFFICES ASSUME RetryInv, [Next]_vars PROVE RetryInv'
  OBVIOUS
<1> USE SendAssumption
<1>1. ASSUME UNCHANGED <<pc, attempt, hasFlooded, outcome, transmitted>> PROVE RetryInv'
  BY <1>1 DEF RetryInv, AttemptInv, Before
<1>2. ASSUME NEW s \in Send, Start(s) \/ Task(s) PROVE RetryInv'
  <2>1. ASSUME AttemptInv(s)', \A u \in Send : u # s =>
                 /\ pc'[u] = pc[u] /\ attempt'[u] = attempt[u] /\ outcome'[u] = outcome[u]
                 /\ hasFlooded'[u] = hasFlooded[u] /\ transmitted'[u] = transmitted[u],
               /\ pc' = [u \in Send |-> pc'[u]] /\ attempt' = [u \in Send |-> attempt'[u]]
               /\ hasFlooded' = [u \in Send |-> hasFlooded'[u]]
               /\ transmitted' = [u \in Send |-> transmitted'[u]]
               /\ outcome' = [u \in Send |-> outcome'[u]]
        PROVE  RetryInv'
    <3>1. ASSUME NEW u \in Send PROVE AttemptInv(u)'
      <4>1. CASE u = s
        BY <2>1, <4>1
      <4>2. CASE u # s
        BY <2>1, <4>2 DEF RetryInv, AttemptInv, Before
      <4>3. QED
        BY <4>1, <4>2
    <3>2. QED
      BY <2>1, <3>1 DEF RetryInv
  <2>2. AttemptInv(s) /\ s \in Send
    BY DEF RetryInv
  <2>3. CASE Start(s)
    <3>1. AttemptInv(s)'
      BY <2>2, <2>3 DEF Start, RetryInv, AttemptInv, Before
    <3>2. QED
      BY <2>1, <2>3, <3>1 DEF Start, RetryInv
  <2>4. CASE Transmit(s)
    <3>1. AttemptInv(s)'
      BY <2>2, <2>4 DEF Transmit, RetryInv, AttemptInv, Before
    <3>2. QED
      BY <2>1, <2>4, <3>1 DEF Transmit, RetryInv
  <2>5. CASE Await(s)
    <3>1. AttemptInv(s)'
      BY <2>2, <2>5 DEF Await, Finish, RetryInv, AttemptInv, Before
    <3>2. QED
      BY <2>1, <2>5, <3>1 DEF Await, Finish, RetryInv
  <2>6. CASE Timeout(s)
    <3>1. AttemptInv(s)'
      BY <2>2, <2>6 DEF Timeout, Finish, RetryInv, AttemptInv, Before
    <3>2. QED
      BY <2>1, <2>6, <3>1 DEF Timeout, Finish, RetryInv
  <2>7. CASE ResetPath(s)
    <3>1. AttemptInv(s)'
      BY <2>2, <2>7 DEF ResetPath, RetryInv, AttemptInv, Before
    <3>2. QED
      BY <2>1, <2>7, <3>1 DEF ResetPath, RetryInv
  <2>8. CASE Unwrap(s)
    BY <1>1, <2>8 DEF Unwrap, sender
  <2>9. QED
    BY <1>2, <2>3, <2>4, <2>5, <2>6, <2>7, <2>8 DEF Task
<1>3. ASSUME NEW p \in Peer, ReceiveText(p) \/ ReceiveAdvert(p) PROVE RetryInv'
  BY <1>1, <1>3 DEF ReceiveText, ReceiveAdvert, sender
<1>4. CASE ReceiveAck
  <2>1. UNCHANGED <<attempt, hasFlooded, transmitted>>
    BY <1>4 DEF ReceiveAck
  <2>2. PICK crc : Wake(crc)
    BY <1>4 DEF ReceiveAck
  <2>3. /\ pc' = [s \in Send |-> pc'[s]] /\ outcome' = [s \in Send |-> outcome'[s]]
        /\ \A s \in Send : \/ pc'[s] = pc[s] /\ outcome'[s] = outcome[s]
                           \/ pc[s] = "wait" /\ pc'[s] = "done" /\ outcome'[s] = "acked"
    BY <2>2 DEF Wake
  <2>4. ASSUME NEW s \in Send PROVE AttemptInv(s)'
    BY <2>1, <2>3 DEF RetryInv, AttemptInv, Before
  <2>5. QED
    BY <2>1, <2>3, <2>4 DEF RetryInv
<1>5. CASE UNCHANGED vars
  BY <1>1, <1>5 DEF vars, sender
<1>6. QED
  BY <1>2, <1>3, <1>4, <1>5 DEF Next

\* A task gives up after the stated direct and flooded attempts, and never makes
\* more (mod.rs:382-445).
THEOREM AttemptsAreBounded == Spec => []GivesUpAfterFlood
<1>1. RetryInv => GivesUpAfterFlood
  BY SendAssumption DEF RetryInv, AttemptInv, Before, GivesUpAfterFlood
<1>2. QED
  BY <1>1, InitRetry, NextRetry, PTL DEF Spec

-----------------------------------------------------------------------------
(***************************************************************************)
(* What the contacts are given.                                            *)
(***************************************************************************)

PeerInv ==
  /\ messageLog = [p \in Peer |-> messageLog[p]] /\ delivered = [p \in Peer |-> delivered[p]]
  /\ \A p \in Peer : Window(Body, messageLog[p], delivered[p], MessageLogSize)

LEMMA InitPeer == Init => PeerInv
BY SendAssumption, EmptyWindow DEF Init, PeerInv

\* A message of any body that reaches a contact leaves a window.
LEMMA DeliverKeepsWindow ==
  ASSUME PeerInv, NEW p \in Peer, NEW body \in Body, Deliver(p, body)
  PROVE  PeerInv'
<1>1. Window(Body, messageLog[p], delivered[p], MessageLogSize)
  BY DEF PeerInv
<1>2. /\ messageLog' = [q \in Peer |-> messageLog'[q]]
      /\ \A q \in Peer : messageLog'[q] = IF q = p THEN Push(messageLog[p], body, MessageLogSize)
                                          ELSE messageLog[q]
  BY DEF PeerInv, Deliver
<1>3. CASE ContainsHash(messageLog[p], body)
  <2>1. messageLog'[p] = messageLog[p] /\ delivered' = delivered
    BY <1>2, <1>3 DEF Push, Deliver
  <2>2. QED
    BY <1>2, <2>1 DEF PeerInv
<1>4. CASE ~ContainsHash(messageLog[p], body)
  <2>1. messageLog'[p] = PushFront(messageLog[p], body, MessageLogSize)
    BY <1>2, <1>4 DEF Push
  <2>2. delivered' = [delivered EXCEPT ![p] = <<body>> \o @]
    BY <1>4 DEF Deliver
  <2>3. /\ delivered' = [q \in Peer |-> delivered'[q]]
        /\ \A q \in Peer : delivered'[q] = IF q = p THEN <<body>> \o delivered[p] ELSE delivered[q]
    BY <2>2 DEF PeerInv
  <2>4. Window(Body, PushFront(messageLog[p], body, MessageLogSize), <<body>> \o delivered[p],
               MessageLogSize)
    BY <1>1, <1>4, SendAssumption, PushKeepsWindow
  <2>5. ASSUME NEW q \in Peer PROVE Window(Body, messageLog'[q], delivered'[q], MessageLogSize)
    <3>1. CASE q = p
      BY <2>1, <2>3, <2>4, <3>1
    <3>2. CASE q # p
      BY <1>2, <2>3, <3>2 DEF PeerInv
    <3>3. QED
      BY <3>1, <3>2
  <2>6. QED
    BY <1>2, <2>3, <2>5 DEF PeerInv
<1>5. QED
  BY <1>3, <1>4

LEMMA BodyOfPacket == \A packet \in TextPacket : packet.crc[1] \in Body
BY DEF TextPacket, Crc

LEMMA NextPeer == PeerInv /\ [Next]_vars => PeerInv'
<1> SUFFICES ASSUME PeerInv, [Next]_vars PROVE PeerInv'
  OBVIOUS
<1>1. ASSUME UNCHANGED <<messageLog, delivered>> PROVE PeerInv'
  BY <1>1 DEF PeerInv
<1>2. ASSUME NEW s \in Send, Start(s) \/ Task(s) PROVE PeerInv'
  BY <1>1, <1>2 DEF Start, Task, Transmit, Await, Timeout, ResetPath, Unwrap, peers
<1>3. ASSUME NEW p \in Peer, ReceiveText(p) PROVE PeerInv'
  <2>1. PICK packet \in TextPacket :
          \/ Deliver(p, packet.crc[1])
          \/ UNCHANGED <<messageLog, delivered>>
    BY <1>3 DEF ReceiveText
  <2>2. QED
    BY <1>1, <2>1, BodyOfPacket, DeliverKeepsWindow
<1>4. ASSUME NEW p \in Peer, ReceiveAdvert(p) PROVE PeerInv'
  BY <1>1, <1>4 DEF ReceiveAdvert, peers
<1>5. CASE ReceiveAck
  BY <1>1, <1>5 DEF ReceiveAck, peers
<1>6. CASE UNCHANGED vars
  BY <1>1, <1>6 DEF vars, peers
<1>7. QED
  BY <1>2, <1>3, <1>4, <1>5, <1>6 DEF Next

\* No contact is given a message again before MessageLogSize others, however
\* often and over whatever routes it is sent (mod.rs:549-566).
THEOREM RepeatsAreLate == Spec => []NoEarlyRepeat
<1>1. PeerInv => NoEarlyRepeat
  BY DEF PeerInv, Window, Recent, NoRepeat, NoEarlyRepeat
<1>2. QED
  BY <1>1, InitPeer, NextPeer, PTL DEF Spec

-----------------------------------------------------------------------------
(***************************************************************************)
(* Packets on the air and in the logs.                                     *)
(***************************************************************************)

NetInv ==
  /\ route \in [Send -> Route] /\ pathKnown \in [Peer -> BOOLEAN]
  /\ net \in [Packet -> Nat]
  /\ nodeLog \in Seq(Packet) /\ peerLog \in [Peer -> Seq(TextPacket)]
  /\ panicked \in BOOLEAN

LEMMA InitNet == Init => NetInv
<1> SUFFICES ASSUME Init PROVE NetInv
  OBVIOUS
<1>1. /\ route \in [Send -> Route] /\ pathKnown \in [Peer -> BOOLEAN]
      /\ net \in [Packet -> Nat]
      /\ nodeLog \in Seq(Packet) /\ peerLog \in [Peer -> Seq(TextPacket)]
  BY DEF Init, Route
<1>2. panicked \in BOOLEAN
  BY DEF Init
<1>3. QED
  BY <1>1, <1>2 DEF NetInv

\* A log that a packet is pushed to.
LEMMA PushTypes ==
  ASSUME NEW S, NEW log \in Seq(S), NEW m \in S, NEW c \in Nat \ {0}
  PROVE  PushFront(log, m, c) \in Seq(S) /\ Push(log, m, c) \in Seq(S)
BY PushFrontPlaces DEF Push

\* What a task sends is a packet.
LEMMA TextIsPacket ==
  ASSUME RetryInv, NetInv, NEW s \in Send, pc[s] = "send"
  PROVE  Text(s) \in TextPacket /\ Text(s) \in Packet
<1>1. attempt[s] \in 0..LastAttempt
  BY SendAssumption DEF RetryInv, AttemptInv
<1>2. BodyOf[s] \in Body /\ DestOf[s] \in Peer /\ route[s] \in Route
  BY SendAssumption DEF NetInv
<1>3. CrcOf(s) \in Crc
  BY <1>1, <1>2 DEF CrcOf, Crc, Attempt
<1>4. Text(s) \in TextPacket
  BY <1>2, <1>3 DEF Text, TextPacket
<1>5. QED
  BY <1>4 DEF Packet

\* The radio: one packet's count changes.
LEMMA NetParts ==
  ASSUME NEW n \in [Packet -> Nat], NEW packet \in Packet
  PROVE  /\ OnAir(n, packet) \in [Packet -> Nat]
         /\ n[packet] > 0 => OffAir(n, packet) \in [Packet -> Nat]
         /\ \A k \in Packet : /\ OnAir(n, packet)[k] > 0 => n[k] > 0 \/ k = packet
                              /\ OffAir(n, packet)[k] > 0 => n[k] > 0
BY SendAssumption DEF OnAir, OffAir

LEMMA AnswerIsPacket ==
  \A packet \in TextPacket :
    /\ packet \in Packet /\ Answer(packet) \in Packet
    /\ Answer(packet) \in AckPacket \cup PathPacket /\ Answer(packet).crc = packet.crc
<1>1. ASSUME NEW packet \in TextPacket
      PROVE  /\ Answer(packet) \in AckPacket \cup PathPacket
             /\ Answer(packet).crc = packet.crc
  <2>1. packet.peer \in Peer /\ packet.crc \in Crc
    BY DEF TextPacket
  <2>2. CASE packet.route = "flood"
    <3>1. Answer(packet) = [type |-> "path", peer |-> packet.peer, crc |-> packet.crc]
      BY <2>2 DEF Answer
    <3>2. QED
      BY <2>1, <3>1 DEF PathPacket
  <2>3. CASE packet.route # "flood"
    <3>1. Answer(packet) = [type |-> "ack", crc |-> packet.crc]
      BY <2>3 DEF Answer
    <3>2. QED
      BY <2>1, <3>1 DEF AckPacket
  <2>4. QED
    BY <2>2, <2>3
<1>2. QED
  BY <1>1 DEF Packet

LEMMA NextNet == RetryInv /\ NetInv /\ [Next]_vars => NetInv'
<1> SUFFICES ASSUME RetryInv, NetInv, [Next]_vars PROVE NetInv'
  OBVIOUS
<1>1. ASSUME UNCHANGED <<route, pathKnown, net, nodeLog, peerLog, panicked>> PROVE NetInv'
  BY <1>1 DEF NetInv
<1>2. ASSUME NEW s \in Send, Start(s) \/ Task(s) PROVE NetInv'
  <2>1. CASE Start(s)
    BY <2>1 DEF Start, NetInv, Route, peers
  <2>2. CASE Transmit(s)
    <3>1. Text(s) \in Packet
      BY <2>2, TextIsPacket DEF Transmit
    <3>2. /\ net' = OnAir(net, Text(s)) /\ nodeLog' = Push(nodeLog, Text(s), PacketLogSize)
          /\ UNCHANGED <<route, pathKnown, peerLog, panicked>>
      BY <2>2 DEF Transmit, peers
    <3>3. net' \in [Packet -> Nat]
      BY <3>1, <3>2, NetParts DEF NetInv
    <3>4. nodeLog' \in Seq(Packet)
      BY <3>1, <3>2, PushTypes, SendAssumption DEF NetInv
    <3>5. QED
      BY <3>2, <3>3, <3>4 DEF NetInv
  <2>3. CASE Await(s) \/ Timeout(s)
    BY <1>1, <2>3 DEF Await, Timeout, peers
  <2>4. CASE ResetPath(s)
    BY <2>4 DEF ResetPath, NetInv, Route, peers
  <2>5. CASE Unwrap(s)
    BY <2>5 DEF Unwrap, NetInv, sender, peers
  <2>6. QED
    BY <1>2, <2>1, <2>2, <2>3, <2>4, <2>5 DEF Task
<1>3. ASSUME NEW p \in Peer, ReceiveText(p) PROVE NetInv'
  <2>1. PICK packet \in TextPacket :
          /\ net[packet] > 0
          /\ peerLog' = [peerLog EXCEPT ![p] = PushFront(@, packet, PacketLogSize)]
          /\ \/ net' = OnAir(OffAir(net, packet), Answer(packet))
             \/ net' = OffAir(net, packet)
          /\ UNCHANGED <<sender, pathKnown, nodeLog, panicked>>
    BY <1>3 DEF ReceiveText
  <2>2. packet \in Packet /\ Answer(packet) \in Packet
    BY AnswerIsPacket
  <2>3. OffAir(net, packet) \in [Packet -> Nat]
    BY <2>1, <2>2, NetParts DEF NetInv
  <2>4. net' \in [Packet -> Nat]
    BY <2>1, <2>2, <2>3, NetParts
  <2>5. peerLog' \in [Peer -> Seq(TextPacket)]
    <3>1. PushFront(peerLog[p], packet, PacketLogSize) \in Seq(TextPacket)
      BY PushTypes, SendAssumption DEF NetInv
    <3>2. QED
      BY <2>1, <3>1 DEF NetInv
  <2>6. QED
    BY <2>1, <2>4, <2>5 DEF NetInv, sender
<1>4. ASSUME NEW p \in Peer, ReceiveAdvert(p) PROVE NetInv'
  BY <1>4 DEF ReceiveAdvert, NetInv, sender, peers
<1>5. CASE ReceiveAck
  <2>1. PICK packet \in AckPacket \cup PathPacket :
          /\ net[packet] > 0 /\ net' = OffAir(net, packet)
          /\ nodeLog' = PushFront(nodeLog, packet, PacketLogSize)
          /\ pathKnown' = IF packet.type = "path"
                            THEN [pathKnown EXCEPT ![packet.peer] = TRUE] ELSE pathKnown
          /\ UNCHANGED <<route, peers, panicked>>
    BY <1>5 DEF ReceiveAck
  <2>2. packet \in Packet
    BY DEF Packet
  <2>3. net' \in [Packet -> Nat]
    BY <2>1, <2>2, NetParts DEF NetInv
  <2>4. nodeLog' \in Seq(Packet)
    BY <2>1, <2>2, PushTypes, SendAssumption DEF NetInv
  <2>5. pathKnown' \in [Peer -> BOOLEAN]
    BY <2>1 DEF NetInv
  <2>6. QED
    BY <2>1, <2>3, <2>4, <2>5 DEF NetInv, peers
<1>6. CASE UNCHANGED vars
  BY <1>1, <1>6 DEF vars, sender, peers
<1>7. QED
  BY <1>2, <1>3, <1>4, <1>5, <1>6 DEF Next

\* Every variable of the sending node, the network and the contacts keeps its
\* type; a task's attempt fits the two bits of the header when it is sent.
THEOREM TypeCorrect == Spec => []TypeOK
<1>1. RetryInv /\ PeerInv /\ NetInv => TypeOK
  <2>1. ASSUME RetryInv
        PROVE  /\ pc \in [Send -> {"idle", "send", "select", "wait", "reset", "done"}]
               /\ attempt \in [Send -> 0..(LastAttempt + 1)]
               /\ hasFlooded \in [Send -> BOOLEAN]
               /\ outcome \in [Send -> {"none", "acked", "failed"}]
               /\ transmitted \in [Send -> Nat]
    BY <2>1 DEF RetryInv, AttemptInv
  <2>2. ASSUME PeerInv
        PROVE  messageLog \in [Peer -> Seq(Body)] /\ delivered \in [Peer -> Seq(Body)]
    BY <2>2 DEF PeerInv, Window, Recent
  <2>3. QED
    BY <2>1, <2>2 DEF TypeOK, NetInv
<1>2. QED
  BY <1>1, InitRetry, NextRetry, InitPeer, NextPeer, InitNet, NextNet, PTL DEF Spec

-----------------------------------------------------------------------------
(***************************************************************************)
(* The promise, for messages with different bodies: see AckedByPeer for    *)
(* what equal ones do to it.                                               *)
(***************************************************************************)

Distinct == \A s, u \in Send : BodyOf[s] = BodyOf[u] => s = u

Got(p) == {delivered[p][i] : i \in 1..Len(delivered[p])}

\* Text on the air was sent by a task; an ack on the air answers a message that
\* has reached its contact.
AckInv ==
  /\ \A k \in TextPacket : net[k] > 0 =>
       \E s \in Send : pc[s] # "idle" /\ DestOf[s] = k.peer /\ BodyOf[s] = k.crc[1]
  /\ \A k \in AckPacket \cup PathPacket : net[k] > 0 =>
       \A s \in Send : BodyOf[s] = k.crc[1] => BodyOf[s] \in Got(DestOf[s])

Known == RetryInv /\ PeerInv /\ NetInv

LEMMA InitAck == Init => AckInv
BY DEF Init, AckInv, Packet

\* Text, acks and paths are different packets.
LEMMA PacketKinds ==
  /\ \A k \in TextPacket : k \notin AckPacket \cup PathPacket
  /\ \A k \in AckPacket \cup PathPacket : k \in Packet
  /\ \A k \in TextPacket : k \in Packet
BY DEF TextPacket, AckPacket, PathPacket, Packet

\* What a delivery adds to what a contact has got.
LEMMA DeliveredGot ==
  ASSUME PeerInv, NEW p \in Peer, NEW body \in Body, Deliver(p, body)
  PROVE  /\ Got(p)' = Got(p) \cup {body}
         /\ \A q \in Peer : q # p => delivered'[q] = delivered[q]
<1>1. /\ Window(Body, messageLog[p], delivered[p], MessageLogSize)
      /\ delivered = [q \in Peer |-> delivered[q]]
  BY DEF PeerInv
<1>2. CASE ContainsHash(messageLog[p], body)
  <2>1. delivered' = delivered
    BY <1>2 DEF Deliver
  <2>2. \E i \in 1..Len(delivered[p]) : delivered[p][i] = body
    BY <1>1, <1>2, SendAssumption, ContainedInHistory
  <2>3. QED
    BY <2>1, <2>2 DEF Got
<1>3. CASE ~ContainsHash(messageLog[p], body)
  <2>1. delivered' = [delivered EXCEPT ![p] = <<body>> \o @]
    BY <1>3 DEF Deliver
  <2>2. /\ delivered'[p] = <<body>> \o delivered[p]
        /\ \A q \in Peer : q # p => delivered'[q] = delivered[q]
    BY <1>1, <2>1
  <2>3. delivered[p] \in Seq(Body)
    BY <1>1 DEF Window, Recent
  <2> DEFINE old == delivered[p]
             new == <<body>> \o old
  <2>4. /\ Len(new) = Len(old) + 1 /\ Len(old) \in Nat /\ new[1] = body
        /\ \A i \in 1..Len(old) : new[i + 1] = old[i]
        /\ \A i \in 2..Len(new) : new[i] = old[i - 1]
    BY <2>3
  <2> HIDE DEF new, old
  <2>5. {new[i] : i \in 1..Len(new)} = {old[i] : i \in 1..Len(old)} \cup {body}
    <3>1. ASSUME NEW i \in 1..Len(new)
          PROVE  new[i] \in {old[j] : j \in 1..Len(old)} \cup {body}
      <4>1. CASE i = 1
        BY <2>4, <4>1
      <4>2. CASE i # 1
        <5>1. i \in 2..Len(new) /\ i - 1 \in 1..Len(old)
          BY <2>4, <4>2
        <5>2. QED
          BY <2>4, <5>1
      <4>3. QED
        BY <4>1, <4>2
    <3>2. ASSUME NEW i \in 1..Len(old)
          PROVE  old[i] \in {new[j] : j \in 1..Len(new)}
      <4>1. i + 1 \in 1..Len(new) /\ new[i + 1] = old[i]
        BY <2>4
      <4>2. QED
        BY <4>1
    <3>3. body \in {new[j] : j \in 1..Len(new)}
      BY <2>4
    <3>4. QED
      BY <3>1, <3>2, <3>3
  <2>6. QED
    BY <2>2, <2>5 DEF Got, new, old
<1>4. QED
  BY <1>2, <1>3

\* One contact hears a text message: who sent it, and what the contact gets.
LEMMA TextHeard ==
  ASSUME Known, AckInv, NEW p \in Peer, ReceiveText(p)
  PROVE  /\ UNCHANGED <<pc, outcome>>
         /\ \/ UNCHANGED delivered
            \/ \E s \in Send : /\ pc[s] # "idle" /\ DestOf[s] = p
                               /\ Got(p)' = Got(p) \cup {BodyOf[s]}
                               /\ \A q \in Peer : q # p => delivered'[q] = delivered[q]
<1>1. PICK packet \in TextPacket :
        /\ net[packet] > 0 /\ UNCHANGED sender
        /\ \/ packet.peer = p /\ Deliver(p, packet.crc[1])
           \/ UNCHANGED delivered
  BY DEF ReceiveText
<1>2. PICK s \in Send : pc[s] # "idle" /\ DestOf[s] = packet.peer /\ BodyOf[s] = packet.crc[1]
  BY <1>1 DEF AckInv
<1>3. ASSUME packet.peer = p, Deliver(p, packet.crc[1])
      PROVE  /\ Got(p)' = Got(p) \cup {BodyOf[s]}
             /\ \A q \in Peer : q # p => delivered'[q] = delivered[q]
  BY <1>2, <1>3, BodyOfPacket, DeliveredGot DEF Known
<1>4. QED
  BY <1>1, <1>2, <1>3 DEF sender

LEMMA NextAck == Distinct /\ Known /\ AckInv /\ [Next]_vars => AckInv'
<1> SUFFICES ASSUME Distinct, Known, AckInv, [Next]_vars PROVE AckInv'
  OBVIOUS
<1>1. net \in [Packet -> Nat]
  BY DEF Known, NetInv
<1>2. ASSUME \A k \in Packet : net'[k] > 0 => net[k] > 0,
             \A s \in Send : pc[s] # "idle" => pc'[s] # "idle", UNCHANGED delivered
      PROVE  AckInv'
  BY <1>2, PacketKinds DEF AckInv, Got
<1>3. ASSUME NEW s \in Send, Start(s) \/ Task(s) PROVE AckInv'
  <2>1. \A u \in Send : pc[u] # "idle" => pc'[u] # "idle"
    BY <1>3 DEF Start, Task, Transmit, Await, Timeout, ResetPath, Unwrap, sender, Finish, Known, RetryInv
  <2>2. CASE ~Transmit(s)
    <3>1. UNCHANGED <<net, delivered>>
      BY <1>3, <2>2 DEF Start, Task, Await, Timeout, ResetPath, Unwrap, peers
    <3>2. QED
      BY <1>2, <2>1, <3>1
  <2>3. CASE Transmit(s)
    <3>1. pc[s] = "send" /\ net' = OnAir(net, Text(s)) /\ UNCHANGED delivered
      BY <2>3 DEF Transmit, peers
    <3>2. Text(s) \in TextPacket /\ Text(s) \in Packet
      BY <3>1, TextIsPacket DEF Known
    <3>3. \A k \in Packet : net'[k] > 0 => net[k] > 0 \/ k = Text(s)
      BY <1>1, <3>1, <3>2, NetParts
    <3>4. Text(s).peer = DestOf[s] /\ Text(s).crc[1] = BodyOf[s]
      BY DEF Text, CrcOf
    <3>5. ASSUME NEW k \in TextPacket, net'[k] > 0
          PROVE  \E u \in Send : pc'[u] # "idle" /\ DestOf[u] = k.peer /\ BodyOf[u] = k.crc[1]
      <4>1. CASE k = Text(s)
        BY <2>1, <3>1, <3>4, <4>1
      <4>2. CASE k # Text(s)
        BY <2>1, <3>3, <3>5, <4>2, PacketKinds DEF AckInv
      <4>3. QED
        BY <4>1, <4>2
    <3>6. ASSUME NEW k \in AckPacket \cup PathPacket, net'[k] > 0
          PROVE  \A u \in Send : BodyOf[u] = k.crc[1] => BodyOf[u] \in Got(DestOf[u])'
      <4>1. k # Text(s) /\ k \in Packet
        BY <3>2, PacketKinds
      <4>2. net[k] > 0
        BY <3>3, <3>6, <4>1
      <4>3. QED
        BY <3>1, <4>2 DEF AckInv, Got
    <3>7. QED
      BY <3>5, <3>6 DEF AckInv
  <2>4. QED
    BY <2>2, <2>3
<1>4. ASSUME NEW p \in Peer, ReceiveText(p) PROVE AckInv'
  <2>1. PICK packet \in TextPacket :
          /\ net[packet] > 0 /\ UNCHANGED sender
          /\ \/ /\ packet.peer = p /\ Deliver(p, packet.crc[1])
                /\ net' = OnAir(OffAir(net, packet), Answer(packet))
             \/ /\ net' = OffAir(net, packet) /\ UNCHANGED delivered
    BY <1>4 DEF ReceiveText
  <2>2. /\ packet \in Packet /\ Answer(packet) \in Packet
        /\ Answer(packet) \in AckPacket \cup PathPacket /\ Answer(packet).crc = packet.crc
    BY AnswerIsPacket
  <2>3. /\ OffAir(net, packet) \in [Packet -> Nat]
        /\ \A k \in Packet : OffAir(net, packet)[k] > 0 => net[k] > 0
    BY <1>1, <2>1, <2>2, NetParts
  <2>4. CASE net' = OffAir(net, packet) /\ UNCHANGED delivered
    BY <1>2, <2>1, <2>3, <2>4 DEF sender
  <2>5. CASE /\ packet.peer = p /\ Deliver(p, packet.crc[1])
             /\ net' = OnAir(OffAir(net, packet), Answer(packet))
    <3>1. \A k \in Packet : net'[k] > 0 => net[k] > 0 \/ k = Answer(packet)
      BY <2>2, <2>3, <2>5, NetParts
    <3>2. PICK u \in Send : DestOf[u] = p /\ BodyOf[u] = packet.crc[1]
      BY <2>1, <2>5 DEF AckInv
    <3>3. /\ Got(p)' = Got(p) \cup {BodyOf[u]}
          /\ \A q \in Peer : q # p => delivered'[q] = delivered[q]
      BY <2>5, <3>2, BodyOfPacket, DeliveredGot DEF Known
    <3>4. ASSUME NEW q \in Peer PROVE Got(q) \subseteq Got(q)'
      <4>1. CASE q = p
        BY <3>3, <4>1
      <4>2. CASE q # p
        BY <3>3, <4>2 DEF Got
      <4>3. QED
        BY <4>1, <4>2
    <3>5. ASSUME NEW k \in TextPacket, net'[k] > 0
          PROVE  \E s \in Send : pc'[s] # "idle" /\ DestOf[s] = k.peer /\ BodyOf[s] = k.crc[1]
      <4>1. net[k] > 0
        BY <2>2, <3>1, <3>5, PacketKinds
      <4>2. QED
        BY <2>1, <4>1 DEF AckInv, sender
    <3>6. ASSUME NEW k \in AckPacket \cup PathPacket, net'[k] > 0, NEW s \in Send,
                 BodyOf[s] = k.crc[1]
          PROVE  BodyOf[s] \in Got(DestOf[s])'
      <4>1. DestOf[s] \in Peer
        BY SendAssumption
      <4>2. CASE k = Answer(packet)
        <5>1. s = u
          BY <2>2, <3>2, <3>6, <4>2 DEF Distinct
        <5>2. QED
          BY <3>2, <3>3, <5>1
      <4>3. CASE k # Answer(packet)
        <5>1. net[k] > 0
          BY <3>1, <3>6, <4>3, PacketKinds
        <5>2. BodyOf[s] \in Got(DestOf[s])
          BY <3>6, <5>1 DEF AckInv
        <5>3. QED
          BY <3>4, <4>1, <5>2
      <4>4. QED
        BY <4>2, <4>3
    <3>7. QED
      BY <3>5, <3>6 DEF AckInv
  <2>6. QED
    BY <2>1, <2>4, <2>5
<1>5. ASSUME NEW p \in Peer, ReceiveAdvert(p) PROVE AckInv'
  BY <1>2, <1>5 DEF ReceiveAdvert, sender, peers
<1>6. CASE ReceiveAck
  <2>1. PICK packet \in AckPacket \cup PathPacket :
          /\ net[packet] > 0 /\ net' = OffAir(net, packet)
          /\ Wake(packet.crc) /\ UNCHANGED peers
    BY <1>6 DEF ReceiveAck
  <2>2. packet \in Packet
    BY PacketKinds
  <2>3. \A k \in Packet : net'[k] > 0 => net[k] > 0
    BY <1>1, <2>1, <2>2, NetParts
  <2>4. \A s \in Send : pc[s] # "idle" => pc'[s] # "idle"
    BY <2>1 DEF Wake
  <2>5. QED
    BY <1>2, <2>1, <2>3, <2>4 DEF peers
<1>7. CASE UNCHANGED vars
  BY <1>2, <1>7 DEF vars, sender, peers
<1>8. QED
  BY <1>3, <1>4, <1>5, <1>6, <1>7 DEF Next

-----------------------------------------------------------------------------
\* What a task reports and what a contact has got, as the promise speaks of them.
Status == [s \in Send |-> IF pc[s] = "idle" THEN "idle"
                          ELSE IF pc[s] = "done" THEN outcome[s] ELSE "sending"]
Reached == [p \in Peer |-> Got(p)]

\* Each task does what the promise allows.
LEMMA TaskKeepsPromise ==
  ASSUME Distinct, Known, NEW s \in Send, Start(s) \/ Task(s)
  PROVE  [Promise!Next]_(Promise!vars)
<1>1. /\ pc \in [Send -> {"idle", "send", "select", "wait", "reset", "done"}]
      /\ outcome \in [Send -> {"none", "acked", "failed"}]
  BY DEF Known, RetryInv, AttemptInv
<1> USE <1>1
<1>2. UNCHANGED delivered
  BY DEF Start, Task, Transmit, Await, Timeout, ResetPath, Unwrap, peers
<1>3. CASE Start(s)
  <2>1. Promise!Begin(s)
    BY <1>2, <1>3 DEF Start, Promise!Begin
  <2>2. QED
    BY <2>1 DEF Promise!Next
<1>4. CASE Timeout(s) /\ Finish(s, "failed")
  <2>1. /\ pc[s] = "wait"
        /\ pc' = [pc EXCEPT ![s] = "done"]
        /\ outcome' = [outcome EXCEPT ![s] = "failed"]
    BY <1>4 DEF Timeout, Finish
  <2>2. Promise!GiveUp(s)
    BY <1>2, <2>1 DEF Promise!GiveUp
  <2>3. QED
    BY <2>2 DEF Promise!Next
<1>5. CASE Await(s)
  <2>1. \A u \in Send : ~(pc[u] = "wait" /\ CrcOf(u) = CrcOf(s))
    <3>1. ASSUME NEW u \in Send, pc[u] = "wait", CrcOf(u) = CrcOf(s) PROVE FALSE
      <4>1. u = s
        BY <3>1 DEF CrcOf, Distinct
      <4>2. QED
        BY <1>5, <3>1, <4>1 DEF Await
    <3>2. QED
      BY <3>1
  <2>2. pc[s] = "select" /\ pc' = [pc EXCEPT ![s] = "wait"] /\ UNCHANGED outcome
    BY <1>5, <2>1 DEF Await
  <2>3. UNCHANGED Promise!vars
    BY <1>2, <2>2 DEF Promise!vars
  <2>4. QED
    BY <2>3
<1>6. CASE Transmit(s) \/ ResetPath(s) \/ (Timeout(s) /\ ~Finish(s, "failed"))
  <2>1. /\ pc[s] \in {"send", "reset", "wait"}
        /\ \E at \in {"select", "send", "reset"} : pc' = [pc EXCEPT ![s] = at]
        /\ UNCHANGED outcome
    BY <1>6 DEF Transmit, ResetPath, Timeout
  <2>2. UNCHANGED Promise!vars
    BY <1>2, <2>1 DEF Promise!vars
  <2>3. QED
    BY <2>2
<1>7. CASE Unwrap(s)
  <2>1. UNCHANGED <<pc, outcome>>
    BY <1>7 DEF Unwrap, sender
  <2>2. QED
    BY <1>2, <2>1 DEF Promise!vars
<1>8. QED
  BY <1>3, <1>4, <1>5, <1>6, <1>7 DEF Task

LEMMA AckKeepsPromise ==
  ASSUME Distinct, Known, AckInv, ReceiveAck
  PROVE  [Promise!Next]_(Promise!vars)
<1>1. PICK packet \in AckPacket \cup PathPacket :
        net[packet] > 0 /\ Wake(packet.crc) /\ UNCHANGED peers
  BY DEF ReceiveAck
<1>2. /\ pc \in [Send -> {"idle", "send", "select", "wait", "reset", "done"}]
      /\ outcome \in [Send -> {"none", "acked", "failed"}]
  BY DEF Known, RetryInv, AttemptInv
<1>3. UNCHANGED delivered
  BY <1>1 DEF peers
<1>4. CASE \E s \in Send : pc[s] = "wait" /\ CrcOf(s) = packet.crc
  <2>1. PICK s \in Send : pc[s] = "wait" /\ CrcOf(s) = packet.crc
    BY <1>4
  <2>2. \A u \in Send : CrcOf(u) = packet.crc => u = s
    BY <2>1 DEF CrcOf, Distinct
  <2>3. /\ pc' = [pc EXCEPT ![s] = "done"]
        /\ outcome' = [outcome EXCEPT ![s] = "acked"]
    BY <1>1, <1>2, <2>1, <2>2 DEF Wake
  <2>4. BodyOf[s] = packet.crc[1]
    BY <2>1 DEF CrcOf
  <2>5. BodyOf[s] \in Got(DestOf[s])
    BY <1>1, <2>4 DEF AckInv
  <2>6. DestOf[s] \in Peer
    BY SendAssumption
  <2>7. Promise!Acknowledge(s)
    BY <1>2, <1>3, <2>1, <2>3, <2>5, <2>6 DEF Promise!Acknowledge, Got
  <2>8. QED
    BY <2>7 DEF Promise!Next
<1>5. CASE \A s \in Send : ~(pc[s] = "wait" /\ CrcOf(s) = packet.crc)
  <2>1. UNCHANGED <<pc, outcome>>
    BY <1>1, <1>2, <1>5 DEF Wake
  <2>2. QED
    BY <1>3, <2>1 DEF Promise!vars
<1>6. QED
  BY <1>4, <1>5

LEMMA TextKeepsPromise ==
  ASSUME Known, AckInv, NEW p \in Peer, ReceiveText(p)
  PROVE  [Promise!Next]_(Promise!vars)
<1>1. UNCHANGED <<pc, outcome>>
  BY TextHeard
<1>2. CASE UNCHANGED delivered
  BY <1>1, <1>2 DEF Promise!vars
<1>3. CASE \E s \in Send : /\ pc[s] # "idle" /\ DestOf[s] = p
                           /\ Got(p)' = Got(p) \cup {BodyOf[s]}
                           /\ \A q \in Peer : q # p => delivered'[q] = delivered[q]
  <2>1. PICK s \in Send : /\ pc[s] # "idle" /\ DestOf[s] = p
                         /\ Got(p)' = Got(p) \cup {BodyOf[s]}
                         /\ \A q \in Peer : q # p => delivered'[q] = delivered[q]
    BY <1>3
  <2>2. Reached' = [Reached EXCEPT ![p] = @ \cup {BodyOf[s]}]
    <3>1. \A q \in Peer : Got(q)' = IF q = p THEN Got(p) \cup {BodyOf[s]} ELSE Got(q)
      <4>1. ASSUME NEW q \in Peer, q # p PROVE Got(q)' = Got(q)
        BY <2>1, <4>1 DEF Got
      <4>2. QED
        BY <2>1, <4>1
    <3>2. QED
      BY <3>1 DEF Reached
  <2>3. Status[s] # "idle" /\ UNCHANGED Status
    BY <1>1, <2>1 DEF Status, Known, RetryInv, AttemptInv
  <2>4. Promise!Reach(s)
    BY <2>1, <2>2, <2>3 DEF Promise!Reach, Reached, Status, Got
  <2>5. QED
    BY <2>4 DEF Promise!Next
<1>4. QED
  BY <1>2, <1>3, TextHeard

\* Messages with different bodies are sent as MessagePromise says, for any
\* number of tasks, contacts and copies: a task ends as acknowledged only when
\* its contact has got the message.
THEOREM KeepsPromise == ASSUME Distinct PROVE Spec => PromiseSpec
<1>1. Init => Promise!Init
  BY DEF Init, Promise!Init
<1>2. Distinct /\ Known /\ AckInv /\ [Next]_vars => [Promise!Next]_(Promise!vars)
  <2> SUFFICES ASSUME Distinct, Known, AckInv, [Next]_vars
               PROVE  [Promise!Next]_(Promise!vars)
    OBVIOUS
  <2>1. ASSUME NEW s \in Send, Start(s) \/ Task(s)
        PROVE  [Promise!Next]_(Promise!vars)
    BY <2>1, TaskKeepsPromise
  <2>2. ASSUME NEW p \in Peer, ReceiveText(p)
        PROVE  [Promise!Next]_(Promise!vars)
    BY <2>2, TextKeepsPromise
  <2>3. CASE ReceiveAck
    BY <2>3, AckKeepsPromise
  <2>4. CASE (\E p \in Peer : ReceiveAdvert(p)) \/ UNCHANGED vars
    <3>1. UNCHANGED <<pc, outcome, delivered>>
      BY <2>4 DEF ReceiveAdvert, vars, sender, peers
    <3>2. QED
      BY <3>1 DEF Promise!vars
  <2>5. QED
    BY <2>1, <2>2, <2>3, <2>4 DEF Next
<1>3. Init => Known /\ AckInv
  BY InitRetry, InitPeer, InitNet, InitAck DEF Known
<1>4. Known /\ [Next]_vars => Known'
  BY NextRetry, NextPeer, NextNet DEF Known
<1>5. QED
  BY <1>1, <1>2, <1>3, <1>4, NextAck, PTL DEF Spec, PromiseSpec, Promise!Spec
=============================================================================
