---------------------------- MODULE DirectMessage ----------------------------
(***************************************************************************)
(* A direct message from the node that sends it to the contact that        *)
(* acknowledges it (firmware/chiyocore/src/simple_mesh/mod.rs): the        *)
(* send_with_retry task, the table of awaited acks, the radio network, and *)
(* the receiving handlers text_message, send_ack, ack and returned_path.   *)
(*                                                                         *)
(* The network loses, repeats, delays and reorders packets: a transmitted  *)
(* packet may be received at any later time, by anybody in reach, up to    *)
(* MaxCopies times (a flooded packet arrives over several repeaters), or   *)
(* never.                                                                  *)
(* A receiving handler holds the node's lock (mesh.write) for the whole    *)
(* packet, so it is one step; the retry task only holds mesh.read for the  *)
(* length of a call, so each of its calls is a step.                       *)
(***************************************************************************)
EXTENDS HashLog, FiniteSets

CONSTANTS Send,          \* the messages the node sends, one task each
          Peer,          \* its contacts
          Body,          \* timestamp and text of a message
          DestOf,        \* the contact each message is for
          BodyOf,        \* the body of each message
          FloodAt,       \* attempts before the switch to flood routing (3)
          LastAttempt,   \* the last value of `attempt` (3)
          PacketLogSize, \* capacity of packet_log (32)
          MessageLogSize,\* capacity of message_log (32)
          MaxCopies      \* bound: receptions of one transmission

ASSUME SendAssumption ==
  /\ DestOf \in [Send -> Peer]
  /\ BodyOf \in [Send -> Body]
  /\ LastAttempt \in Nat
  /\ FloodAt \in 1..(LastAttempt + 1)
  /\ PacketLogSize \in Nat \ {0}
  /\ MessageLogSize \in Nat \ {0}
  /\ MaxCopies \in Nat

Route == {"direct", "flood"}

\* Values of `attempt` that are sent: two bits of the message header.
Attempt == 0..LastAttempt

\* Ack::calculate: a digest of timestamp, text, attempt and sender, but not of
\* the contact the message is for.
Crc == Body \X Attempt

\* What a packet's hash covers: header (type and route) and payload.  The
\* payload of a text message and of a returned path is encrypted with the key
\* the node shares with `peer`; an ack carries nothing but its crc.
TextPacket == [type: {"text"}, route: Route, peer: Peer, crc: Crc]
PathPacket == [type: {"path"}, peer: Peer, crc: Crc]
AckPacket == [type: {"ack"}, crc: Crc]
Packet == TextPacket \cup PathPacket \cup AckPacket

VARIABLES pc,        \* where each send_with_retry task is
          attempt,   \* its `attempt`
          hasFlooded,\* its `has_flooded`
          route,     \* the route its `path` gives
          outcome,   \* "none", "acked" or "failed": how the loop ended
          transmitted, \* how many packets the task has sent
          pathKnown, \* contacts whose stored path_to is Some
          net,       \* how often each packet may still be received
          nodeLog,   \* packet_log of the sending node
          peerLog,   \* packet_log of each contact
          messageLog,\* message_log of each contact
          delivered, \* what each contact's layers were given, newest first
          panicked   \* the firmware of the sending node has stopped

sender == <<pc, attempt, hasFlooded, route, outcome, transmitted>>
peers == <<peerLog, messageLog, delivered>>
vars == <<sender, pathKnown, net, nodeLog, peers, panicked>>

-----------------------------------------------------------------------------
CrcOf(s) == <<BodyOf[s], attempt[s]>>

TypeOK ==
  /\ pc \in [Send -> {"idle", "send", "select", "wait", "reset", "done"}]
  /\ attempt \in [Send -> 0..(LastAttempt + 1)]
  /\ hasFlooded \in [Send -> BOOLEAN]
  /\ route \in [Send -> Route]
  /\ outcome \in [Send -> {"none", "acked", "failed"}]
  /\ transmitted \in [Send -> Nat]
  /\ pathKnown \in [Peer -> BOOLEAN]
  /\ net \in [Packet -> Nat]
  /\ nodeLog \in Seq(Packet)
  /\ peerLog \in [Peer -> Seq(TextPacket)]
  /\ messageLog \in [Peer -> Seq(Body)]
  /\ delivered \in [Peer -> Seq(Body)]
  /\ panicked \in BOOLEAN

Init ==
  /\ pc = [s \in Send |-> "idle"]
  /\ attempt = [s \in Send |-> 0]
  /\ hasFlooded = [s \in Send |-> FALSE]
  /\ route = [s \in Send |-> "flood"]
  /\ outcome = [s \in Send |-> "none"]
  /\ transmitted = [s \in Send |-> 0]
  /\ pathKnown \in [Peer -> BOOLEAN]
  /\ net = [k \in Packet |-> 0]
  /\ nodeLog = <<>>
  /\ peerLog = [p \in Peer |-> <<>>]
  /\ messageLog = [p \in Peer |-> <<>>]
  /\ delivered = [p \in Peer |-> <<>>]
  /\ panicked = FALSE

-----------------------------------------------------------------------------
\* send_to_contact_with_retry: the task starts with the path the caller read
\* from the contact.
Start(s) ==
  /\ pc[s] = "idle"
  /\ pc' = [pc EXCEPT ![s] = "send"]
  /\ route' = [route EXCEPT ![s] = IF pathKnown[DestOf[s]] THEN "direct" ELSE "flood"]
  /\ UNCHANGED <<attempt, hasFlooded, outcome, transmitted, pathKnown, net, nodeLog, peers, panicked>>

Text(s) == [type |-> "text", route |-> route[s], peer |-> DestOf[s], crc |-> CrcOf(s)]

\* The radio: transmitting a packet, and receiving one while another is sent.
OnAir(n, packet) == [n EXCEPT ![packet] = @ + MaxCopies]
OffAir(n, packet) == [n EXCEPT ![packet] = @ - 1]

\* send_to_contact: the packet is logged, so that its echo is ignored, and sent.
Transmit(s) ==
  /\ pc[s] = "send"
  /\ pc' = [pc EXCEPT ![s] = "select"]
  /\ net' = OnAir(net, Text(s))
  /\ nodeLog' = Push(nodeLog, Text(s), PacketLogSize)
  /\ transmitted' = [transmitted EXCEPT ![s] = @ + 1]
  /\ UNCHANGED <<attempt, hasFlooded, route, outcome, pathKnown, peers, panicked>>

\* The end of the loop, by `break` or by its condition; `waker.wake()`.
Finish(s, result) == /\ pc' = [pc EXCEPT ![s] = "done"]
                     /\ outcome' = [outcome EXCEPT ![s] = result]

\* The first poll of select(wait_map.wait(crc), timer): the crc is registered,
\* or another task waits for the same one and the map answers
\* Err(Duplicate), which the match takes for an answer.
Await(s) ==
  /\ pc[s] = "select"
  /\ \/ /\ \A u \in Send : ~(pc[u] = "wait" /\ CrcOf(u) = CrcOf(s))
        /\ pc' = [pc EXCEPT ![s] = "wait"]
        /\ UNCHANGED outcome
     \/ /\ \E u \in Send : pc[u] = "wait" /\ CrcOf(u) = CrcOf(s)
        /\ Finish(s, "acked")
  /\ UNCHANGED <<attempt, hasFlooded, route, transmitted, pathKnown, net, nodeLog, peers, panicked>>

\* Faulty variant: `while` without its condition.
TimeoutUnbounded(s) ==
  /\ pc[s] = "wait"
  /\ \/ /\ attempt[s] + 1 >= FloodAt
        /\ ~hasFlooded[s]
        /\ attempt' = [attempt EXCEPT ![s] = 0]
        /\ pc' = [pc EXCEPT ![s] = "reset"]
     \/ /\ attempt[s] + 1 < FloodAt \/ hasFlooded[s]
        /\ attempt' = [attempt EXCEPT ![s] = @ + 1]
        /\ pc' = [pc EXCEPT ![s] = "send"]
  /\ UNCHANGED <<outcome, hasFlooded, route, transmitted, pathKnown, net, nodeLog, peers, panicked>>

\* Faulty variant: the flooded attempts wait for the ack without a timer.
TimeoutOnceOnly(s) ==
  /\ pc[s] = "wait"
  /\ ~hasFlooded[s]
  /\ attempt' = [attempt EXCEPT ![s] = IF @ + 1 >= FloodAt THEN 0 ELSE @ + 1]
  /\ pc' = [pc EXCEPT ![s] = IF attempt[s] + 1 >= FloodAt THEN "reset" ELSE "send"]
  /\ UNCHANGED <<outcome, hasFlooded, route, transmitted, pathKnown, net, nodeLog, peers, panicked>>

\* Faulty variant: gives up without the flood round.
TimeoutNoFlood(s) ==
  /\ pc[s] = "wait"
  /\ attempt' = [attempt EXCEPT ![s] = @ + 1]
  /\ IF attempt[s] + 1 >= FloodAt
       THEN Finish(s, "failed")
       ELSE pc' = [pc EXCEPT ![s] = "send"] /\ UNCHANGED outcome
  /\ UNCHANGED <<hasFlooded, route, transmitted, pathKnown, net, nodeLog, peers, panicked>>

\* The timer fires first.
Timeout(s) ==
  /\ pc[s] = "wait"
  /\ \/ /\ attempt[s] + 1 >= FloodAt
        /\ ~hasFlooded[s]
        /\ attempt' = [attempt EXCEPT ![s] = 0]
        /\ pc' = [pc EXCEPT ![s] = "reset"]
        /\ UNCHANGED outcome
     \/ /\ attempt[s] + 1 < FloodAt \/ hasFlooded[s]
        /\ attempt' = [attempt EXCEPT ![s] = @ + 1]
        /\ \/ /\ attempt[s] + 1 <= LastAttempt
              /\ pc' = [pc EXCEPT ![s] = "send"]
              /\ UNCHANGED outcome
           \/ /\ attempt[s] + 1 > LastAttempt
              /\ Finish(s, "failed")
  /\ UNCHANGED <<hasFlooded, route, transmitted, pathKnown, net, nodeLog, peers, panicked>>

\* The switch to flood routing, under the lock of the contacts: the stored path
\* is forgotten, whoever learned it and when.
ResetPath(s) ==
  /\ pc[s] = "reset"
  /\ pathKnown' = [pathKnown EXCEPT ![DestOf[s]] = FALSE]
  /\ route' = [route EXCEPT ![s] = "flood"]
  /\ hasFlooded' = [hasFlooded EXCEPT ![s] = TRUE]
  /\ pc' = [pc EXCEPT ![s] = "send"]
  /\ UNCHANGED <<attempt, outcome, transmitted, net, nodeLog, peers, panicked>>

\* The task unwraps what sending and rewriting the contact give it: a packet that
\* cannot be made, an error of the flash, a contact that is not there any more.
Unwrap(s) ==
  /\ pc[s] \in {"send", "reset"}
  /\ panicked' = TRUE
  /\ UNCHANGED <<sender, pathKnown, net, nodeLog, peers>>

-----------------------------------------------------------------------------
\* Faulty variant: delivers before it looks for duplicates.
DeliverTwice(p, body) ==
  /\ messageLog' = [messageLog EXCEPT ![p] = Push(@, body, MessageLogSize)]
  /\ delivered' = [delivered EXCEPT ![p] = <<body>> \o @]

\* message_log.push, then the layers if the message is new.
Deliver(p, body) ==
  /\ messageLog' = [messageLog EXCEPT ![p] = Push(@, body, MessageLogSize)]
  /\ delivered' = IF ContainsHash(messageLog[p], body)
                    THEN delivered
                    ELSE [delivered EXCEPT ![p] = <<body>> \o @]

\* send_ack: a flooded message is answered with a flooded returned path that
\* carries the ack, a direct one with a bare ack along the path.
Answer(packet) ==
  IF packet.route = "flood"
    THEN [type |-> "path", peer |-> packet.peer, crc |-> packet.crc]
    ELSE [type |-> "ack", crc |-> packet.crc]

\* A contact hears a text message: MeshcoreHandler::packet drops what its
\* packet_log knows; if the message is for it, text_message acknowledges and
\* then delivers.
ReceiveText(p) ==
  \E packet \in TextPacket :
    /\ net[packet] > 0
    /\ ~ContainsHash(peerLog[p], packet)
    /\ peerLog' = [peerLog EXCEPT ![p] = PushFront(@, packet, PacketLogSize)]
    /\ \/ /\ packet.peer = p
          /\ net' = OnAir(OffAir(net, packet), Answer(packet))
          /\ Deliver(p, packet.crc[1])
       \/ /\ packet.peer # p
          /\ net' = OffAir(net, packet)
          /\ UNCHANGED <<messageLog, delivered>>
    /\ UNCHANGED <<sender, pathKnown, nodeLog, panicked>>

\* Faulty variant: wakes whoever waits.
WakeAny(crc) ==
  LET woken == {s \in Send : pc[s] = "wait" /\ attempt[s] = crc[2]} IN
  /\ pc' = [s \in Send |-> IF s \in woken THEN "done" ELSE pc[s]]
  /\ outcome' = [s \in Send |-> IF s \in woken THEN "acked" ELSE outcome[s]]

\* ack_table.wake(crc): the task that waits for it, if any, is done.
Wake(crc) ==
  LET woken == {s \in Send : pc[s] = "wait" /\ CrcOf(s) = crc} IN
  /\ pc' = [s \in Send |-> IF s \in woken THEN "done" ELSE pc[s]]
  /\ outcome' = [s \in Send |-> IF s \in woken THEN "acked" ELSE outcome[s]]

\* The node receives an ack, bare or inside a returned path; the latter also
\* stores the path it came with.
ReceiveAck ==
  \E packet \in AckPacket \cup PathPacket :
    /\ net[packet] > 0
    /\ net' = OffAir(net, packet)
    /\ ~ContainsHash(nodeLog, packet)
    /\ nodeLog' = PushFront(nodeLog, packet, PacketLogSize)
    /\ pathKnown' = IF packet.type = "path"
                      THEN [pathKnown EXCEPT ![packet.peer] = TRUE]
                      ELSE pathKnown
    /\ Wake(packet.crc)
    /\ UNCHANGED <<attempt, hasFlooded, route, transmitted, peers, panicked>>

\* An advert of a contact rewrites its entry without a path.
ReceiveAdvert(p) ==
  /\ pathKnown[p]
  /\ pathKnown' = [pathKnown EXCEPT ![p] = FALSE]
  /\ UNCHANGED <<sender, net, nodeLog, peers, panicked>>

\* The steps of one task, each of which the executor runs when it can.
Task(s) == Transmit(s) \/ Await(s) \/ Timeout(s) \/ ResetPath(s) \/ Unwrap(s)

\* A panic ends the run: what contacts still hear after it they may as well hear
\* from a node that is slow.
Next == /\ ~panicked
        /\ \/ \E s \in Send : Start(s) \/ Task(s)
           \/ \E p \in Peer : ReceiveText(p) \/ ReceiveAdvert(p)
           \/ ReceiveAck

Spec == Init /\ [][Next]_vars

FairSpec == Spec /\ \A s \in Send : WF_vars(~panicked /\ Task(s))

-----------------------------------------------------------------------------
\* A contact's layers never see a message again before MessageLogSize other
\* messages have come, however often and over whatever route it is retried.
NoEarlyRepeat ==
  \A p \in Peer : \A i, j \in 1..Len(delivered[p]) :
    (i < j /\ delivered[p][i] = delivered[p][j]) => j - i > MessageLogSize

\* A task that gives up has flooded: FloodAt attempts on the route it began
\* with and LastAttempt + 1 flooded ones, never more.
GivesUpAfterFlood ==
  \A s \in Send :
    /\ transmitted[s] <= FloodAt + LastAttempt + 1
    /\ outcome[s] = "failed" => /\ hasFlooded[s]
                                /\ transmitted[s] = FloodAt + LastAttempt + 1

\* Each task comes to an end and wakes its waker, acknowledged or not, unless it
\* stops the firmware.
SendEnds == \A s \in Send : (pc[s] = "send") ~> (pc[s] = "done" \/ panicked)

\* "retrying it if it does not get acknowledged by the peer" (mod.rs:382): a
\* task that stops before its last attempt was acknowledged by its contact,
\* which has therefore got the message.
AckedByPeer ==
  \A s \in Send : outcome[s] = "acked" =>
    \E i \in 1..Len(delivered[DestOf[s]]) : delivered[DestOf[s]][i] = BodyOf[s]

\* The promise of the abstract specification: what ends as acknowledged has
\* reached its contact.
Promise == INSTANCE MessagePromise WITH
  status <- [s \in Send |-> IF pc[s] = "idle" THEN "idle"
                            ELSE IF pc[s] = "done" THEN outcome[s] ELSE "sending"],
  reached <- [p \in Peer |-> {delivered[p][i] : i \in 1..Len(delivered[p])}]

PromiseSpec == Promise!Spec
=============================================================================
