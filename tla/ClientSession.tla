--------------------------- MODULE ClientSession ---------------------------
(***************************************************************************)
(* The connection of a client to a companion                               *)
(* (companion/src/companion_protocol/tcp.rs, protocol.rs): the bytes that  *)
(* TCP delivers in pieces of its choice, the frames the task cuts out of   *)
(* each piece, one command after the other, and the signature in progress, *)
(* which outlives connections (companionv2/companion_proto_handler.rs).    *)
(*                                                                         *)
(* A frame is three cells: the start byte, the length, and the data.  The  *)
(* task never looks at a piece together with the next one, and stops the   *)
(* firmware when a piece ends inside a frame; so every piece it goes on    *)
(* with begins where a frame does.                                         *)
(***************************************************************************)
EXTENDS Naturals, SequencesExt

CONSTANTS Data,       \* what clients have signed
          Unsigned,   \* no signature is in progress (not a sequence)
          ReadSize,   \* cells that a read takes at most (256 bytes)
          MaxCommands,\* bound: commands of one connection
          MaxConnect  \* bound: connections

\* Commands: `query` stands for all that are answered from the node's state,
\* `refused` for the settings of the radio, which are not changeable, `silent`
\* for SetFloodScope and what does not decode, `unfinished` for `todo!()`.
Command == [kind : {"query", "refused", "silent", "unfinished", "start", "finish"}]
           \cup [kind : {"data"}, data : Data]

Part == 1..3
Cell == [command : Command, part : Part]
Frame(c) == [i \in Part |-> [command |-> c, part |-> i]]

\* An answer: to which command, if it was OK, and what a signature is over.
Answer == [to : Command, ok : BOOLEAN, over : Seq(Data)]

ASSUME SessionAssumption ==
  /\ Unsigned \notin Seq(Data)
  /\ ReadSize \in Nat \ {0} /\ MaxCommands \in Nat /\ MaxConnect \in Nat

VARIABLES serving,  \* the task is in the loop of a connection
          present,  \* the client is still there
          wire,     \* cells that the client has written and nobody has read
          recvd,    \* what is left of the piece that was read
          signing,  \* signature_in_progress: what it has absorbed
          panicked,
          asked,    \* the commands of this connection
          handled,  \* those that the companion has handled
          answered, \* the answers to them
          connects  \* counter for the bound

link == <<serving, present, connects>>
vars == <<link, wire, recvd, signing, panicked, asked, handled, answered>>

TypeOK ==
  /\ serving \in BOOLEAN /\ present \in BOOLEAN /\ panicked \in BOOLEAN
  /\ present => serving
  /\ wire \in Seq(Cell) /\ recvd \in Seq(Cell) /\ Len(recvd) <= ReadSize
  /\ recvd # <<>> => recvd[1].part = 1
  /\ signing = Unsigned \/ signing \in Seq(Data)
  /\ asked \in Seq(Command) /\ handled \in Seq(Command) /\ answered \in Seq(Answer)
  /\ connects \in 0..MaxConnect

Init ==
  /\ serving = FALSE /\ present = FALSE /\ panicked = FALSE
  /\ wire = <<>> /\ recvd = <<>>
  /\ signing = Unsigned
  /\ asked = <<>> /\ handled = <<>> /\ answered = <<>>
  /\ connects = 0

-----------------------------------------------------------------------------
\* tcp.accept.
Connect ==
  /\ ~serving /\ ~panicked
  /\ connects < MaxConnect /\ connects' = connects + 1
  /\ serving' = TRUE /\ present' = TRUE
  /\ asked' = <<>> /\ handled' = <<>> /\ answered' = <<>>
  /\ UNCHANGED <<wire, recvd, signing, panicked>>

ClientWrites(c) ==
  /\ present
  /\ Len(asked) < MaxCommands
  /\ asked' = Append(asked, c)
  /\ wire' = wire \o Frame(c)
  /\ UNCHANGED <<link, recvd, signing, panicked, handled, answered>>

\* The client closes the connection, and what it wrote may still be read, or
\* the connection breaks.
ClientLeaves ==
  /\ present /\ present' = FALSE
  /\ wire' \in {wire, <<>>}
  /\ UNCHANGED <<serving, connects, recvd, signing, panicked, asked, handled, answered>>

\* wait_closed, or a read of no bytes; then close and abort.
Reset ==
  /\ serving /\ ~present /\ ~panicked /\ recvd = <<>>
  /\ serving' = FALSE
  /\ wire' = <<>>
  /\ UNCHANGED <<present, connects, recvd, signing, panicked, asked, handled, answered>>

\* Faulty variant: a piece that fits the buffer exactly is followed by another.
ReadPastEnd ==
  /\ serving /\ ~panicked /\ recvd = <<>> /\ wire # <<>>
  /\ \E n \in 1..Len(wire) :
       /\ n <= ReadSize + 1
       /\ recvd' = SubSeq(wire, 1, n)
       /\ wire' = SubSeq(wire, n + 1, Len(wire))
  /\ UNCHANGED <<link, signing, panicked, asked, handled, answered>>

\* tcp.read: some of what has arrived, as much as fits.
Read ==
  /\ serving /\ ~panicked /\ recvd = <<>> /\ wire # <<>>
  /\ \E n \in 1..Len(wire) :
       /\ n <= ReadSize
       /\ recvd' = SubSeq(wire, 1, n)
       /\ wire' = SubSeq(wire, n + 1, Len(wire))
  /\ UNCHANGED <<link, signing, panicked, asked, handled, answered>>

\* `unwrap` of the read: the connection is broken and nothing is left to read.
BrokenRead ==
  /\ serving /\ ~present /\ ~panicked /\ recvd = <<>> /\ wire = <<>>
  /\ panicked' = TRUE
  /\ UNCHANGED <<link, wire, recvd, signing, asked, handled, answered>>

WholeFrame == Len(recvd) >= 3
NextCommand == recvd[1].command

\* `unwrap` of the length or of the data, which are in the next piece.
FrameCut ==
  /\ ~panicked /\ recvd # <<>> /\ ~WholeFrame
  /\ panicked' = TRUE
  /\ UNCHANGED <<link, wire, recvd, signing, asked, handled, answered>>

\* Faulty variant: one frame for each read.
RestDropped == recvd' = <<>> /\ UNCHANGED <<serving, wire>>

\* Flush, and on to the piece behind the frame; without the client flush may
\* fail, and the rest is dropped with the connection.
Rest ==
  \/ recvd' = SubSeq(recvd, 4, Len(recvd)) /\ UNCHANGED <<serving, wire>>
  \/ ~present /\ serving' = FALSE /\ recvd' = <<>> /\ wire' = <<>>

\* The command at hand is c, of one of these kinds: it is handled.
Take(c, kinds) ==
  /\ ~panicked /\ WholeFrame
  /\ c = NextCommand /\ c.kind \in kinds
  /\ handled' = Append(handled, c)
  /\ Rest
  /\ UNCHANGED <<present, connects, panicked, asked>>

Reply(c, ok, over) == answered' = Append(answered, [to |-> c, ok |-> ok, over |-> over])

Query(c) == Take(c, {"query"}) /\ Reply(c, TRUE, <<>>) /\ UNCHANGED signing

\* set_radio_params, set_tx_power.
Refused(c) == Take(c, {"refused"}) /\ Reply(c, FALSE, <<>>) /\ UNCHANGED signing

\* Faulty variant: the frame stays where it is.
SilentStays(c) ==
  /\ ~panicked /\ WholeFrame /\ c = NextCommand /\ c.kind = "silent"
  /\ UNCHANGED vars

\* No answer at all.
Silent(c) == Take(c, {"silent"}) /\ UNCHANGED <<signing, answered>>

\* `todo!()`.
Unfinished(c) ==
  /\ ~panicked /\ WholeFrame /\ c = NextCommand /\ c.kind = "unfinished"
  /\ panicked' = TRUE
  /\ UNCHANGED <<link, wire, recvd, signing, asked, handled, answered>>

\* Faulty variant: a signature in progress is continued.
SignStartOnce(c) ==
  /\ Take(c, {"start"})
  /\ signing' = IF signing = Unsigned THEN <<>> ELSE signing
  /\ Reply(c, TRUE, <<>>)

\* sign_start: a signature in progress is forgotten.
SignStart(c) == Take(c, {"start"}) /\ signing' = <<>> /\ Reply(c, TRUE, <<>>)

SignData(c) ==
  /\ Take(c, {"data"})
  /\ \/ signing # Unsigned /\ signing' = Append(signing, c.data) /\ Reply(c, TRUE, <<>>)
     \/ signing = Unsigned /\ UNCHANGED signing /\ Reply(c, FALSE, <<>>)

SignFinish(c) ==
  /\ Take(c, {"finish"})
  /\ \/ signing # Unsigned /\ signing' = Unsigned /\ Reply(c, TRUE, signing)
     \/ signing = Unsigned /\ UNCHANGED signing /\ Reply(c, FALSE, <<>>)

\* parse_packet.
Handle(c) == \/ Query(c) \/ Refused(c) \/ Silent(c) \/ Unfinished(c)
             \/ SignStart(c) \/ SignData(c) \/ SignFinish(c)

Serve == Reset \/ Read \/ BrokenRead \/ FrameCut \/ \E c \in Command : Handle(c)

Next == Connect \/ ClientLeaves \/ Serve \/ \E c \in Command : ClientWrites(c)

\* The task is polled while it can go on.
Spec == Init /\ [][Next]_vars /\ WF_vars(Serve)

-----------------------------------------------------------------------------
\* The members of S in a sequence.
Among(s, S) ==
  LET f[i \in 0..Len(s)] ==
        IF i = 0 THEN <<>> ELSE IF s[i] \in S THEN Append(f[i - 1], s[i]) ELSE f[i - 1]
  IN f[Len(s)]

Loud == {c \in Command : c.kind # "silent"}
DataCommand == {c \in Command : c.kind = "data"}

\* Cells that are the frames of these commands, one behind the other.
AreFrames(cells, commands) ==
  /\ Len(cells) = 3 * Len(commands)
  /\ \A k \in 1..Len(commands), p \in Part : cells[3 * (k - 1) + p] = Frame(commands[k])[p]

CommandsOf(answers) == [i \in 1..Len(answers) |-> answers[i].to]

\* What is to be signed in the commands that were answered.
DataIn(answers) ==
  LET sent == Among(CommandsOf(answers), DataCommand)
  IN [i \in 1..Len(sent) |-> sent[i].data]

\* However TCP cuts and joins the frames, the companion handles each command of
\* a connection once and in order, and answers it before the next, unless the
\* connection is lost or the firmware has stopped (tcp.rs:76-104).
EveryCommandOnce ==
  /\ IsPrefix(handled, asked)
  /\ present => AreFrames(recvd \o wire, SubSeq(asked, Len(handled) + 1, Len(asked)))
  /\ CommandsOf(answered) = Among(handled, Loud)

\* The signature that was started by answer s is still in progress at answer i.
Signing(s, i) == /\ answered[s].to.kind = "start"
                 /\ \A j \in (s + 1)..(i - 1) : answered[j].to.kind \notin {"start", "finish"}

\* A signature that was started in this connection is over the data sent since
\* then and nothing else, whatever earlier connections have left behind
\* (companion_proto_handler.rs:327-354).
SessionSigns ==
  \A i \in 1..Len(answered) :
    (answered[i].to.kind = "finish" /\ answered[i].ok) =>
      \A s \in 1..(i - 1) :
        Signing(s, i) => answered[i].over = DataIn(SubSeq(answered, s + 1, i - 1))

\* What has arrived is dealt with unless the connection or the firmware ends.
ServedOrGone == (recvd # <<>> \/ wire # <<>>) ~> (recvd = <<>> /\ wire = <<>>) \/ panicked
=============================================================================
