------------------------------ MODULE Companion ------------------------------
(***************************************************************************)
(* What reaches a client (companion/src/companionv2 and                    *)
(* companion_protocol/tcp.rs, chiyocore/src/simple_mesh/storage/           *)
(* message_log.rs): the text messages that a node's layers are given, the  *)
(* notifications for the connected client, the message log on flash, which *)
(* the companions of all nodes share, and the login to a repeater.         *)
(*                                                                         *)
(* A companion's mutex is held for the whole of a layer callback and of a  *)
(* client command, the log's mutex for one push or pop.                    *)
(***************************************************************************)
EXTENDS HashLog, FiniteSets

CONSTANTS Node,           \* mesh nodes, each with a companion and a client
          Message,        \* contents of SavedMessage
          Repeater,       \* contacts a client logs in to
          NoMessage, NoRepeater, NoNode,
          NotifyCapacity, \* slots of the channel to the TCP task (16)
          NodeLogSize,    \* capacity of SimpleMesh::message_log (32)
          LatestSize,     \* capacity of MessageLog::latest (16)
          LogCapacity,    \* messages the flash log holds
          MaxReceived,    \* bound: messages and responses off the air
          MaxLogins,      \* bound: login commands
          MaxCrash        \* bound: reboots

ASSUME CompanionAssumption ==
  /\ NoMessage \notin Message /\ NoRepeater \notin Repeater /\ NoNode \notin Node
  /\ NotifyCapacity \in Nat \ {0} /\ NodeLogSize \in Nat \ {0}
  /\ LatestSize \in Nat \ {0} /\ LogCapacity \in Nat \ {0}
  /\ MaxReceived \in Nat /\ MaxLogins \in Nat /\ MaxCrash \in Nat

Notification == [kind : {"message"}, of : Message] \cup [kind : {"login"}, of : Repeater]
                \cup [kind : {"response", "radio"}]

VARIABLES nodeLog,  \* SimpleMesh::message_log of each node
          handling, \* the message each companion is about to store
          notify,   \* the channel from each companion to its TCP task
          storing,  \* the companion that holds the message log and writes flash
          latest,   \* MessageLog::latest
          stored,   \* the queue on flash
          client,   \* what each client connection is doing
          reply,    \* the answer to SyncNextMessage
          login,    \* login_in_progress
          given,    \* ghost: messages each node's layers were given since boot
          addressed,\* ghost: the same since ever
          written,  \* ghost: messages written to flash since boot, in order
          fetched,  \* ghost: messages each client has got from the log
          logins, successes, \* ghost: login commands, successes reported
          received, crashes  \* counters for the bounds

sessions == <<client, reply, fetched>>
log == <<storing, latest, stored, written>>
access == <<login, logins, successes>>
vars == <<nodeLog, handling, notify, log, sessions, access, given, addressed, received, crashes>>

ElementsOf(s) == {s[i] : i \in 1..Len(s)}

TypeOK ==
  /\ nodeLog \in [Node -> Seq(Message)]
  /\ handling \in [Node -> Message \cup {NoMessage}]
  /\ notify \in [Node -> Seq(Notification)]
  /\ \A n \in Node : Len(notify[n]) <= NotifyCapacity
  /\ storing \in Node \cup {NoNode}
  /\ storing # NoNode => handling[storing] # NoMessage
  /\ latest \in Seq(Message) /\ Len(latest) <= LatestSize
  /\ stored \in Seq(Message) /\ Len(stored) <= LogCapacity
  /\ client \in [Node -> {"offline", "idle", "pop", "reply"}]
  /\ reply \in [Node -> Message \cup {NoMessage}]
  /\ login \in [Node -> Repeater \cup {NoRepeater}]
  /\ given \in [Node -> SUBSET Message] /\ addressed \in [Node -> SUBSET Message]
  /\ written \in Seq(Message)
  /\ fetched \in [Node -> SUBSET Message]
  /\ logins \in [Node -> 0..MaxLogins] /\ successes \in [Node -> Nat]
  /\ received \in 0..MaxReceived /\ crashes \in 0..MaxCrash

Init == /\ nodeLog = [n \in Node |-> <<>>]
        /\ handling = [n \in Node |-> NoMessage]
        /\ notify = [n \in Node |-> <<>>]
        /\ storing = NoNode /\ latest = <<>>
        /\ client = [n \in Node |-> "offline"]
        /\ reply = [n \in Node |-> NoMessage]
        /\ login = [n \in Node |-> NoRepeater]
        /\ stored = <<>>
        /\ given = [n \in Node |-> {}] /\ addressed = [n \in Node |-> {}]
        /\ written = <<>>
        /\ fetched = [n \in Node |-> {}]
        /\ logins = [n \in Node |-> 0] /\ successes = [n \in Node |-> 0]
        /\ received = 0 /\ crashes = 0

-----------------------------------------------------------------------------
\* A layer callback holds the companion from its start to its end.
CompanionFree(n) == handling[n] = NoMessage /\ client[n] \notin {"pop", "reply"}

\* Faulty variant: the channel grows.
NotifyAlways(n, what) == notify' = [notify EXCEPT ![n] = Append(@, what)]

\* ChannelCompanionSink::write_packet: what finds no slot is dropped.
Notify(n, what) ==
  notify' = IF Len(notify[n]) < NotifyCapacity
              THEN [notify EXCEPT ![n] = Append(@, what)]
              ELSE notify

FromAir == received < MaxReceived /\ received' = received + 1

\* Companion::packet, ack, trace_packet and control_packet: whatever else a node
\* hears takes a slot of the same channel.  Only the channel bounds these.
Overhear(n) ==
  /\ CompanionFree(n)
  /\ Notify(n, [kind |-> "radio"])
  /\ UNCHANGED <<nodeLog, handling, log, sessions, access, given, addressed, received, crashes>>

\* SimpleMesh::text_message and group_text: what the node's own message log does
\* not know goes to the companion, which notifies its client first.
Receive(n, m) ==
  /\ FromAir
  /\ CompanionFree(n)
  /\ nodeLog' = [nodeLog EXCEPT ![n] = Push(@, m, NodeLogSize)]
  /\ \/ /\ ContainsHash(nodeLog[n], m)
        /\ UNCHANGED <<handling, notify, given, addressed>>
     \/ /\ ~ContainsHash(nodeLog[n], m)
        /\ Notify(n, [kind |-> "message", of |-> m])
        /\ handling' = [handling EXCEPT ![n] = m]
        /\ given' = [given EXCEPT ![n] = @ \cup {m}]
        /\ addressed' = [addressed EXCEPT ![n] = @ \cup {m}]
  /\ UNCHANGED <<log, sessions, access, crashes>>

\* Faulty variant: only the node's own log keeps messages from coming twice.
RememberAll(n) ==
  /\ handling[n] # NoMessage
  /\ storing = NoNode
  /\ latest' = PushFront(latest, handling[n], LatestSize)
  /\ storing' = n
  /\ UNCHANGED <<nodeLog, handling, notify, stored, written, sessions, access, given, addressed, received, crashes>>

\* MessageLog::push, first part: a message that any companion has stored lately
\* is not stored again.
Remember(n) ==
  /\ handling[n] # NoMessage
  /\ storing = NoNode
  /\ \/ /\ ContainsHash(latest, handling[n])
        /\ handling' = [handling EXCEPT ![n] = NoMessage]
        /\ UNCHANGED <<storing, latest>>
     \/ /\ ~ContainsHash(latest, handling[n])
        /\ latest' = PushFront(latest, handling[n], LatestSize)
        /\ storing' = n
        /\ UNCHANGED handling
  /\ UNCHANGED <<nodeLog, notify, stored, written, sessions, access, given, addressed, received, crashes>>

\* Faulty variant: the queue on flash refuses what is new when it is full.
WriteUnlessFull(n) ==
  /\ storing = n
  /\ LET room == Len(stored) < LogCapacity IN
       /\ stored' = IF room THEN Append(stored, handling[n]) ELSE stored
       /\ written' = IF room THEN Append(written, handling[n]) ELSE written
  /\ storing' = NoNode
  /\ handling' = [handling EXCEPT ![n] = NoMessage]
  /\ UNCHANGED <<nodeLog, notify, latest, sessions, access, given, addressed, received, crashes>>

\* MessageLog::push, second part.  A full queue first gives up a page of its
\* oldest messages (`allow_overwrite_old_data`), however many those are.
Write(n) ==
  /\ storing = n
  /\ LET m == handling[n]  full == Len(stored) = LogCapacity IN
       /\ \E k \in IF full THEN 1..Len(stored) ELSE {0} :
            stored' = Append(SubSeq(stored, k + 1, Len(stored)), m)
       /\ written' = Append(written, m)
  /\ storing' = NoNode
  /\ handling' = [handling EXCEPT ![n] = NoMessage]
  /\ UNCHANGED <<nodeLog, notify, latest, sessions, access, given, addressed, received, crashes>>

\* Faulty variant: the login in progress is looked at and not taken.
ResponseKeepsLogin(n, r) ==
  /\ FromAir
  /\ CompanionFree(n)
  /\ IF login[n] = r
       THEN /\ Notify(n, [kind |-> "login", of |-> r])
            /\ successes' = [successes EXCEPT ![n] = @ + 1]
       ELSE Notify(n, [kind |-> "response"]) /\ UNCHANGED successes
  /\ UNCHANGED <<nodeLog, handling, log, sessions, login, logins, given, addressed, crashes>>

\* Companion::response: a response of the contact a login is in progress with is
\* taken for the answer to it, whatever it says.
Response(n, r) ==
  /\ FromAir
  /\ CompanionFree(n)
  /\ \/ /\ login[n] = r
        /\ login' = [login EXCEPT ![n] = NoRepeater]
        /\ \/ /\ Notify(n, [kind |-> "login", of |-> r])
              /\ successes' = [successes EXCEPT ![n] = @ + 1]
           \/ UNCHANGED <<notify, successes>>
     \/ /\ login[n] # r
        /\ Notify(n, [kind |-> "response"])
        /\ UNCHANGED <<login, successes>>
  /\ UNCHANGED <<nodeLog, handling, log, sessions, logins, given, addressed, crashes>>

-----------------------------------------------------------------------------
\* The client's connection.

SetClient(n, state) == client' = [client EXCEPT ![n] = state]

Connect(n) ==
  /\ client[n] = "offline"
  /\ SetClient(n, "idle")
  /\ UNCHANGED <<nodeLog, handling, notify, log, reply, fetched, access, given, addressed, received, crashes>>

\* The connection breaks; an answer not yet written is lost.
Disconnect(n) ==
  /\ client[n] \in {"idle", "reply"}
  /\ SetClient(n, "offline")
  /\ reply' = [reply EXCEPT ![n] = NoMessage]
  /\ UNCHANGED <<nodeLog, handling, notify, log, fetched, access, given, addressed, received, crashes>>

\* The TCP task writes a notification between two commands.
Notified(n) ==
  /\ client[n] = "idle"
  /\ notify[n] # <<>>
  /\ notify' = [notify EXCEPT ![n] = Tail(@)]
  /\ UNCHANGED <<nodeLog, handling, log, sessions, access, given, addressed, received, crashes>>

\* SyncNextMessage locks the companion, then the log.
Sync(n) ==
  /\ client[n] = "idle"
  /\ CompanionFree(n)
  /\ SetClient(n, "pop")
  /\ UNCHANGED <<nodeLog, handling, notify, log, reply, fetched, access, given, addressed, received, crashes>>

\* MessageLog::pop, then the response.
Pop(n) ==
  /\ client[n] = "pop"
  /\ storing = NoNode
  /\ SetClient(n, "reply")
  /\ \/ stored = <<>> /\ UNCHANGED <<stored, reply>>
     \/ /\ stored # <<>>
        /\ reply' = [reply EXCEPT ![n] = Head(stored)]
        /\ stored' = Tail(stored)
  /\ UNCHANGED <<nodeLog, handling, notify, storing, latest, written, fetched, access, given, addressed, received, crashes>>

Reply(n) ==
  /\ client[n] = "reply"
  /\ SetClient(n, "idle")
  /\ reply' = [reply EXCEPT ![n] = NoMessage]
  /\ fetched' = [fetched EXCEPT ![n] = @ \cup ({reply[n]} \ {NoMessage})]
  /\ UNCHANGED <<nodeLog, handling, notify, log, access, given, addressed, received, crashes>>

\* send_login: a later login replaces the one in progress.
SendLogin(n, r) ==
  /\ client[n] = "idle"
  /\ CompanionFree(n)
  /\ logins[n] < MaxLogins
  /\ logins' = [logins EXCEPT ![n] = @ + 1]
  /\ login' = [login EXCEPT ![n] = r]
  /\ UNCHANGED <<nodeLog, handling, notify, log, sessions, successes, given, addressed, received, crashes>>

\* A reboot keeps the log on flash and nothing else.
Crash ==
  /\ crashes < MaxCrash
  /\ crashes' = crashes + 1
  /\ nodeLog' = [n \in Node |-> <<>>]
  /\ handling' = [n \in Node |-> NoMessage]
  /\ notify' = [n \in Node |-> <<>>]
  /\ storing' = NoNode /\ latest' = <<>>
  /\ client' = [n \in Node |-> "offline"]
  /\ reply' = [n \in Node |-> NoMessage]
  /\ login' = [n \in Node |-> NoRepeater]
  /\ given' = [n \in Node |-> {}]
  /\ written' = <<>>
  /\ UNCHANGED <<stored, fetched, addressed, logins, successes, received>>

Next == \/ \E n \in Node : \/ Overhear(n) \/ \E m \in Message : Receive(n, m)
                           \/ Remember(n) \/ Write(n)
                           \/ \E r \in Repeater : Response(n, r) \/ SendLogin(n, r)
                           \/ Connect(n) \/ Disconnect(n) \/ Notified(n)
                           \/ Sync(n) \/ Pop(n) \/ Reply(n)
        \/ Crash

Spec == Init /\ [][Next]_vars

-----------------------------------------------------------------------------
\* "messages aren't stored twice" (message_log.rs:27): of LatestSize + 1
\* messages written one after the other none is like another, although every
\* node of the device may hear the same message.
StoredOnce ==
  \A i, j \in 1..Len(written) :
    (i < j /\ written[i] = written[j]) => j - i > LatestSize

\* Whatever a node's layers were given is in the log: being written or written
\* since the last boot, by this companion or another one.  The node's own log
\* and `latest` never agree to forget a message nobody wrote.
GivenIsWritten ==
  \A n \in Node : \A m \in given[n] :
    m \in ElementsOf(written) \/ \E k \in Node : handling[k] = m

\* A login command reports at most one success, whatever a repeater answers and
\* however often.
LoginAnsweredOnce == \A n \in Node : successes[n] <= logins[n]

\* "a standalone meshcore entity, with its own identity and independent set of
\* handler layers" (builder.rs:3): a client gets the messages of its own node.
FetchedWasAddressed == \A n \in Node : fetched[n] \subseteq addressed[n]
=============================================================================
