---------------------------- MODULE NodeRuntime ----------------------------
(***************************************************************************)
(* The tasks of the firmware and what they wait for (chiyocore/src/lora.rs *)
(* and layer.rs, companion/src/companion_protocol/tcp.rs): the radio task, *)
(* the receive handler of every node, the client connection of every node, *)
(* the message retry tasks and the delayed senders.  They share two        *)
(* bounded queues (received frames, packets to send), the mutex of each    *)
(* node's companion, the read-write lock of each mesh node and the one of  *)
(* the contacts, which all nodes share.                                    *)
(*                                                                         *)
(* The receive handler and what it spawns run on the second core, the rest *)
(* on the first; within a core tasks change at an `await` only, and what   *)
(* the cores share is behind these locks and queues.  So a step runs from  *)
(* one `await` that can wait to the next.  A task has a `job` and has      *)
(* acquired the first `got` locks of it; the end of the job releases them. *)
(***************************************************************************)
EXTENDS HashLog, Integers, FiniteSets

CONSTANTS Node,          \* mesh nodes of the device, one companion each
          Command,       \* what clients ask for
          Garbled,       \* frames that Packet::decode rejects
          RxCapacity,    \* slots of LORA_RECEIVE_CHANNEL (16)
          TxCapacity,    \* slots of LORA_TRANSMIT_CHANNEL (16)
          DelayPool,     \* pool size of send_delayed (16)
          PacketLogSize, \* capacity of packet_log (32)
          MaxHeard,      \* bound: frames the radio receives
          MaxCalls,      \* bound: client commands and retry steps
          MaxFail        \* bound: errors of the radio driver

ASSUME RuntimeAssumption ==
  /\ Command \subseteq {"contact_message", "self_advert", "update", "remove"}
  /\ Garbled \subseteq 1..MaxHeard
  /\ RxCapacity \in Nat \ {0}
  /\ TxCapacity \in Nat \ {0}
  /\ DelayPool \in Nat
  /\ PacketLogSize \in Nat \ {0}
  /\ MaxHeard \in Nat
  /\ MaxCalls \in Nat
  /\ MaxFail \in Nat

Frame == 1..MaxHeard

\* A packet of the node's own, in its log: the log's answers about frames never
\* tell one of them from another.  (What a node hears of its own packets again is
\* in GroupChat.)
Own == 0

Task == {"rx", "tcp", "retry"} \X Node

VARIABLES lora,     \* where the radio task is
          mode,     \* what the radio does: receive or stand by
          inbox,    \* the frame the radio holds, 0 if none
          received, \* the frame read from the radio that waits to be queued, 0 if none
          restart,  \* needs_rx_restart
          rxQueue,  \* received frames; the one being handled keeps its slot
          txQueue,  \* packets to send; the one being sent keeps its slot
          delayed,  \* running send_delayed tasks
          job,      \* what each task is doing
          got,      \* how many locks of its job it holds
          seen,     \* packet_log of each node
          handled,  \* ghost: what each node took for new, newest first: the frames
                    \* its layers were given and the packets it logged as sent
          panicked, \* the firmware has stopped
          heard, calls, fails \* counters for the bounds

radio == <<lora, mode, inbox, received, restart>>
queues == <<rxQueue, txQueue, delayed>>
tasks == <<job, got>>
meshes == <<seen, handled>>
counters == <<heard, calls, fails>>
vars == <<radio, queues, tasks, meshes, panicked, counters>>

-----------------------------------------------------------------------------
\* The locks, and in which order each job takes them.

Companion(n) == [lock |-> "companion", of |-> n, mode |-> "write"]
Mesh(n, mode_) == [lock |-> "mesh", of |-> n, mode |-> mode_]
Contacts(mode_) == [lock |-> "contacts", of |-> "all", mode |-> mode_]

\* Faulty variant: the handler locks the mesh before its layer.
LocksMeshFirst(j, n) ==
  CASE j \in {"packet", "answer"} -> <<Mesh(n, "write"), Companion(n)>>
    [] j = "text" -> <<Mesh(n, "write"), Companion(n), Contacts("read")>>
    [] j = "advert" -> <<Mesh(n, "write"), Companion(n), Contacts("write")>>
    [] j = "contact_message" -> <<Companion(n), Contacts("read"), Mesh(n, "read")>>
    [] j = "self_advert" -> <<Companion(n), Mesh(n, "read")>>
    [] j \in {"update", "remove"} -> <<Companion(n), Contacts("write")>>
    [] j = "reply" -> <<Companion(n)>>
    [] j = "resend" -> <<Mesh(n, "read")>>
    [] j = "reset_path" -> <<Mesh(n, "read"), Contacts("write")>>
    [] OTHER -> <<>>

\* A received packet locks the layer, then the mesh, then reads the contacts to
\* decode a message or writes them for an advert or a returned path.  A client
\* command locks the companion for the command and its reply.
Locks(j, n) ==
  CASE j \in {"packet", "answer"} -> <<Companion(n), Mesh(n, "write")>>
    [] j = "text" -> <<Companion(n), Mesh(n, "write"), Contacts("read")>>
    [] j = "advert" -> <<Companion(n), Mesh(n, "write"), Contacts("write")>>
    [] j = "contact_message" -> <<Companion(n), Contacts("read"), Mesh(n, "read")>>
    [] j = "self_advert" -> <<Companion(n), Mesh(n, "read")>>
    [] j \in {"update", "remove"} -> <<Companion(n), Contacts("write")>>
    [] j = "reply" -> <<Companion(n)>>
    [] j = "resend" -> <<Mesh(n, "read")>>
    [] j = "reset_path" -> <<Mesh(n, "read"), Contacts("write")>>
    [] OTHER -> <<>>

LocksOf(t) == Locks(job[t], t[2])
Held(t) == {LocksOf(t)[i] : i \in 1..got[t]}
HasAll(t) == got[t] = Len(LocksOf(t))

\* Readers share a lock; embassy's RwLock lets them in whoever else waits.
Conflict(a, b) == /\ a.lock = b.lock /\ a.of = b.of
                  /\ "write" \in {a.mode, b.mode}

WaitsFor(t, u) == /\ t # u
                  /\ ~HasAll(t)
                  /\ \E l \in Held(u) : Conflict(LocksOf(t)[got[t] + 1], l)

TypeOK ==
  /\ lora \in {"start", "top", "irq", "enqueue", "clear", "select", "tx"}
  /\ mode \in {"rx", "standby"}
  /\ inbox \in Frame \cup {0} /\ received \in Frame \cup {0}
  /\ restart \in BOOLEAN
  /\ rxQueue \in Seq(Frame) /\ Len(rxQueue) <= RxCapacity
  /\ txQueue \in 0..TxCapacity
  /\ delayed \in 0..DelayPool
  /\ job \in [Task -> {"idle", "packet", "answer", "text", "advert", "done",
                       "reply", "resend", "reset_path"} \cup Command]
  /\ \A t \in Task : got[t] \in 0..Len(LocksOf(t))
  /\ seen \in [Node -> Seq(Frame \cup {Own})]
  /\ handled \in [Node -> Seq(Frame \cup {Own})]
  /\ \A n \in Node : Len(seen[n]) <= PacketLogSize
  /\ panicked \in BOOLEAN
  /\ heard \in 0..MaxHeard /\ calls \in 0..MaxCalls /\ fails \in 0..MaxFail

Init ==
  /\ lora = "start" /\ mode = "standby" /\ inbox = 0 /\ received = 0 /\ restart = FALSE
  /\ rxQueue = <<>> /\ txQueue = 0 /\ delayed = 0
  /\ job = [t \in Task |-> "idle"] /\ got = [t \in Task |-> 0]
  /\ seen = [n \in Node |-> <<>>] /\ handled = [n \in Node |-> <<>>]
  /\ panicked = FALSE
  /\ heard = 0 /\ calls = 0 /\ fails = 0

-----------------------------------------------------------------------------
\* The radio.

\* A frame arrives while the radio receives; it overwrites one not yet read.
Hear ==
  /\ mode = "rx"
  /\ heard < MaxHeard
  /\ heard' = heard + 1
  /\ inbox' = heard + 1
  /\ UNCHANGED <<lora, mode, received, restart, queues, tasks, meshes, panicked, calls, fails>>

\* prepare_for_rx and start_rx: the driver may or may not keep a pending frame.
Listen == mode' = "rx" /\ inbox' \in {inbox, 0}

\* An error of the driver: `run` returns it and lora_task starts it again.
RadioError ==
  /\ fails < MaxFail
  /\ fails' = fails + 1
  /\ lora' = "start"

LoraStart ==
  /\ lora = "start"
  /\ \/ /\ Listen
        /\ lora' = "top"
        /\ restart' = FALSE
        /\ UNCHANGED fails
     \/ RadioError /\ UNCHANGED <<mode, inbox, restart>>
  /\ UNCHANGED <<received, queues, tasks, meshes, panicked, heard, calls>>

\* cad_check and prepare_for_tx take the radio out of reception.
BeginTx == lora' = "tx" /\ mode' = "standby" /\ inbox' = 0

\* Faulty variant: the restart of the reception is forgotten.
LoraTopNoRestart ==
  /\ lora = "top"
  /\ \/ txQueue > 0 /\ BeginTx
     \/ txQueue = 0 /\ lora' = "irq" /\ UNCHANGED <<mode, inbox>>
  /\ UNCHANGED <<received, restart, queues, tasks, meshes, panicked, counters>>

\* The head of the loop: a packet to send comes first, then the restart of the
\* reception.
LoraTop ==
  /\ lora = "top"
  /\ \/ txQueue > 0 /\ BeginTx /\ UNCHANGED fails
     \/ txQueue = 0 /\ restart /\ Listen /\ lora' = "irq" /\ UNCHANGED fails
     \/ txQueue = 0 /\ restart /\ RadioError /\ UNCHANGED <<mode, inbox>>
     \/ txQueue = 0 /\ ~restart /\ lora' = "irq" /\ UNCHANGED <<mode, inbox, fails>>
  /\ UNCHANGED <<received, restart, queues, tasks, meshes, panicked, heard, calls>>

\* The transmission ends, or fails: either way the packet leaves the queue.
\* cad_check returns Ok after its fifth try too, so a busy channel only delays.
LoraTx ==
  /\ lora = "tx"
  /\ txQueue' = txQueue - 1
  /\ \/ lora' = "top" /\ restart' = TRUE /\ UNCHANGED fails
     \/ RadioError /\ UNCHANGED restart
  /\ UNCHANGED <<mode, inbox, received, rxQueue, delayed, tasks, meshes, panicked, heard, calls>>

\* process_irq_event and get_rx_result.
LoraIrq ==
  /\ lora = "irq"
  /\ \/ /\ inbox = 0
        /\ lora' = "select"
        /\ restart' = FALSE
        /\ UNCHANGED <<received, fails>>
     \/ /\ inbox # 0
        /\ lora' = "enqueue"
        /\ received' = inbox
        /\ UNCHANGED <<restart, fails>>
     \/ RadioError /\ UNCHANGED <<received, restart>>
  /\ UNCHANGED <<mode, inbox, queues, tasks, meshes, panicked, heard, calls>>

\* Faulty variant: does not wait for a slot.
LoraEnqueueAlways ==
  /\ lora = "enqueue"
  /\ rxQueue' = Append(rxQueue, received)
  /\ received' = 0
  /\ lora' = "clear"
  /\ UNCHANGED <<mode, inbox, restart, txQueue, delayed, tasks, meshes, panicked, counters>>

\* received_tx.send_ref().await: waits for a free slot of the queue.
LoraEnqueue ==
  /\ lora = "enqueue"
  /\ Len(rxQueue) < RxCapacity
  /\ rxQueue' = Append(rxQueue, received)
  /\ received' = 0
  /\ lora' = "clear"
  /\ UNCHANGED <<mode, inbox, restart, txQueue, delayed, tasks, meshes, panicked, counters>>

\* clear_irq_status; if it fails, the same frame may be read again.
LoraClear ==
  /\ lora = "clear"
  /\ \/ lora' = "select" /\ inbox' = 0 /\ restart' = TRUE /\ UNCHANGED fails
     \/ RadioError /\ UNCHANGED <<inbox, restart>>
  /\ UNCHANGED <<mode, received, queues, tasks, meshes, panicked, heard, calls>>

\* select(with_timeout(300 ms, wait_for_irq), to_send.recv_ref).
LoraSelect ==
  /\ lora = "select"
  /\ \/ lora' = "top" /\ UNCHANGED <<mode, inbox>>
     \/ txQueue > 0 /\ BeginTx
  /\ UNCHANGED <<received, restart, queues, tasks, meshes, panicked, counters>>

Lora == \/ LoraStart \/ LoraTop \/ LoraTx \/ LoraIrq \/ LoraEnqueue
        \/ LoraClear \/ LoraSelect

-----------------------------------------------------------------------------
\* run_handler: one frame at a time, by all nodes at once (join).

RxJobs(j) == [t \in Task |-> IF t[1] = "rx" THEN j ELSE job[t]]

\* Faulty variant: `return` for `continue` when a frame does not decode.
RxTakeStops ==
  /\ rxQueue # <<>>
  /\ \A n \in Node : job[<<"rx", n>>] = "idle"
  /\ Head(rxQueue) \notin Garbled
  /\ job' = RxJobs("packet")
  /\ UNCHANGED <<radio, queues, got, meshes, panicked, counters>>

\* recv_ref and Packet::decode.
RxTake ==
  /\ rxQueue # <<>>
  /\ \A n \in Node : job[<<"rx", n>>] = "idle"
  /\ \/ /\ Head(rxQueue) \in Garbled
        /\ rxQueue' = Tail(rxQueue)
        /\ UNCHANGED job
     \/ /\ Head(rxQueue) \notin Garbled
        /\ job' = RxJobs("packet")
        /\ UNCHANGED rxQueue
  /\ UNCHANGED <<radio, txQueue, delayed, got, meshes, panicked, counters>>

\* What node n takes for new goes to the front of its packet_log.
TakeNew(n, p) ==
  /\ seen' = [seen EXCEPT ![n] = PushFront(@, p, PacketLogSize)]
  /\ handled' = [handled EXCEPT ![n] = <<p>> \o @]

\* send_packet with `log`, send_direct_packet and send_anon_req push what they
\* send: a new packet, or one that was sent before and is still in the log.
LogSent(n) == \/ TakeNew(n, Own)
              \/ ContainsHash(seen[n], Own) /\ UNCHANGED meshes

Sending == {"contact_message", "self_advert", "resend"}

\* The next lock of a task's job.  A job that sends logs its packet as soon as it
\* has them all, before it waits for a slot of the queue.
Acquire(t) ==
  /\ ~HasAll(t)
  /\ \A u \in Task : ~WaitsFor(t, u)
  /\ got' = [got EXCEPT ![t] = @ + 1]
  /\ IF job[t] \in Sending /\ got[t] + 1 = Len(LocksOf(t))
     THEN LogSent(t[2])
     ELSE UNCHANGED meshes
  /\ UNCHANGED <<radio, queues, job, panicked, counters>>

\* A task goes on with job j, of whose locks it holds the first k.
Goto(t, j, k) == job' = [job EXCEPT ![t] = j] /\ got' = [got EXCEPT ![t] = k]

\* Faulty variant: the packet log is not asked.
RxPacketNoLog(n) ==
  LET t == <<"rx", n>> IN
  /\ job[t] = "packet" /\ HasAll(t)
  /\ TakeNew(n, Head(rxQueue))
  /\ Goto(t, "done", 0)
  /\ UNCHANGED <<radio, queues, panicked, counters>>

\* MeshcoreHandler::packet up to its dispatch: a packet the log knows is left,
\* any other one goes to the layers and then to the handler of its type, which
\* ends here unless it needs the contacts or the bot answers.
RxPacket(n) ==
  LET t == <<"rx", n>>  f == Head(rxQueue) IN
  /\ job[t] = "packet" /\ HasAll(t)
  /\ \/ /\ ContainsHash(seen[n], f)
        /\ Goto(t, "done", 0)
        /\ UNCHANGED meshes
     \/ /\ ~ContainsHash(seen[n], f)
        /\ TakeNew(n, f)
        /\ \/ Goto(t, "done", 0)
           \/ \E j \in {"answer", "text", "advert"} : Goto(t, j, 2)
  /\ UNCHANGED <<radio, queues, panicked, counters>>

\* A packet is left to a send_delayed task; spawning one more than the pool holds
\* panics (`unwrap`).
SpawnDelayed ==
  \/ delayed < DelayPool /\ delayed' = delayed + 1 /\ UNCHANGED panicked
  \/ delayed = DelayPool /\ panicked' = TRUE /\ UNCHANGED delayed

\* The bot's answer to a group text goes through send_flood_packet and is logged.
RxAnswer(n) ==
  LET t == <<"rx", n>> IN
  /\ job[t] = "answer" /\ HasAll(t)
  /\ LogSent(n)
  /\ SpawnDelayed
  /\ Goto(t, "done", 0)
  /\ UNCHANGED <<radio, rxQueue, txQueue, counters>>

\* The contacts are read or written.  A message for this node is answered by an
\* acknowledgement or a returned path, which send_ack keeps out of the log.
RxFinish(n) ==
  LET t == <<"rx", n>> IN
  /\ job[t] \in {"text", "advert"} /\ HasAll(t)
  /\ \/ UNCHANGED <<delayed, panicked>>
     \/ job[t] = "text" /\ SpawnDelayed
  /\ Goto(t, "done", 0)
  /\ UNCHANGED <<radio, rxQueue, txQueue, meshes, counters>>

\* All nodes are done: the slot of the frame is free again.
RxRelease ==
  /\ \A n \in Node : job[<<"rx", n>>] = "done"
  /\ rxQueue' = Tail(rxQueue)
  /\ job' = RxJobs("idle")
  /\ UNCHANGED <<radio, txQueue, delayed, got, meshes, panicked, counters>>

-----------------------------------------------------------------------------
\* The tasks that send.

\* A client's command, or the next step of a retry task.
Begin(t) ==
  /\ job[t] = "idle"
  /\ calls < MaxCalls
  /\ calls' = calls + 1
  /\ \E j \in IF t[1] = "tcp" THEN Command ELSE {"resend", "reset_path"} : Goto(t, j, 0)
  /\ t[1] # "rx"
  /\ UNCHANGED <<radio, queues, meshes, panicked, heard, fails>>

\* LoraTaskChannel::send_packet: waits for a slot of the queue with the locks held.
SendPacket(t) ==
  /\ job[t] \in Sending /\ HasAll(t)
  /\ txQueue < TxCapacity
  /\ txQueue' = txQueue + 1
  /\ \/ t[1] = "tcp" /\ Goto(t, "reply", 1)
     \/ t[1] = "retry" /\ Goto(t, "idle", 0)
  /\ UNCHANGED <<radio, rxQueue, delayed, meshes, panicked, counters>>

\* ContactStorage::insert.  There is no such step for "remove": the call of
\* ChiyoFilesystem::delete in ContactStorage::delete never returns (ChiyoFs).
WriteContact(t) ==
  /\ job[t] \in {"update", "reset_path"} /\ HasAll(t)
  /\ \/ t[1] = "tcp" /\ Goto(t, "reply", 1)
     \/ t[1] = "retry" /\ Goto(t, "idle", 0)
  /\ UNCHANGED <<radio, queues, meshes, panicked, counters>>

\* The reply and the flush of the socket end the command.
Reply(t) ==
  /\ job[t] = "reply" /\ HasAll(t)
  /\ Goto(t, "idle", 0)
  /\ UNCHANGED <<radio, queues, meshes, panicked, counters>>

\* The timer of a send_delayed task has fired and there is a free slot.
SendDelayed ==
  /\ delayed > 0
  /\ txQueue < TxCapacity
  /\ txQueue' = txQueue + 1
  /\ delayed' = delayed - 1
  /\ UNCHANGED <<radio, rxQueue, tasks, meshes, panicked, counters>>

\* What the executor runs of task t when it can.
Run(t) == \/ Acquire(t) \/ SendPacket(t) \/ WriteContact(t) \/ Reply(t)
          \/ t[1] = "rx" /\ (RxPacket(t[2]) \/ RxAnswer(t[2]) \/ RxFinish(t[2]))

Next == /\ ~panicked
        /\ \/ Hear \/ Lora \/ RxTake \/ RxRelease \/ SendDelayed
           \/ \E t \in Task : Begin(t) \/ Run(t)

Spec == Init /\ [][Next]_vars

\* Fairness of the radio task is weak: it takes process_irq_event, where the code
\* says "todo: i think it can get stuck here" (lora.rs:333), to return.
FairSpec == /\ Spec
            /\ WF_vars(~panicked /\ Lora)
            /\ WF_vars(~panicked /\ (RxTake \/ RxRelease))
            /\ WF_vars(~panicked /\ SendDelayed)
            /\ \A t \in Task : WF_vars(~panicked /\ Run(t))

-----------------------------------------------------------------------------
\* The locks alone never deadlock: in every set of tasks one waits for none of
\* the set.  The companion, mesh and contact locks are taken in different orders
\* by clients, received packets and retries of several nodes.
NoLockCycle ==
  \A S \in SUBSET Task :
    S # {} => \E t \in S : \A u \in S : ~WaitsFor(t, u)

\* No frame of a history (newest first) was heard before an older entry's; and the
\* same frame comes twice only after PacketLogSize other packets were logged.
InOrder(history) ==
  \A i, j \in 1..Len(history) :
    (i < j /\ history[i] # Own /\ history[j] # Own) =>
      \/ history[j] < history[i]
      \/ history[j] = history[i] /\ j - i > PacketLogSize

\* The layers of a node get the frames in the order they were heard, although a
\* radio error after a frame was queued makes the radio task read it again; they
\* get such a frame again only when packets the node took for new in between,
\* its own among them, pushed it out of the log.
HandledInOrder == \A n \in Node : InOrder(handled[n])

\* Whenever the radio task waits for something to happen, the radio receives:
\* no path through the loop leaves it in the state a transmission left it in.
RadioListens == lora = "select" => mode = "rx"

\* The radio task waits for room among the received frames.
RadioWaits == lora = "enqueue" /\ Len(rxQueue) = RxCapacity

\* When clients and the air fall silent, every queue is worked off; the only way
\* to fail that is that the radio task waits forever for room among the received
\* frames, or that the pool of delayed senders has overflowed.
QueuesDrain ==
  \/ <>[](rxQueue = <<>> /\ txQueue = 0 /\ delayed = 0
          /\ \A t \in Task : job[t] = "idle")
  \/ <>[]RadioWaits
  \/ <>panicked

\* "Loop receiving messages, as well as sending when needed" (lora.rs:310): a
\* packet in the queue is sent.
SendsWhenNeeded == (txQueue > 0) ~> (lora = "tx" \/ panicked)

\* "Called on every packet" (layer.rs:26): the layers of every node get every
\* frame in the queue that is a packet.
LayersCalledOnEveryPacket ==
  \A n \in Node, f \in Frame \ Garbled :
    (\E i \in 1..Len(rxQueue) : rxQueue[i] = f)
      ~> ((\E i \in 1..Len(handled[n]) : handled[n][i] = f) \/ panicked)
=============================================================================
