# A formal model of chiyocore

chiyocore is firmware (Rust, embassy, ESP32-S3) that hosts several MeshCore
nodes on one LoRa radio. Each node is a `SimpleMesh` with layers on top, such as
a `Companion`, which a phone or computer reaches over TCP, or a `PingBot`. This
directory holds TLA+ modules of its parts, configurations that check small
instances of them with TLC, and proofs that TLAPS checks for all instances.
Paths below are relative to `src/firmware/`; `SM/` is
`chiyocore/src/simple_mesh/` and `CV2/` is `companion/src/companionv2/`.

## 1. Inventory

| Component | Source | State | Operations | Talks to |
|---|---|---|---|---|
| Flash file system | `chiyo-hal/src/storage.rs` | map on flash: one index item per directory, one item per file; a mutex | `get`, `set`, `delete`, `directory_entries` and its reader, `get_or_insert`, `get_persistable` | every store |
| Persisted objects | `chiyo-hal/src/storage.rs` | a value in memory and its file | `set`, `with_mut` | file system |
| Partitions | `chiyo-hal/src/storage.rs` | offset and size | bounds of read, write, erase | flash driver |
| Contact storage | `SM/storage/contact.rs` | sorted `hot_cache`, files | `insert`, `delete`, `fast_get`, `full_get`, load | file system; all nodes share it |
| Channel storage | `SM/storage/channel.rs` | `cache`, `by_hash`, `by_name`, files | `insert`, `get*`, load | file system; all nodes share it |
| Hash logs | `SM/storage/packet_log.rs` | the newest N hashes | `contains`, `push` | nodes, message log |
| Message log | `SM/storage/message_log.rs` | queue on flash, `latest` window | `push`, `pop` | all companions share it |
| Shared key cache | `SM/storage/shared_key_cache.rs` | map | `get_key` | node |
| Node | `SM/mod.rs` | logs, ack table, identity, scratch memory | send, retry task, one handler per payload type | layers, stores, radio queue |
| Layers | `SM/layer.rs`, `chiyocore/src/ping_bot.rs` | a mutex per layer | `with_layer`, callbacks | node |
| Radio task | `chiyocore/src/lora.rs` | radio mode, `needs_rx_restart`, two queues of 16 | receive, send, restart on error | radio, receive handler, senders |
| Companion | `CV2/` | login, signing session, name | about 30 commands, callbacks | stores, node, TCP |
| TCP connection | `companion/src/companion_protocol/` | socket, notification queue of 16 | read frame, command, flush, notify | companion |
| Boot | `chiyocore/src/builder.rs`, `CV2/build.rs`, `src/builder/` | | defaults, configuration, load, spawn | everything |
| Time, Wi-Fi, crypto, PSRAM | `timing.rs`, `ntp.rs`, `wifi.rs`, `crypto.rs`, `psram_vec.rs` | | | |

How they interact: the receive handler (second core) takes a frame from the
receive queue, locks the layers of each node, then the node for writing, and
calls `SimpleMesh::packet`, which drops known packets, calls the layers and then
the handler of the packet's type. The handlers read or write contacts and
channels and answer through `send_delayed` tasks. A client's command holds its
companion's mutex, reads the contacts and the node, and waits for a slot of the
transmit queue. The radio task moves frames between the radio and both queues.

What is hard to test here: the file system's three-step writes under failures and
power losses; retries, late and duplicated acks over a lossy network; five kinds
of task that take three kinds of lock in different orders and two bounded queues;
a message log and stores that nodes share; everything a reboot forgets or keeps.
`PROJECT.json` lists these hazards line by line with the properties that cover
them.

What makes each component correct:

- *File system*: calls appear atomic, completed ones survive a reboot, listings
  contain what is stored, the mutex is released.
- *Direct messages*: acknowledged means delivered, delivered once per window,
  every task ends after the stated attempts.
- *Tasks and locks*: no lock cycle, every queue drains, the radio listens whenever
  its task waits, frames reach the layers in order, and again only after as many
  other packets as the node's log holds.
- *Companion*: nothing is stored twice or forgotten, a client gets its own node's
  messages, a login is answered once.
- *Stores*: the cache claims what flash holds, lookups by hash and name lead to
  what they name, an acknowledged write is there after any reboot, one identity.
- *Layers and bots*: all layers handle the same messages in the same order, whichever
  of them fails or is slow, none twice, and bots do not answer each other, whatever
  they are called.
- *TCP connection*: each command is handled once, in order, whatever the pieces.

## 2. Modules

| Module | Models | Actions and the code |
|---|---|---|
| `KeyValue` | abstract: an atomic durable map with calls, errors and power losses | `Call`, `Effect`, `Finish`, `Error`, `PowerLoss` |
| `ChiyoFs` | `ChiyoFilesystem` | one action per flash operation between two awaits: `Lock`, `FetchIndex`, `StoreIndex`, `StoreItem`, `FetchItem`, `OpenDirectory`, `NextFile`, `EndOfDirectory`; `IndexFull` and `FlashError` are the error returns, `Crash` the power loss |
| `HashLog` | `HashLog::contains`, `push` | operators, used by the nodes and the message log |
| `MessagePromise` | abstract: a message ends acknowledged only if it reached its contact | |
| `DirectMessage` | `send_with_retry`, the ack table, `text_message`, `send_ack`, `ack`, `returned_path`, over a network that loses, repeats, delays and reorders | `Transmit`, `Await`, `Timeout`, `ResetPath` are the steps of the task, `Unwrap` its panics; `ReceiveText`, `ReceiveAck`, `ReceiveAdvert` whole packet handlers |
| `FlashDirectory` | abstract: a directory of the file system for users that come one after the other | operators: what a finished, failed or interrupted `set` leaves, and what a reader yields |
| `ContactStore`, `ChannelStore` | `ContactStorage`, `ChannelStorage` | each method, with the error at its `?`, the callers' `unwrap`s and the load at boot |
| `Stores` | both stores, the variables, the advert and the identity, from boot to reboot | boot: `Load`, `DefaultChannel`, `DefaultVariable`, `LoadAdvert`, `LoadIdentity`, `LayerChannel`, or `BootFails`; then one action per client command or packet that writes; `PowerLoss` in the middle of any of them |
| `GroupChat` | channel messages among nodes with a companion and a ping bot | `UserSends`, `ClientSends`, `HearAgain`, `HearUnread`, `HearMessage` are the ways through `send_channel_message` and `SimpleMesh::packet`; `StoreMessage`, `LeaveMessage`, `AnswerMessage` the layers' `group_text`, each with its return, `Join` the end of all of them; `SendAnswer` is the bot's delayed task |
| `NodeRuntime` | radio task, receive handler, client connections, retry tasks, delayed senders, their locks and queues | `Lora*` follow the arms of `Radio::run`; `Locks` gives the lock order of each job, `Acquire` takes the next one; `LogSent` is the `packet_log.push` of what a node sends |
| `Companion` | messages and notifications for clients, the shared message log, logins, connections, reboots | `Receive`, `Overhear`, `Remember`, `Write`, `Response` on the mesh side; `Sync`, `Pop`, `Reply`, `Notified`, `SendLogin` on the client side |
| `ClientSession` | the loop of one connection: reads, frames, commands, answers, the signature in progress | `Read`, `BrokenRead`, `FrameCut`, `Reset` and one action per kind of command |
| `FlashBounds` | the range checks of `FsPartition` in words that wrap | operators |
| `ByteMaps` | the bulk insertion of `psram_vec.rs`, `ContactStorage::find_idx` | operators |
| `SequenceLemmas` | lemmas about sequences, windows of hashes and induction, for the proofs | |
| `*_proofs` | theorems about the module they are named after | |
| `MC_*` | instances for TLC | |

Definitions called *Faulty variant* stand next to the ones they alter. They are
plausible bugs; `PROJECT.json` ("mutants") says which property each of them
breaks, so that no property is one that no bug could violate.

State and code: a task's `pc` is the `await` it stands at; a lock is held
exactly where the guard is alive in the code. In `ChiyoFs` the `entries` of a
task are its copy of the index. In `DirectMessage` a packet is what its hash
covers (type, route, peer, crc), and the crc is body and attempt, without the
recipient, as in `Ack::calculate`; the waker a task wakes when it ends is its `pc`,
`done`. In `NodeRuntime` packets to send are only counted, and received frames are
numbered in the order the radio hears them; the slot of the frame being handled and
of the packet being sent stays taken, as thingbuf's references do. A node's
`packet_log` holds what it hears and what it sends: client commands and retries log
their packet when they have their locks and before they wait for a slot, the bot's
answer is logged when its delay begins (`SM/mod.rs:204`, `:295`, `:309`); an
acknowledgement or a returned path is not, as `send_ack` passes `log = false`
(`SM/mod.rs:367`). Its own packets are all called `Own` there: `LogSent` may find one
in the log, when it is sent again, or not. In `Stores` a writer holds its store's write lock, so a
`set` is one step that is done, fails, or is cut short by a power loss
(`HalfStored`, `CutShort`): `ChiyoFs` is shown to keep to these directories
(`KeepsDirectories`). What a client was told is in ghosts (`acked*`). In
`GroupChat` a message stands for its packet, as the hash covers nothing else, and a
text is its pieces between colons, each a sequence of words, so that the bot's
`split_once(':')` is head and tail. A text may be garbled (no UTF-8): the companion
stores it and fails when it prints it, the bot fails when it reads it. In
`ClientSession` a frame is three cells, so that a read can end before, behind and
at both places inside a frame.

## 3. Runs

| Run | Instance | Shows |
|---|---|---|
| `fs_map` | 2 tasks; a directory that is written past its index of 2 entries and listed, another with a delete; 1 failed operation, 1 power loss | types; mutex protocol; stored files are listed; a listing is complete; directories change and are listed as `FlashDirectory` says, so that no index entry is lost; entries without a file are rare; `KeyValue` is implemented; `delete` never returns; everyone else releases the mutex |
| `fs_listing` (violation) | 1 task, 1 power loss | one interrupted `set` ends every later iteration early |
| `dm_retry` | 2 messages to one contact, a second contact overhears, one direct and one flooded attempt each, logs of 1 entry | attempts, termination; layers see a repeat only outside the window; `MessagePromise` is implemented |
| `dm_same_text` (violation) | 2 messages of the same text to 2 contacts | the second task takes the first one's registration for its ack |
| `stores` | 2 contacts, 3 channel indices, 4 channels of which two share a hash, 2 names, 3 writes, 1 flash error, 2 power losses | caches claim only what flash holds; what a client was told survives; lookups lead right unless a channel was replaced; one identity; no boot loop |
| `bot_chat` | 2 nodes with a companion and a bot each, one bot with the name `bot:!ping`; a ping, a garbled message that one node hears twice, a ping in a channel that one node reads and no bot serves; logs of 1 entry | nothing is new twice within a window; layers that return early or late, well or with an error, handle the same messages; no answer to an answer |
| `rt_traffic` | 1 node, 3 frames, 1 of them garbled, 1 radio error, 2 steps of its client (a message to a contact, an update of one) or of retries, queues of 1, a packet log of 2 | no cycle of locks; queue bounds; frames in order, and again only after as many other packets, heard or sent, as the log holds; the radio listens; queues drain |
| `rt_stall` (violation) | 1 node, 2 frames, 2 commands, queues of 1 | radio task, receive handler and client wait for each other |
| `rt_remove` (violation) | 2 nodes, 1 frame, a `remove_contact` | no layer of any node is called again |
| `co_messages` | 2 nodes, 2 messages, 3 receptions, logs of 1 entry, 1 reboot | nothing stored twice in the window or forgotten; a login is answered once |
| `co_shared` (violation) | 2 nodes, 1 message | one node's client takes another node's message |
| `session` | 2 connections of 3 commands each, reads of up to 2 frames | each command handled once, in order, answered before the next; signatures are over this connection's data; what arrives is dealt with |

`MC_Stores` also states, as assumptions that TLC evaluates, what the pure
algorithms compute: the bounds of a partition of 30 bytes in words of 6 bits, for
every offset and length; `lm_extend`, for every sorted map of 3 keys and every
4 entries inserted into it, against "the last entry for each key, in order"; and
`find_idx`, for every 4 keys of 3 bits and every prefix, against "the first that
the prefix fits". `Stores_proofs` proves the same for all inputs.

**Bounds.** Two tasks (or nodes, messages, files, contacts) are enough for every
pairwise race; queues, logs and indexes hold one or two entries, so that they are
full and evict within a few steps, where the firmware's hold 16, 32 or 1024. The
counters `MaxFail`, `MaxCrash`, `MaxHeard`, `MaxCalls`, `MaxReceived`,
`MaxLogins`, `MaxCopies`, `MaxOps`, `MaxCommands` and `MaxConnect` only bound the
environment: failures, power losses, frames, commands, receptions, connections.
One failure and one power loss at every possible step meet every partial state of
a single `set`; `stores` has a second power loss, for one during the boot that
follows the first. Where `CHECK_DEADLOCK` is off the environment may fall silent,
or the code really stops (`delete`, a panic).

**Fairness.** embassy polls every task that was woken, so each task's steps are
weakly fair (`Proceed`, `Task`, `Lora`, `Run`, `Serve`), and so is the boot
(`Boot`). There is none on failures, power losses, received frames, client
commands or on packets arriving. Weak fairness would not be enough for a task
that competes forever for a mutex, which is not fair; the number of commands is
therefore bounded and `QueuesDrain` speaks of the time after they have ended. A
client that always has the next command ready may keep the receive handler
waiting: this is listed as a hazard. For the radio task fairness takes
`process_irq_event` to return, where the code says "todo: i think it can get stuck
here" (`lora.rs:333`); that the task waits for a slot is a state of the model
(`RadioWaits`), and the only wait of its that `QueuesDrain` lets last. For a retry
task (`DirectMessage`) it takes the node's lock and the transmit queue to become free
again, which `NodeRuntime` is about. A client's `Reply` is fair because the socket
has a two-second timeout. `NoBootLoop` needs that power losses and flash errors
end; it says that what they have left on flash does not stop the next boot.

## 4. Proofs

`ChiyoFs_proofs`, for any number of tasks, directories, files, contents, failures
and power losses, from `FsAssumption` and `CallAssumption` (the sentinel values
are not real ones, bounds are natural numbers, file hashes are ordered, calls are
calls):

- `TypeCorrect`, `MutualExclusion`, `StoredFilesAreIndexed`, `ListingsAreComplete`,
  `DanglingStaysRare` (`[]`-invariants), `EntriesAreKept`, `DeletesHang` (action properties),
  `ImplementsMap`, the refinement of `KeyValue`, and `ImplementsDirectories`, that of
  `FlashDirectory`.

None of `LockInv` and `StoredIsIndexed` is inductive alone: that `StoreItem`
stores a file whose name is in the index needs to know that the index was written
by the same call and not changed since. The inductive invariant is
`IInv == TypeOK /\ LockInv /\ CallInv /\ IndexInv /\ StoredIsIndexed`: `CallInv`
says which kinds of call can be where, and `IndexInv` says that the holder of the
mutex has, in `entries`, the index as it is on flash. `NextInv` proves one step
for each action; the theorems follow from it, with a lemma of its own where an
action property or the refinement needs one. `DanglingStaysRare` counts entries:
`Abandoned` are those without a file that no running task is about to fill. Only a
failure or a power loss adds to them, and one at most (`RareInv`).

`ImplementsDirectories` is what `Stores` rests on, where a `set` is one step. The
refinement mapping `dirs` shows the index that a `set` has written only when the
`set` is over; then each step is one of `FlashDirectory`'s, or changes no directory
(`NextKeepsPromise`). A `set` that has written the index knows that it added its
own name and nothing else (`WrittenInv`). A listing has passed the least entries of
the index it copied, each with its file (`PassedInv`), so where it ends is where
`Yielded` ends; the index it copied is that of a directory between two calls.

`NodeRuntime_proofs`, for any number of nodes, frames, failures and capacities,
from `RuntimeAssumption`:

- `AlwaysListens`: the radio listens whenever the radio task waits.
  `RadioListens` becomes inductive with the states in which the task passes
  between the restart of reception and the wait, and with the head of the loop,
  where the radio listens unless `restart` is set (`ListenInv`).
- `NeverLockCycle`: no set of tasks in which each waits for another one of the
  set. The inductive part (`LockInv`) is that tasks do the jobs of their kind and
  never hold locks that exclude each other. Companions come before meshes and
  meshes before contacts for every job but one: a contact message reads the
  contacts before it reads the mesh. It never waits for the mesh
  (`ContactMessageGoesOn`): only a received packet of the same node writes it
  (`MeshWriter`), and that packet would need the companion's mutex, which the
  client's command has. So a task waits only for tasks of a lower `Rank`
  (`WaitsForLower`), and a circle has no lowest rank. The proof rests on what the
  model says of `embassy`'s locks: readers are let in whoever else waits.
- `FramesInOrder`: a frame on its way (the radio's buffer, `buf`, the queue, the
  frame being handled) is never earlier than the last one a node was given
  (`FrameInv`, `GivenInv`, `OrderInv`). A frame the radio task reads a second time,
  after an error, is given again only if it is not in the node's log; the log is the
  newest part of what the node heard and sent (`Recent`), so `PacketLogSize` others
  have come since. The nodes do take a frame twice when they send that much
  between its copies.
- `TypeCorrect`, for at least one node: a transmission started takes its packet
  from the queue only when it is over (`SendInv`).

`Companion_proofs`, for any number of nodes, messages, repeaters, logins, reboots
and logs of any size, from `CompanionAssumption`:

- `LoginsAnsweredOnce`, from `LoginInv`: while a login is in progress there is a
  command more than there are successes.
- `NothingForgotten`, from `LogInv`: what `latest` remembers is on flash, or is
  the message of the companion that has the log's mutex, so a push that finds its
  message in `latest` may drop it.
- `NeverStoredTwice`, from `WindowInv`: `latest` is the end of what was written,
  newest first, after the message being written, and that message is none of
  them.
- `TypeCorrect`, with what sessions have in hand (`ClientInv`).

`Stores_proofs`, for any number of contacts, channels, names, writes, errors and
power losses, from `KeyAssumption`, `IndexAssumption` (files have different places
in the index, channel indices are finitely many) and `StoresAssumption`:

- `OneIdentity` and `SettingsAreKept`, from `ValueInv`: from the phase after a
  value was read or stored on, memory and flash have the same; an identity that
  was ever in use is on flash.
- `ContactCacheIsStored` and `ContactsAreKept`, from `ContactInv`: what was
  acknowledged is on flash *and listed*, which is what the next load needs.
- `ChannelsAreFound`, from `StoreInv`: every entry of the two maps leads to a
  cached channel with that hash or name, or to an index in `replaced`. The load
  builds the maps from the last channel of each hash, which `LastOfMember` shows to
  exist in any finite set.
- `ChannelsAreKept`, from `ChannelInv`, which adds that what the boot has left to
  insert goes to indices the boot writes (`TodoInv`).
- `TypeCorrect`, from the invariants above and two parts for what they leave open.

- `NoAccessOutside`, `AllOfItUsable`, `NoEraseOutside`, about `FlashBounds`, for every
  word size and partition, from `PartitionAssumption` (the partition lies on the
  chip). `PlusWraps` says that an addition wraps once at most; an offset that wraps
  falls short of the partition's start (`MapsInside`).

- `InsertionKeepsMap`, about `lm_extend`, for entries of any kind with numbers as
  keys and vectors of any length. A vector that the code counts as sorted to its
  end, and leaves alone, is sorted (`CountedIsSorted`), for all its offsets of one. The
  stable sort is described by the rank of each entry; the ranks are a permutation
  (`Ranks`), and the entries with one key keep their order (`SortIsStable`). The
  loop that removes repeated keys has the invariant `Kept`: in front is the last
  entry of every key read, what is not read is untouched.
- `SearchFindsFirst`, about `find_idx`, for keys in order and prefixes of any
  length: a key that is not before the prefix, and before one the prefix fits, is
  fitted too (`FittingIsUnbroken`), so the place found is that of the first that fits.

`SequenceLemmas` has two things. `Window(S, log, history, size)` is what the four
bounded logs of the code have in common: a log holds the last entries of a history,
newest first (`Recent`), and no entry of the history repeats one of the `size` before
it (`NoRepeat`). `PushKeepsWindow` shows that pushing what the log does not hold keeps
this. The proofs of the companion, the nodes, the channel messages and the direct
messages cite its lemmas. The other is induction over data without an operator as
parameter: `LeastNumber` says that a set of natural numbers that is not empty has a
least element, from which come `Induction` over a set of numbers and the lemmas
about functions defined by recursion.

`GroupChat_proofs`, for any number of nodes, messages, texts and names, and logs of
any size, from `ChatAssumption` and `MessageAssumption`:

- `PacketsAreNew`, from `PacketInv`: each node's packet log is the window over what it
  heard for the first time or sent.
- `AllLayersAgree` and `MessagesAreNew`, from `MessageInv`: the message log is the
  window over what the node took for new, and the layers are called for the newest of
  it or for none (`CallInv`). A layer that has not returned lacks that one message,
  one that has returned lacks none. This needs that a node takes no other packet
  before all its layers have returned, errors or not: with a join that ends at the
  first error (`JoinedOnError`) a slow layer misses messages.
- `BotsAnswerUsers`: whatever a bot or who it answers is called, what is behind the
  first colon of an answer has another colon, so it is not a ping (`AnswerTextLong`,
  `AnswersDoNotAsk`), and no bot begins an answer to an answer. Words without colons
  are what `Pieces` assumes of texts; a bot that looked at the second piece only
  (`AsksSomewhere`) would answer a bot named `bot:!ping`.
- `TypeCorrect`, with `AirInv` for what is on the air or delayed.

`DirectMessage_proofs`, for any number of messages, contacts, attempts and losses,
from `SendAssumption`:

- `AttemptsAreBounded`, from `AttemptInv`: what a task has sent is a function of
  how far it is, and it ends without an acknowledgement only past the last attempt.
- `RepeatsAreLate`, from `PeerInv`: the contact's log is a window over what its
  layers got.
- `KeepsPromise`, the refinement of `MessagePromise`, for messages of which no two
  have the same body (`Distinct`). `AckInv` has the chain behind it: a text
  on the air was sent by a task, an acknowledgement on the air answers a message
  whose contact has it, so a task that ends as acknowledged has its message
  delivered. The run `dm_same_text` shows what equal bodies do.
- `TypeCorrect`.

`ClientSession_proofs`, for any number of connections, commands and reads, from
`SessionAssumption`:

- `CommandsHandledOnce`, from `StreamInv`: what was handled is a prefix of what was
  asked, and the cells in the buffer followed by those still in the socket are the
  frames behind that prefix, cut anywhere; and from `AnswerInv`: the commands
  answered are those of the handled ones that call for an answer, in that order.
- `SignaturesAreOwn`, from `SignInv`: the data a connection has gathered is that of
  its own data commands since its last start of a signature, so no other connection
  and no earlier signature has a part in it.
- `SessionTypes`.

Every invariant and action property of the passing runs is stated by a theorem.
Only model-checked are the liveness properties (`LockReleased`, `SendEnds`,
`QueuesDrain`, `NoBootLoop`, `ServedOrGone`), as the provers handle neither fairness
nor `ENABLED`.

## 5. Where the code and its documentation differ

Each has a violation run with the shortest trace TLC finds.

1. `storage.rs:466` against `storage.rs:228`: an index entry without a file (one
   power loss inside `set`) ends every iteration of the directory; contacts and
   channels behind it are not loaded at boot (`fs_listing`).
2. `storage.rs:364`: `delete` locks a mutex it holds. `remove_contact` therefore
   never returns and keeps the companion and the contacts locked, so that no layer
   is called again, against `layer.rs:26` (`rt_remove`; `DeletesHang`).
3. `SM/mod.rs:420` against `:382`: `Err(Duplicate)` of the wait map is taken for an
   acknowledgement (`dm_same_text`).
4. `lora.rs:344` against `:310`: while the receive queue is full the radio task
   sends nothing, which closes a circle with a client that holds its companion
   and waits for the transmit queue (`rt_stall`).
5. `builder.rs:271` against `:3`: nodes are not independent, their clients fetch
   from one message log (`co_shared`).

Read while modelling, without a statement of the repository against them:

- The companion layer inserts its own channels at indices 0 to 2 at every boot
  (`CV2/build.rs:69-90`), after the generated main has inserted the configured
  ones: a configured or client-set channel at 1 or 2 is lost at the next boot.
  `ChannelsSurvive` therefore speaks of the indices the boot does not write.
- `ChannelStorage::insert` leaves the old hash and name of a channel that it
  replaces in its maps; `FoundUnlessReplaced` says what lookups then still give.
- `PersistedObject::with_mut` changes memory first, and `set_advert_name` does not
  look at its error: a client may be told Ok for a name that is gone after a reboot
  (`SettingsKept`, `nameUnsaved`).
- `reset_path` of an unknown contact, a retry task whose send fails or whose contact
  is gone (`SM/mod.rs:408`, `:430-436`), a read from a connection that was reset
  (`tcp.rs:80`), a frame that TCP cuts in two and a command that is `todo!()` each stop
  the firmware; the model has these as steps (`Unwrap`, `BrokenRead`, `FrameCut`).
- A frame that the radio task reads twice, after an error before its interrupt was
  cleared, is given to the layers twice when the node has sent as many packets in
  between as its log holds; `HandledInOrder` bounds this.
- `companion_proto_handler.rs:508` reports a message as flooded when its contact
  has a path, the other handlers when it has none.

## 6. Not modelled, and why

Modelled as one step: an operation of sequential-storage on one item, encoding and
encryption of a packet, a layer callback. `send_to_contact_with_retry` is an API
for layers; the companion itself sends a message once and leaves retries to its
client.

Left out, with the reason in `PROJECT.json`:

- the wording of the client protocol, and commands that only report state;
- the contents of requests, traces and control packets, which pass through to the
  client; the slots their notifications take are modelled (`Overhear`);
- the shared key cache: it caches a pure function and never forgets;
- retransmission delays and NTP: no modelled decision compares times, timers may
  fire at any moment;
- allocation in external memory, Wi-Fi, drivers and cryptography;
- the generated Rust text and the tools on the developer's machine.

What could follow: one specification of `DirectMessage` and `GroupChat` over the
locks of `NodeRuntime`, in place of packets that are handled in one step.
