------------------------------- MODULE Stores -------------------------------
(***************************************************************************)
(* What a device keeps on flash, from boot to reboot: contacts and         *)
(* channels with their caches, and the single values: the global variable  *)
(* with a default in the configuration, the node's advert and its          *)
(* identity.  The generated main (builder/src/gen_main.rs) reads and       *)
(* writes them in turn, then the companion layer (companionv2/build.rs)    *)
(* writes its channels; from then on clients and received packets do.      *)
(*                                                                         *)
(* A panic is left by a reboot.  MaxOps, MaxFail and MaxCrash bound the    *)
(* writes, the flash errors and the reboots.                               *)
(***************************************************************************)
EXTENDS ContactStore, ChannelStore, Sequences

CONSTANTS ConfigChannels, \* `public` and the default_channels, as inserted
          LayerChannels,  \* the channels of the companion layer
          Text,           \* values of the variable and names of the node
          Default,        \* the configured one
          NoIdentity,
          ClientChannels, \* bound: what clients set
          MaxOps, MaxFail, MaxCrash

Placed == [idx : Idx, channel : Channel]

ASSUME StoresAssumption ==
  /\ ConfigChannels \in Seq(Placed) /\ LayerChannels \in Seq(Placed)
  /\ ConfigChannels # <<>> /\ LayerChannels # <<>>
  /\ ClientChannels \subseteq Placed
  /\ Default \in Text /\ NoFile \notin Text /\ NoFile \notin Nat
  /\ NoFile \notin Route /\ NotCached \notin Route \cup {NoFile}
  /\ NoReturn \notin [key : Key, path : Path]
  /\ NoFile \notin Channel /\ NoChannel \notin Channel /\ NoIdx \notin Idx
  /\ NoIdentity \notin Nat
  /\ MaxOps \in Nat /\ MaxFail \in Nat /\ MaxCrash \in Nat

VARIABLES phase,    \* how far the boot is
          todo,     \* the channels this part of the boot has yet to insert
          variable, advert, identity, \* flash: the single values
          nodeName, nodeId, \* memory: SimpleMesh::advert_data and identity
          ackedContact, ackedChannel, ackedVariable,
                    \* ghost: what clients were last told is stored
          usedId,   \* ghost: the identity the node first came up with
          replaced, \* ghost: indices whose channel was replaced since boot
          nameUnsaved, \* ghost: a name was not stored since boot
          ops, fails, crashes \* counters for the bounds

boot == <<phase, todo>>
flashed == <<variable, advert, identity>>
node == <<nodeName, nodeId>>
acked == <<ackedContact, ackedChannel, ackedVariable>>
sinceBoot == <<replaced, nameUnsaved>>
counters == <<ops, fails, crashes>>
vars == <<contactVars, channelVars, boot, flashed, node, acked, usedId, sinceBoot, counters>>

Phase == {"load", "defaults", "variables", "advert", "identity", "layer", "up"}

TypeOK ==
  /\ ContactTypeOK /\ ChannelTypeOK
  /\ phase \in Phase /\ todo \in Seq(Placed)
  /\ variable \in Text \cup {NoFile} /\ advert \in Text \cup {NoFile}
  /\ identity \in Nat \cup {NoFile}
  /\ nodeName \in Text /\ nodeId \in Nat \cup {NoIdentity}
  /\ ackedContact \in [Key -> Route \cup {NotCached}]
  /\ ackedChannel \in [Idx -> Channel \cup {NoChannel}]
  /\ ackedVariable \in Text \cup {NoFile}
  /\ usedId \in Nat \cup {NoIdentity}
  /\ replaced \subseteq Idx /\ nameUnsaved \in BOOLEAN
  /\ ops \in 0..MaxOps /\ fails \in 0..MaxFail /\ crashes \in 0..MaxCrash

Init ==
  /\ ContactInit /\ ChannelInit
  /\ phase = "load" /\ todo = <<>>
  /\ variable = NoFile /\ advert = NoFile /\ identity = NoFile
  /\ nodeName = Default /\ nodeId = NoIdentity
  /\ ackedContact = [k \in Key |-> NotCached]
  /\ ackedChannel = [i \in Idx |-> NoChannel]
  /\ ackedVariable = NoFile
  /\ usedId = NoIdentity
  /\ replaced = {} /\ nameUnsaved = FALSE
  /\ ops = 0 /\ fails = 0 /\ crashes = 0

\* A step's flash operation is done, or ends with an error.
Outcome(done) == IF done THEN UNCHANGED fails
                 ELSE fails < MaxFail /\ fails' = fails + 1

Replaces(i, c) == {j \in {i} : cache[i] \notin {NoChannel, c}}

-----------------------------------------------------------------------------
(* Boot.  Every error but those of the generated main's channels ends in an *)
(* `unwrap`: see BootFails.                                                 *)

\* MeshStorage::new.
Load ==
  /\ phase = "load"
  /\ LoadContacts /\ LoadChannels
  /\ phase' = "defaults" /\ todo' = ConfigChannels
  /\ UNCHANGED <<contactDir, returned, contactsHeld, channelDir, flashed, node, acked,
                 usedId, sinceBoot, counters>>

\* add_channels of the generated main.
DefaultChannel(done) ==
  LET c == Head(todo)
  IN /\ phase = "defaults"
     /\ IF done THEN InsertChannel(c.idx, c.channel)
                ELSE InsertChannelFails(c.idx, c.channel)
     /\ replaced' = IF done THEN replaced \cup Replaces(c.idx, c.channel) ELSE replaced
     /\ todo' = Tail(todo)
     /\ phase' = IF todo' = <<>> THEN "variables" ELSE phase
     /\ Outcome(done)
     /\ UNCHANGED <<contactVars, flashed, node, acked, usedId, nameUnsaved, ops, crashes>>

\* What is on flash, or else the default.
StoredOr(value, default) == IF value = NoFile THEN default ELSE value

\* Faulty variant: the configured value is written at every boot.
DefaultVariableSet ==
  /\ phase = "variables"
  /\ variable' = Default
  /\ phase' = "advert"
  /\ UNCHANGED <<contactVars, channelVars, todo, advert, identity, node, acked, usedId,
                 sinceBoot, counters>>

\* get_or_insert of a configured variable.
DefaultVariable ==
  /\ phase = "variables"
  /\ variable' = StoredOr(variable, Default)
  /\ phase' = "advert"
  /\ UNCHANGED <<contactVars, channelVars, todo, advert, identity, node, acked, usedId,
                 sinceBoot, counters>>

\* load_node_slot: get_persistable of the advert data.
LoadAdvert ==
  /\ phase = "advert"
  /\ advert' = StoredOr(advert, Default) /\ nodeName' = advert'
  /\ phase' = "identity"
  /\ UNCHANGED <<contactVars, channelVars, todo, variable, identity, nodeId, acked, usedId,
                 sinceBoot, counters>>

\* One boot generates one identity at most, never that of another boot.
Fresh == crashes

\* Faulty variant: an identity that could not be stored is used.
LoadIdentityUnsaved ==
  /\ phase = "identity"
  /\ nodeId' = StoredOr(identity, Fresh)
  /\ identity' \in {identity, nodeId'}
  /\ phase' = "layer" /\ todo' = LayerChannels
  /\ UNCHANGED <<contactVars, channelVars, variable, advert, nodeName, acked, usedId,
                 sinceBoot, counters>>

\* load_node_slot: the identity on flash, or one that is generated and stored.
LoadIdentity ==
  /\ phase = "identity"
  /\ nodeId' = StoredOr(identity, Fresh) /\ identity' = nodeId'
  /\ phase' = "layer" /\ todo' = LayerChannels
  /\ UNCHANGED <<contactVars, channelVars, variable, advert, nodeName, acked, usedId,
                 sinceBoot, counters>>

\* add_channels of the companion layer, which then starts to serve.
LayerChannel ==
  LET c == Head(todo)
  IN /\ phase = "layer"
     /\ InsertChannel(c.idx, c.channel)
     /\ replaced' = replaced \cup Replaces(c.idx, c.channel)
     /\ todo' = Tail(todo)
     /\ IF todo' = <<>>
          THEN phase' = "up" /\ usedId' = IF usedId = NoIdentity THEN nodeId ELSE usedId
          ELSE UNCHANGED <<phase, usedId>>
     /\ UNCHANGED <<contactVars, flashed, node, acked, nameUnsaved, counters>>

Boot == \/ Load \/ DefaultChannel(TRUE) \/ DefaultChannel(FALSE) \/ DefaultVariable
        \/ LoadAdvert \/ LoadIdentity \/ LayerChannel

-----------------------------------------------------------------------------
(* Reboots.                                                                 *)

Reboot == /\ ForgetContacts /\ ForgetChannels
          /\ nodeName' = Default /\ nodeId' = NoIdentity
          /\ phase' = "load" /\ todo' = <<>>
          /\ replaced' = {} /\ nameUnsaved' = FALSE

BootFails ==
  /\ phase \notin {"defaults", "up"}
  /\ Outcome(FALSE)
  /\ IF phase = "layer"
       THEN channelDir' \in HalfStored(channelDir, Head(todo).idx)
       ELSE UNCHANGED channelDir
  /\ Reboot
  /\ UNCHANGED <<contactDir, flashed, acked, usedId, ops, crashes>>

\* A contact was being written, by a client or the handler of a packet.
CutContact ==
  /\ phase = "up" /\ ~contactsHeld
  /\ \E k \in Key, p \in Route :
       /\ contactDir' \in CutShort(contactDir, k, p)
       /\ ackedContact' = IF contactDir'.item = contactDir.item THEN ackedContact
                          ELSE [ackedContact EXCEPT ![k] = NotCached]
  /\ UNCHANGED <<channelDir, flashed, ackedChannel, ackedVariable>>

\* A channel was being written, by a client or the boot.
ChannelsWritten == IF phase = "up" THEN ClientChannels
                   ELSE IF phase \in {"defaults", "layer"} THEN {Head(todo)} ELSE {}

CutChannel ==
  /\ ~contactsHeld
  /\ \E c \in ChannelsWritten :
       /\ channelDir' \in CutShort(channelDir, c.idx, c.channel)
       /\ ackedChannel' = IF channelDir'.item = channelDir.item THEN ackedChannel
                          ELSE [ackedChannel EXCEPT ![c.idx] = NoChannel]
  /\ UNCHANGED <<contactDir, flashed, ackedContact, ackedVariable>>

\* A single value was being written: it is there or it is not.
CutValue ==
  /\ ~contactsHeld
  /\ \/ /\ phase = "variables" \/ phase = "up"
        /\ \E t \in Text : variable' = IF phase = "up" THEN t ELSE StoredOr(variable, Default)
        /\ ackedVariable' = IF variable' = variable THEN ackedVariable ELSE NoFile
        /\ UNCHANGED <<advert, identity>>
     \/ /\ phase = "advert" \/ phase = "up"
        /\ \E t \in Text : advert' = IF phase = "up" THEN t ELSE StoredOr(advert, Default)
        /\ UNCHANGED <<variable, identity, ackedVariable>>
     \/ /\ phase = "identity"
        /\ identity' = StoredOr(identity, Fresh)
        /\ UNCHANGED <<variable, advert, ackedVariable>>
  /\ UNCHANGED <<contactDir, channelDir, ackedContact, ackedChannel>>

PowerLoss ==
  /\ crashes < MaxCrash /\ crashes' = crashes + 1
  /\ \/ CutContact \/ CutChannel \/ CutValue
     \/ UNCHANGED <<contactDir, channelDir, flashed, acked>>
  /\ Reboot
  /\ UNCHANGED <<usedId, ops, fails>>

-----------------------------------------------------------------------------
(* Clients and received packets.                                            *)

Operation(done) == /\ phase = "up" /\ ops < MaxOps /\ ops' = ops + 1
                   /\ Outcome(done)
                   /\ UNCHANGED <<boot, usedId, crashes>>

\* add_update_contact and import_contact of a client, SimpleMesh::advert.
PutContact(k, p, done) ==
  /\ Operation(done)
  /\ NewContact(k, p, done)
  /\ ackedContact' = IF done THEN [ackedContact EXCEPT ![k] = p] ELSE ackedContact
  /\ UNCHANGED <<channelVars, flashed, node, ackedChannel, ackedVariable, sinceBoot>>

\* reset_path of a client, and a retry task that starts to flood.
ResetPath(k, done) ==
  /\ Operation(done)
  /\ ForgetPath(k, done)
  /\ ackedContact' = IF done THEN [ackedContact EXCEPT ![k] = NoPath] ELSE ackedContact
  /\ UNCHANGED <<channelVars, flashed, node, ackedChannel, ackedVariable, sinceBoot>>

\* reset_path of a contact that is not stored.
ResetPathPanics(k) ==
  /\ phase = "up" /\ ops < MaxOps /\ ops' = ops + 1
  /\ ForgetPathOfStranger(k)
  /\ Reboot
  /\ UNCHANGED <<contactDir, channelDir, flashed, acked, usedId, fails, crashes>>

\* SimpleMesh::returned_path, first and second part.
HearPath(k, p) ==
  /\ Operation(TRUE)
  /\ FindSender(k, p)
  /\ UNCHANGED <<channelVars, flashed, node, acked, sinceBoot>>

KeepPath(done) ==
  /\ phase = "up" /\ Outcome(done)
  /\ StorePath(done)
  /\ ackedContact' = IF done THEN [ackedContact EXCEPT ![returned.key] = returned.path]
                     ELSE ackedContact
  /\ UNCHANGED <<channelVars, boot, flashed, node, ackedChannel, ackedVariable, usedId,
                 sinceBoot, ops, crashes>>

\* remove_contact, which hangs or fails.
RemoveContact(k) ==
  /\ \/ Operation(TRUE) /\ Delete(k)
     \/ Operation(FALSE) /\ DeleteFails(k)
  /\ ackedContact' = [ackedContact EXCEPT ![k] = NotCached]
  /\ UNCHANGED <<channelVars, flashed, node, ackedChannel, ackedVariable, sinceBoot>>

\* set_channel.
SetChannel(i, c, done) ==
  /\ Operation(done) /\ ~contactsHeld
  /\ IF done
       THEN /\ InsertChannel(i, c)
            /\ replaced' = replaced \cup Replaces(i, c)
            /\ ackedChannel' = [ackedChannel EXCEPT ![i] = c]
       ELSE InsertChannelFails(i, c) /\ UNCHANGED <<replaced, ackedChannel>>
  /\ UNCHANGED <<contactVars, flashed, node, ackedContact, ackedVariable, nameUnsaved>>

\* set_custom_var.
SetVariable(t, done) ==
  /\ Operation(done) /\ ~contactsHeld
  /\ IF done THEN variable' = t /\ ackedVariable' = t ELSE UNCHANGED <<variable, ackedVariable>>
  /\ UNCHANGED <<contactVars, channelVars, advert, identity, node, ackedContact,
                 ackedChannel, sinceBoot>>

\* set_advert_name, through with_mut: the error is not looked at.
SetAdvertName(t, done) ==
  /\ Operation(done) /\ ~contactsHeld
  /\ nodeName' = t
  /\ IF done THEN advert' = t /\ nameUnsaved' = FALSE ELSE nameUnsaved' = TRUE /\ UNCHANGED advert
  /\ UNCHANGED <<contactVars, channelVars, variable, identity, nodeId, acked, replaced>>

Command(done) ==
  \/ \E k \in Key, p \in Route : PutContact(k, p, done)
  \/ \E k \in Key : ResetPath(k, done)
  \/ \E c \in ClientChannels : SetChannel(c.idx, c.channel, done)
  \/ \E t \in Text : SetVariable(t, done) \/ SetAdvertName(t, done)
  \/ KeepPath(done)

Next == \/ Boot \/ BootFails \/ PowerLoss
        \/ \E done \in BOOLEAN : Command(done)
        \/ \E k \in Key : RemoveContact(k) \/ ResetPathPanics(k)
        \/ \E k \in Key, p \in Path : HearPath(k, p)

\* The boot goes on by itself.
Spec == Init /\ [][Next]_vars /\ WF_vars(Boot)

-----------------------------------------------------------------------------
\* Names listed without a file, which end a load: what a failed or interrupted
\* `set` leaves.
Gap(d, rank, n) == \E g \in d.index : d.item[g] = NoFile /\ rank[g] < rank[n]

\* Between the load and the first command, and right after the load.
Booting == phase \notin {"load", "up"}
Loaded == phase = "defaults" /\ todo = ConfigChannels

\* A contact that a client or a peer has set is on flash with its path, until
\* it is removed, and every boot loads it unless there is a gap before it
\* (contact.rs:39-61, 73-97, mod.rs:676).
ContactsSurvive ==
  \A k \in Key : ackedContact[k] # NotCached =>
    /\ contactDir.item[k] = ackedContact[k]
    /\ Booting => Known(k) \/ Gap(contactDir, HashOfKey, k)

\* Indices the boot writes itself.
BootIdx == {ConfigChannels[i].idx : i \in DOMAIN ConfigChannels}
           \cup {LayerChannels[i].idx : i \in DOMAIN LayerChannels}

\* A channel that a client has set where the boot does not write is kept in the
\* same way (channel.rs:54-80, 97-120).
ChannelsSurvive ==
  \A i \in Idx \ BootIdx : ackedChannel[i] # NoChannel =>
    /\ channelDir.item[i] = ackedChannel[i]
    /\ Loaded => cache[i] = ackedChannel[i] \/ Gap(channelDir, HashOfIdx, i)

\* A channel is found by its hash and by its name, unless what is found shares
\* the hash or name, or came to its index by replacing another channel since
\* the boot; the maps never lead nowhere (channel.rs:89-95, 111-112).
FoundUnlessReplaced ==
  \A i \in Idx : cache[i] # NoChannel =>
    LET h == HashOf[cache[i].key]
        n == cache[i].name
    IN /\ GetByHash(h) # NoChannel /\ GetByName(n) # NoChannel
       /\ byHash[h] \in replaced \/ HashOf[GetByHash(h).key] = h
       /\ byName[n] \in replaced \/ GetByName(n).name = n

\* Once a node has served with an identity it never comes up with another one
\* (gen_main.rs:109-124).
IdentityKept == phase = "up" => nodeId = usedId /\ identity = usedId

\* The boot writes its default over no variable a client has set
\* (gen_main.rs:168-177), and a name in use that is not the one on flash was
\* not stored in spite of the client's Ok (companion_proto_handler.rs:210-219).
SettingsKept ==
  /\ ackedVariable # NoFile => variable = ackedVariable
  /\ phase = "up" => nodeName = advert \/ nameUnsaved

\* Whatever failed writes and power losses have left on flash, the device comes
\* up again.
NoBootLoop == []<>(phase = "up")
=============================================================================
