---------------------------- MODULE ChannelStore ----------------------------
(***************************************************************************)
(* ChannelStorage (chiyocore/src/simple_mesh/storage/channel.rs): channels *)
(* on flash by index, and in memory by index, hash and name.  Whoever      *)
(* writes holds the channels' write lock, so each operation is one step.   *)
(***************************************************************************)
EXTENDS FlashDirectory, FiniteSets, FiniteSetsExt

CONSTANTS Idx,        \* channel indices
          HashOfIdx,  \* the order of their files in the directory's index
          Name, Secret,
          HashOf,     \* the first byte of a secret's digest
          NoChannel, NoIdx

ASSUME IndexAssumption ==
  /\ Idx \subseteq Nat /\ IsFiniteSet(Idx)
  /\ HashOfIdx \in [Idx -> Nat]
  /\ \A i, j \in Idx : HashOfIdx[i] = HashOfIdx[j] => i = j

VARIABLES channelDir, \* flash: the directory of channels
          cache,      \* ChannelStorage::cache, by index
          byHash, byName

channelVars == <<channelDir, cache, byHash, byName>>

Channel == [name : Name, key : Secret]
Hash == {HashOf[s] : s \in Secret}

ChannelTypeOK ==
  /\ channelDir \in Directory(Idx, Channel)
  /\ cache \in [Idx -> Channel \cup {NoChannel}]
  /\ byHash \in [Hash -> Idx \cup {NoIdx}]
  /\ byName \in [Name -> Idx \cup {NoIdx}]

EmptyMaps == [hash |-> [h \in Hash |-> NoIdx], name |-> [n \in Name |-> NoIdx]]

ChannelInit == /\ channelDir = EmptyDirectory(Idx)
               /\ cache = [i \in Idx |-> NoChannel]
               /\ byHash = EmptyMaps.hash
               /\ byName = EmptyMaps.name

\* The index a map is left with that is collected from channels in their order.
LastOf(indices) == IF indices = {} THEN NoIdx ELSE Max(indices)

\* Faulty variant: a channel without a file stops the load.
LoadChannelsWhole ==
  /\ Whole(channelDir)
  /\ cache' = channelDir.item
  /\ UNCHANGED <<byHash, byName>>

\* ChannelStorage::new.
LoadChannels ==
  LET c == [i \in Idx |-> IF i \in Yielded(channelDir, HashOfIdx)
                            THEN channelDir.item[i] ELSE NoChannel]
      loaded == {i \in Idx : c[i] # NoChannel}
  IN /\ cache' = c
     /\ byHash' = [h \in Hash |-> LastOf({i \in loaded : HashOf[c[i].key] = h})]
     /\ byName' = [n \in Name |-> LastOf({i \in loaded : c[i].name = n})]

Get(i) == cache[i]
GetByHash(h) == IF byHash[h] = NoIdx THEN NoChannel ELSE Get(byHash[h])
GetByName(n) == IF byName[n] = NoIdx THEN NoChannel ELSE Get(byName[n])

\* Faulty variant: the maps are written for new indices only.
InsertChannelNewInMaps(i, c) ==
  IF cache[i] = c THEN UNCHANGED channelVars ELSE
  /\ channelDir' = Stored(channelDir, i, c)
  /\ cache' = [cache EXCEPT ![i] = c]
  /\ IF cache[i] # NoChannel THEN UNCHANGED <<byHash, byName>> ELSE
     /\ byHash' = [byHash EXCEPT ![HashOf[c.key]] = i]
     /\ byName' = [byName EXCEPT ![c.name] = i]

\* Faulty variant: a channel with the hash of the one it replaces is not written.
InsertChannelSameHash(i, c) ==
  IF cache[i] # NoChannel /\ HashOf[cache[i].key] = HashOf[c.key]
  THEN UNCHANGED channelVars ELSE
  /\ channelDir' = Stored(channelDir, i, c)
  /\ cache' = [cache EXCEPT ![i] = c]
  /\ byHash' = [byHash EXCEPT ![HashOf[c.key]] = i]
  /\ byName' = [byName EXCEPT ![c.name] = i]

\* `insert`: nothing for an equal channel; flash, maps, cache otherwise.  The
\* maps keep what led to a channel that is replaced.
InsertChannel(i, c) ==
  IF cache[i] = c THEN UNCHANGED channelVars ELSE
  /\ channelDir' = Stored(channelDir, i, c)
  /\ cache' = [cache EXCEPT ![i] = c]
  /\ byHash' = [byHash EXCEPT ![HashOf[c.key]] = i]
  /\ byName' = [byName EXCEPT ![c.name] = i]

\* It ends at `set(..).await?`.
InsertChannelFails(i, c) ==
  /\ cache[i] # c
  /\ channelDir' \in HalfStored(channelDir, i)
  /\ UNCHANGED <<cache, byHash, byName>>

\* A reboot forgets what is in memory.
ForgetChannels == /\ cache' = [i \in Idx |-> NoChannel]
                  /\ byHash' = EmptyMaps.hash
                  /\ byName' = EmptyMaps.name
=============================================================================
