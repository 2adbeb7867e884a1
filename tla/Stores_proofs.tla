---------------------------- MODULE Stores_proofs ----------------------------
(***************************************************************************)
(* Proofs about Stores for any number of contacts, channels, names, failed *)
(* writes and power losses; about the bounds of the flash partition they   *)
(* are on (FlashBounds), for any machine word and partition; and about the *)
(* searches and insertions of ByteMaps, for vectors of any length.         *)
(***************************************************************************)
EXTENDS Stores, FlashBounds, ByteMaps, SequenceLemmas, FiniteSetTheorems, WellFoundedInduction, TLAPS

-----------------------------------------------------------------------------
(***************************************************************************)
(* The single values.                                                      *)
(***************************************************************************)

\* The identity in use is the one on flash as soon as the node is built, and the
\* one it has ever used; the name in use is the one on flash or was not stored.
ValueInv ==
  /\ identity \in Nat \cup {NoFile} /\ crashes \in Nat
  /\ usedId \in Nat \cup {NoIdentity}
  /\ usedId # NoIdentity => identity = usedId
  /\ phase \in {"layer", "up"} => nodeId \in Nat /\ identity = nodeId
  /\ phase = "up" => usedId = nodeId
  /\ ackedVariable # NoFile => variable = ackedVariable
  /\ phase \in {"identity", "layer", "up"} => nodeName = advert \/ nameUnsaved

LEMMA InitValue == Init => ValueInv
BY StoresAssumption DEF Init, ValueInv

\* Every boot step finds what the last boot left, or stores what it uses.
LEMMA NextValue == ValueInv /\ [Next]_vars => ValueInv'
<1> SUFFICES ASSUME ValueInv, [Next]_vars PROVE ValueInv'
  OBVIOUS
<1> USE StoresAssumption DEF ValueInv
<1>1. ASSUME UNCHANGED <<flashed, node, ackedVariable, usedId, nameUnsaved, phase, crashes>>
      PROVE  ValueInv'
  BY <1>1 DEF flashed, node
<1>2. ASSUME UNCHANGED <<variable, advert, identity, ackedVariable, usedId>>, Reboot,
             crashes' \in Nat
      PROVE  ValueInv'
  BY <1>2 DEF Reboot
<1>3. CASE Boot
  <2>1. CASE Load
    BY <2>1 DEF Load, flashed, node, acked, sinceBoot, counters
  <2>2. ASSUME NEW done \in BOOLEAN, DefaultChannel(done) PROVE ValueInv'
    <3>1. /\ UNCHANGED <<flashed, node, ackedVariable, usedId, nameUnsaved, crashes>>
          /\ phase' \in {"defaults", "variables"}
      BY <2>2 DEF DefaultChannel, acked
    <3>2. QED
      BY <3>1 DEF flashed, node
  <2>3. CASE DefaultVariable
    BY <2>3 DEF DefaultVariable, StoredOr, node, acked, sinceBoot, counters
  <2>4. CASE LoadAdvert
    BY <2>4 DEF LoadAdvert, acked, sinceBoot, counters
  <2>5. CASE LoadIdentity
    BY <2>5 DEF LoadIdentity, StoredOr, Fresh, acked, sinceBoot, counters
  <2>6. CASE LayerChannel
    <3>1. /\ UNCHANGED <<flashed, node, ackedVariable, nameUnsaved, crashes>>
          /\ phase = "layer"
          /\ \/ phase' = "up" /\ usedId' = IF usedId = NoIdentity THEN nodeId ELSE usedId
             \/ UNCHANGED <<phase, usedId>>
      BY <2>6 DEF LayerChannel, acked, counters
    <3>2. QED
      BY <3>1 DEF flashed, node
  <2>7. QED
    BY <1>3, <2>1, <2>2, <2>3, <2>4, <2>5, <2>6 DEF Boot
<1>4. CASE BootFails
  <2>1. UNCHANGED <<variable, advert, identity, ackedVariable, usedId, crashes>> /\ Reboot
    BY <1>4 DEF BootFails, flashed, acked
  <2>2. QED
    BY <1>2, <2>1
<1>5. CASE PowerLoss
  <2>1. Reboot /\ usedId' = usedId /\ crashes' \in Nat
    BY <1>5 DEF PowerLoss
  <2>2. CASE UNCHANGED <<variable, advert, identity, ackedVariable>>
    BY <1>2, <2>1, <2>2
  <2>3. CASE CutContact \/ CutChannel
    BY <2>2, <2>3 DEF CutContact, CutChannel, flashed
  <2>4. CASE CutValue
    <3>1. /\ identity' \in {identity, StoredOr(identity, Fresh)}
          /\ ackedVariable' = IF variable' = variable THEN ackedVariable ELSE NoFile
      BY <2>4 DEF CutValue
    <3>2. /\ phase' = "load" /\ nodeId' = NoIdentity /\ nameUnsaved' = FALSE
      BY <2>1 DEF Reboot
    <3>3. QED
      BY <2>1, <3>1, <3>2 DEF StoredOr, Fresh
  <2>5. QED
    BY <1>5, <2>2, <2>3, <2>4 DEF PowerLoss, flashed, acked
<1>6. ASSUME NEW done \in BOOLEAN, Command(done) PROVE ValueInv'
  <2>1. ASSUME NEW k \in Key, NEW p \in Route, PutContact(k, p, done) PROVE ValueInv'
    BY <1>1, <2>1 DEF PutContact, Operation, boot, sinceBoot
  <2>2. ASSUME NEW k \in Key, ResetPath(k, done) PROVE ValueInv'
    BY <1>1, <2>2 DEF ResetPath, Operation, boot, sinceBoot
  <2>3. ASSUME NEW c \in ClientChannels, SetChannel(c.idx, c.channel, done) PROVE ValueInv'
    BY <1>1, <2>3 DEF SetChannel, Operation, boot
  <2>4. ASSUME NEW t \in Text, SetVariable(t, done) PROVE ValueInv'
    BY <2>4 DEF SetVariable, Operation, boot, node, sinceBoot
  <2>5. ASSUME NEW t \in Text, SetAdvertName(t, done) PROVE ValueInv'
    BY <2>5 DEF SetAdvertName, Operation, boot, acked
  <2>6. CASE KeepPath(done)
    BY <1>1, <2>6 DEF KeepPath, boot, sinceBoot
  <2>7. QED
    BY <1>6, <2>1, <2>2, <2>3, <2>4, <2>5, <2>6 DEF Command
<1>7. ASSUME NEW k \in Key, RemoveContact(k) PROVE ValueInv'
  BY <1>1, <1>7 DEF RemoveContact, Operation, boot, sinceBoot
<1>8. ASSUME NEW k \in Key, ResetPathPanics(k) PROVE ValueInv'
  BY <1>2, <1>8 DEF ResetPathPanics, flashed, acked
<1>9. ASSUME NEW k \in Key, NEW p \in Path, HearPath(k, p) PROVE ValueInv'
  BY <1>1, <1>9 DEF HearPath, Operation, boot, acked, sinceBoot
<1>10. CASE UNCHANGED vars
  BY <1>1, <1>10 DEF vars, boot, acked, sinceBoot, counters
<1>11. QED
  BY <1>3, <1>4, <1>5, <1>6, <1>7, <1>8, <1>9, <1>10 DEF Next

\* However often power is lost while the first identity is generated and stored,
\* the node never serves with an identity and comes up with another one
\* (gen_main.rs:109-124).
THEOREM OneIdentity == Spec => []IdentityKept
<1>1. ValueInv => IdentityKept
  BY DEF ValueInv, IdentityKept
<1>2. QED
  BY <1>1, InitValue, NextValue, PTL DEF Spec

\* No boot writes over a client's variable, and a name in use that is not on
\* flash was not stored (gen_main.rs:168-177,
\* companion_proto_handler.rs:210-219).
THEOREM SettingsAreKept == Spec => []SettingsKept
<1>1. ValueInv => SettingsKept
  BY DEF ValueInv, SettingsKept
<1>2. QED
  BY <1>1, InitValue, NextValue, PTL DEF Spec
-----------------------------------------------------------------------------
(***************************************************************************)
(* Contacts.                                                               *)
(***************************************************************************)

\* What is cached is on flash, and what was acknowledged is on flash and listed.
ContactInv ==
  /\ ContactTypeOK
  /\ ackedContact \in [Key -> Route \cup {NotCached}]
  /\ CachedIsStored
  /\ \A k \in Key : ackedContact[k] # NotCached =>
       /\ k \in contactDir.index /\ contactDir.item[k] = ackedContact[k]
       /\ Booting => Known(k) \/ Gap(contactDir, HashOfKey, k)

\* The directories that a `set` may leave, by their parts.
LEMMA StoredParts ==
  ASSUME NEW N, NEW V, NEW d \in Directory(N, V), NEW n \in N, NEW v \in V
  PROVE  /\ Stored(d, n, v) \in Directory(N, V)
         /\ Stored(d, n, v).index = d.index \cup {n}
         /\ Stored(d, n, v).item = [d.item EXCEPT ![n] = v]
BY DEF Stored, Listed, Directory

LEMMA HalfStoredParts ==
  ASSUME NEW N, NEW V, NEW d \in Directory(N, V), NEW n \in N, NEW e \in HalfStored(d, n)
  PROVE  e \in Directory(N, V) /\ d.index \subseteq e.index /\ e.item = d.item
BY DEF HalfStored, Listed, Directory

LEMMA CutShortParts ==
  ASSUME NEW N, NEW V, NEW d \in Directory(N, V), NEW n \in N, NEW v \in V,
         NEW e \in CutShort(d, n, v)
  PROVE  /\ e \in Directory(N, V) /\ d.index \subseteq e.index
         /\ e.item \in {d.item, [d.item EXCEPT ![n] = v]}
<1>1. CASE e \in HalfStored(d, n)
  <2>1. e \in Directory(N, V) /\ d.index \subseteq e.index /\ e.item = d.item
    BY <1>1, HalfStoredParts
  <2>2. QED
    BY <2>1
<1>2. CASE e = Stored(d, n, v)
  <2>1. /\ e \in Directory(N, V) /\ e.index = d.index \cup {n}
        /\ e.item = [d.item EXCEPT ![n] = v]
    BY <1>2, StoredParts
  <2>2. QED
    BY <2>1
<1>3. QED
  BY <1>1, <1>2 DEF CutShort

LEMMA UnlistedParts ==
  ASSUME NEW N, NEW V, NEW d \in Directory(N, V), NEW n \in N
  PROVE  /\ Unlisted(d, n) \in Directory(N, V) /\ Unlisted(d, n).item = d.item
         /\ Unlisted(d, n).index = d.index \ {n}
BY DEF Unlisted, Directory

LEMMA InitContact == Init => ContactInv
<1> SUFFICES ASSUME Init PROVE ContactInv
  OBVIOUS
<1> USE StoresAssumption DEF Init, ContactInit
<1>1. ContactTypeOK
  BY DEF ContactTypeOK, EmptyDirectory, Directory
<1>2. CachedIsStored
  BY DEF CachedIsStored, Known
<1>3. QED
  BY <1>1, <1>2 DEF ContactInv

\* An insertion that ends in any way, and the acknowledgement that goes with it.
LEMMA InsertContact ==
  ASSUME ContactInv, phase = "up", phase' \in {"up", "load"}, NEW k \in Key, NEW p \in Route,
         \/ Inserted(k, p) /\ ackedContact' = [ackedContact EXCEPT ![k] = p]
         \/ NotInserted(k, p) /\ UNCHANGED ackedContact,
         returned' \in {returned, NoReturn}, contactsHeld' = contactsHeld
  PROVE  ContactInv'
<1> USE StoresAssumption
<1>1. contactDir \in Directory(Key, Route) /\ ~Booting'
  BY DEF ContactInv, ContactTypeOK, Booting
<1>2. CASE Inserted(k, p) /\ ackedContact' = [ackedContact EXCEPT ![k] = p]
  <2>1. /\ contactDir' \in Directory(Key, Route)
        /\ contactDir'.index = contactDir.index \cup {k}
        /\ contactDir'.item = [contactDir.item EXCEPT ![k] = p]
        /\ hotCache' = [hotCache EXCEPT ![k] = p]
    BY <1>1, <1>2, StoredParts DEF Inserted
  <2>2. /\ contactDir.item \in [Key -> Route \cup {NoFile}]
        /\ hotCache \in [Key -> Route \cup {NotCached}]
        /\ returned \in [key : Key, path : Path] \cup {NoReturn}
    BY DEF ContactInv, ContactTypeOK, Directory
  <2>3. ContactTypeOK'
    BY <2>1, <2>2 DEF ContactInv, ContactTypeOK
  <2>4. CachedIsStored'
    BY <2>1, <2>2 DEF ContactInv, CachedIsStored, Known
  <2>5. QED
    BY <1>1, <1>2, <2>1, <2>2, <2>3, <2>4 DEF ContactInv
<1>3. CASE NotInserted(k, p) /\ UNCHANGED ackedContact
  <2>1. /\ contactDir' \in Directory(Key, Route)
        /\ contactDir.index \subseteq contactDir'.index
        /\ contactDir'.item = contactDir.item
        /\ hotCache' = hotCache
    BY <1>1, <1>3, HalfStoredParts DEF NotInserted
  <2>2. ContactTypeOK'
    BY <2>1 DEF ContactInv, ContactTypeOK
  <2>3. CachedIsStored'
    BY <2>1 DEF ContactInv, CachedIsStored, Known
  <2>4. QED
    BY <1>1, <1>3, <2>1, <2>2, <2>3 DEF ContactInv
<1>4. QED
  BY <1>2, <1>3

\* A reboot with what it leaves on flash.
LEMMA RebootContact ==
  ASSUME ContactInv, Reboot, contactDir' \in Directory(Key, Route),
         ackedContact' \in [Key -> Route \cup {NotCached}],
         \A k \in Key : ackedContact'[k] # NotCached =>
           k \in contactDir'.index /\ contactDir'.item[k] = ackedContact'[k]
  PROVE  ContactInv'
<1>1. /\ hotCache' = [k \in Key |-> NotCached] /\ returned' = NoReturn /\ contactsHeld' = FALSE
      /\ ~Booting'
  BY DEF Reboot, ForgetContacts, Booting
<1>2. CachedIsStored'
  BY <1>1 DEF CachedIsStored, Known
<1>3. ContactTypeOK'
  BY <1>1 DEF ContactTypeOK
<1>4. QED
  BY <1>1, <1>2, <1>3 DEF ContactInv

\* Loading the cache from any directory.
LEMMA LoadContact ==
  ASSUME ContactInv, Load PROVE ContactInv'
<1> USE StoresAssumption
<1>1. /\ hotCache' = [k \in Key |-> IF k \in Yielded(contactDir, HashOfKey)
                                      THEN contactDir.item[k] ELSE NotCached]
      /\ UNCHANGED <<contactDir, returned, contactsHeld, ackedContact>>
  BY DEF Load, LoadContacts, acked
<1>2. /\ contactDir \in Directory(Key, Route) /\ contactDir.index \subseteq Key
      /\ contactDir.item \in [Key -> Route \cup {NoFile}]
  BY DEF ContactInv, ContactTypeOK, Directory
<1>3. \A k \in Key : k \in Yielded(contactDir, HashOfKey) =>
        contactDir.item[k] \in Route /\ hotCache'[k] = contactDir.item[k]
  BY <1>1, <1>2, KeyAssumption DEF Yielded
<1>4. ContactTypeOK'
  BY <1>1, <1>3 DEF ContactInv, ContactTypeOK
<1>5. CachedIsStored'
  BY <1>1, <1>3 DEF ContactInv, CachedIsStored, Known
<1>6. ASSUME NEW k \in Key, ackedContact[k] # NotCached
      PROVE  Known(k)' \/ Gap(contactDir, HashOfKey, k)'
  <2>1. k \in contactDir.index /\ contactDir.item[k] # NoFile
    BY <1>6 DEF ContactInv
  <2>2. CASE k \in Yielded(contactDir, HashOfKey)
    BY <1>3, <2>2 DEF Known
  <2>3. CASE k \notin Yielded(contactDir, HashOfKey)
    <3>1. PICK m \in contactDir.index :
            HashOfKey[m] <= HashOfKey[k] /\ contactDir.item[m] = NoFile
      BY <2>1, <2>3 DEF Yielded
    <3>2. HashOfKey[m] < HashOfKey[k]
      BY <1>2, <2>1, <3>1, KeyAssumption
    <3>3. QED
      BY <1>1, <3>1, <3>2 DEF Gap
  <2>4. QED
    BY <2>2, <2>3
<1>7. QED
  BY <1>1, <1>4, <1>5, <1>6 DEF ContactInv

\* Every step keeps cache, flash and acknowledgements together.
LEMMA NextContact == ContactInv /\ [Next]_vars => ContactInv'
<1> SUFFICES ASSUME ContactInv, [Next]_vars PROVE ContactInv'
  OBVIOUS
<1> USE StoresAssumption
<1>1. ASSUME UNCHANGED <<contactVars, ackedContact>>, Booting' => Booting
      PROVE  ContactInv'
  BY <1>1 DEF contactVars, ContactInv, ContactTypeOK, CachedIsStored, Known, Gap
<1>2. ASSUME UNCHANGED <<contactDir, ackedContact>>, Reboot PROVE ContactInv'
  BY <1>2, RebootContact DEF ContactInv, ContactTypeOK
<1>3. CASE Boot
  <2>1. CASE Load
    BY <2>1, LoadContact
  <2>2. ASSUME NEW done \in BOOLEAN, DefaultChannel(done) PROVE ContactInv'
    BY <1>1, <2>2 DEF DefaultChannel, acked, Booting
  <2>3. CASE DefaultVariable \/ LoadAdvert \/ LoadIdentity
    BY <1>1, <2>3 DEF DefaultVariable, LoadAdvert, LoadIdentity, acked, Booting
  <2>4. CASE LayerChannel
    BY <1>1, <2>4 DEF LayerChannel, acked, Booting
  <2>5. QED
    BY <1>3, <2>1, <2>2, <2>3, <2>4 DEF Boot
<1>4. CASE BootFails
  BY <1>2, <1>4 DEF BootFails, acked
<1>5. CASE PowerLoss
  <2>1. Reboot
    BY <1>5 DEF PowerLoss
  <2>2. CASE UNCHANGED <<contactDir, ackedContact>>
    BY <1>2, <2>1, <2>2
  <2>3. CASE CutChannel \/ CutValue
    BY <2>2, <2>3 DEF CutChannel, CutValue
  <2>4. CASE CutContact
    <3>1. PICK k \in Key, p \in Route :
            /\ contactDir' \in CutShort(contactDir, k, p)
            /\ ackedContact' = IF contactDir'.item = contactDir.item THEN ackedContact
                               ELSE [ackedContact EXCEPT ![k] = NotCached]
      BY <2>4 DEF CutContact
    <3>2. contactDir \in Directory(Key, Route) /\ contactDir.item \in [Key -> Route \cup {NoFile}]
      BY DEF ContactInv, ContactTypeOK, Directory
    <3>3. /\ contactDir' \in Directory(Key, Route)
          /\ contactDir.index \subseteq contactDir'.index
          /\ contactDir'.item \in {contactDir.item, [contactDir.item EXCEPT ![k] = p]}
      BY <3>1, <3>2, CutShortParts
    <3>4. ackedContact' \in [Key -> Route \cup {NotCached}]
      BY <3>1 DEF ContactInv
    <3>5. \A l \in Key : ackedContact'[l] # NotCached =>
            l \in contactDir'.index /\ contactDir'.item[l] = ackedContact'[l]
      BY <3>1, <3>2, <3>3 DEF ContactInv
    <3>6. QED
      BY <2>1, <3>3, <3>4, <3>5, RebootContact
  <2>5. QED
    BY <1>5, <2>2, <2>3, <2>4 DEF PowerLoss, acked
<1>6. ASSUME NEW done \in BOOLEAN, Command(done) PROVE ContactInv'
  <2>1. ASSUME NEW k \in Key, NEW p \in Route, PutContact(k, p, done) PROVE ContactInv'
    <3>1. /\ phase = "up" /\ phase' = "up" /\ returned' = returned /\ contactsHeld' = contactsHeld
          /\ \/ Inserted(k, p) /\ ackedContact' = [ackedContact EXCEPT ![k] = p]
             \/ NotInserted(k, p) /\ UNCHANGED ackedContact
      BY <2>1 DEF PutContact, NewContact, Operation, boot
    <3>2. QED
      BY <3>1, InsertContact
  <2>2. ASSUME NEW k \in Key, ResetPath(k, done) PROVE ContactInv'
    <3>1. /\ phase = "up" /\ phase' = "up" /\ returned' = returned /\ contactsHeld' = contactsHeld
          /\ \/ Inserted(k, NoPath) /\ ackedContact' = [ackedContact EXCEPT ![k] = NoPath]
             \/ NotInserted(k, NoPath) /\ UNCHANGED ackedContact
      BY <2>2 DEF ResetPath, ForgetPath, Operation, boot
    <3>2. NoPath \in Route
      BY DEF Route
    <3>3. QED
      BY <3>1, <3>2, InsertContact
  <2>3. ASSUME NEW c \in ClientChannels, SetChannel(c.idx, c.channel, done) PROVE ContactInv'
    BY <1>1, <2>3 DEF SetChannel, Operation, boot, Booting
  <2>4. ASSUME NEW t \in Text, SetVariable(t, done) \/ SetAdvertName(t, done) PROVE ContactInv'
    BY <1>1, <2>4 DEF SetVariable, SetAdvertName, Operation, boot, acked, Booting
  <2>5. CASE KeepPath(done)
    <3>1. /\ phase = "up" /\ phase' = "up" /\ returned' = NoReturn /\ contactsHeld' = contactsHeld
          /\ returned # NoReturn
          /\ \/ /\ Inserted(returned.key, returned.path)
                /\ ackedContact' = [ackedContact EXCEPT ![returned.key] = returned.path]
             \/ NotInserted(returned.key, returned.path) /\ UNCHANGED ackedContact
      BY <2>5 DEF KeepPath, StorePath, boot
    <3>2. returned.key \in Key /\ returned.path \in Route
      BY <3>1 DEF ContactInv, ContactTypeOK, Route
    <3>3. QED
      BY <3>1, <3>2, InsertContact
  <2>6. QED
    BY <1>6, <2>1, <2>2, <2>3, <2>4, <2>5 DEF Command
<1>7. ASSUME NEW k \in Key, RemoveContact(k) PROVE ContactInv'
  <2>1. /\ phase' = "up" /\ returned' = returned /\ contactsHeld' \in BOOLEAN
        /\ hotCache' = [hotCache EXCEPT ![k] = NotCached]
        /\ contactDir' \in {contactDir, Unlisted(contactDir, k)}
        /\ ackedContact' = [ackedContact EXCEPT ![k] = NotCached]
    BY <1>7 DEF RemoveContact, Delete, DeleteFails, Operation, boot, ContactInv, ContactTypeOK
  <2>2. contactDir \in Directory(Key, Route) /\ contactDir.item \in [Key -> Route \cup {NoFile}]
    BY DEF ContactInv, ContactTypeOK, Directory
  <2>4. /\ contactDir' \in Directory(Key, Route) /\ contactDir'.item = contactDir.item
        /\ contactDir.index \ {k} \subseteq contactDir'.index
    BY <2>1, <2>2, UnlistedParts
  <2>5. ContactTypeOK'
    BY <2>1, <2>4 DEF ContactInv, ContactTypeOK
  <2>6. CachedIsStored'
    BY <2>1, <2>2, <2>4 DEF ContactInv, ContactTypeOK, CachedIsStored, Known
  <2>7. ~Booting'
    BY <2>1 DEF Booting
  <2>8. QED
    BY <2>1, <2>2, <2>4, <2>5, <2>6, <2>7 DEF ContactInv
<1>8. ASSUME NEW k \in Key, ResetPathPanics(k) PROVE ContactInv'
  BY <1>2, <1>8 DEF ResetPathPanics, acked
<1>9. ASSUME NEW k \in Key, NEW p \in Path, HearPath(k, p) PROVE ContactInv'
  <2>1. /\ UNCHANGED <<contactDir, hotCache, contactsHeld, ackedContact, phase>>
        /\ Known(k) /\ returned' = [key |-> k, path |-> p]
    BY <1>9 DEF HearPath, FindSender, Operation, boot, acked
  <2>2. hotCache[k] \in Route
    BY <2>1 DEF ContactInv, ContactTypeOK, Known
  <2>3. CachedIsStored'
    BY <2>1, <2>2 DEF ContactInv, CachedIsStored, Known
  <2>4. ContactTypeOK'
    BY <2>1 DEF ContactInv, ContactTypeOK
  <2>5. QED
    BY <2>1, <2>3, <2>4 DEF ContactInv, Booting, Known, Gap
<1>10. CASE UNCHANGED vars
  BY <1>1, <1>10 DEF vars, boot, acked, Booting
<1>11. QED
  BY <1>3, <1>4, <1>5, <1>6, <1>7, <1>8, <1>9, <1>10 DEF Next

\* The cache never claims what flash does not have, so nobody who found a
\* contact unwraps a missing file (contact.rs:73-105, mod.rs:676).
THEOREM ContactCacheIsStored == Spec => []CachedIsStored
<1>1. ContactInv => CachedIsStored
  BY DEF ContactInv
<1>2. QED
  BY <1>1, InitContact, NextContact, PTL DEF Spec

\* A contact that was acknowledged stays on flash with its path until it is
\* removed, and is loaded unless a gap comes before it (contact.rs:39-61).
THEOREM ContactsAreKept == Spec => []ContactsSurvive
<1>1. ContactInv => ContactsSurvive
  BY DEF ContactInv, ContactsSurvive
<1>2. QED
  BY <1>1, InitContact, NextContact, PTL DEF Spec
-----------------------------------------------------------------------------
(***************************************************************************)
(* Channels.                                                               *)
(***************************************************************************)

\* A finite set of numbers has a greatest one: the one with the fewest above it.
LEMMA LastOfMember ==
  ASSUME NEW S \in SUBSET Idx
  PROVE  IF S = {} THEN LastOf(S) = NoIdx ELSE LastOf(S) \in S
<1> DEFINE Above(x) == {y \in S : y > x}
<1>1. SUFFICES ASSUME S # {} PROVE LastOf(S) \in S
  BY DEF LastOf
<1>2. IsFiniteSet(S) /\ S \subseteq Nat
  BY FS_Subset, IndexAssumption
<1>3. IsWellFoundedOn(StrictSubsetOrdering(S), FiniteSubsetsOf(S))
  BY <1>2, FS_StrictSubsetOrderingWellFounded
<1> DEFINE T == {Above(x) : x \in S}
<1>4. T \subseteq FiniteSubsetsOf(S) /\ T # {}
  <2>1. \A x \in S : Above(x) \subseteq S
    OBVIOUS
  <2>2. \A x \in S : IsFiniteSet(Above(x))
    BY <1>2, <2>1, FS_Subset
  <2>3. QED
    BY <1>1, <2>1, <2>2 DEF FiniteSubsetsOf
<1> HIDE DEF T
<1>5. \E A \in T : \A B \in T : ~(<<B, A>> \in StrictSubsetOrdering(S))
  BY <1>3, <1>4, WFMin, Zenon
<1>6. PICK x \in S : \A y \in S : ~(<<Above(y), Above(x)>> \in StrictSubsetOrdering(S))
  BY <1>5 DEF T
<1>7. ASSUME NEW y \in S PROVE x >= y
  <2>1. CASE y > x
    <3>1. ASSUME NEW z \in Above(y) PROVE z \in Above(x)
      <4>1. z \in S /\ z \in Nat /\ y \in Nat /\ x \in Nat /\ z > y
        BY <1>2
      <4>2. z > x
        BY <2>1, <4>1
      <4>3. QED
        BY <4>1, <4>2
    <3>2. y \in Above(x) /\ y \notin Above(y)
      BY <1>2, <2>1
    <3>3. Above(y) \subseteq S /\ Above(x) \subseteq S /\ Above(y) # Above(x)
      BY <3>2
    <3>4. <<Above(y), Above(x)>> \in StrictSubsetOrdering(S)
      BY <3>1, <3>3 DEF StrictSubsetOrdering
    <3>5. QED
      BY <1>6, <3>4
  <2>2. QED
    BY <1>2, <2>1
<1>8. QED
  BY <1>1, <1>7 DEF LastOf, Max

\* What is cached is on flash and listed; what the maps lead to is a channel,
\* which has the hash or name unless it replaced another one.
StoreInv ==
  /\ ChannelTypeOK /\ replaced \subseteq Idx
  /\ \A i \in Idx : cache[i] # NoChannel =>
       /\ i \in channelDir.index /\ channelDir.item[i] = cache[i]
       /\ byHash[HashOf[cache[i].key]] # NoIdx /\ byName[cache[i].name] # NoIdx
  /\ \A h \in Hash : byHash[h] # NoIdx =>
       /\ cache[byHash[h]] # NoChannel
       /\ byHash[h] \in replaced \/ HashOf[cache[byHash[h]].key] = h
  /\ \A n \in Name : byName[n] # NoIdx =>
       /\ cache[byName[n]] # NoChannel
       /\ byName[n] \in replaced \/ cache[byName[n]].name = n

LEMMA ChannelParts ==
  StoreInv => /\ channelDir \in Directory(Idx, Channel) /\ channelDir.index \subseteq Idx
              /\ channelDir.item \in [Idx -> Channel \cup {NoFile}]
              /\ cache \in [Idx -> Channel \cup {NoChannel}]
              /\ byHash \in [Hash -> Idx \cup {NoIdx}]
              /\ byName \in [Name -> Idx \cup {NoIdx}]
BY DEF StoreInv, ChannelTypeOK, Directory

LEMMA ChannelFields ==
  \A c \in Channel : c.name \in Name /\ c.key \in Secret /\ HashOf[c.key] \in Hash
BY DEF Channel, Hash

LEMMA InitStore == Init => StoreInv
<1> SUFFICES ASSUME Init PROVE StoreInv
  OBVIOUS
<1>1. ChannelTypeOK
  BY DEF Init, ChannelInit, ChannelTypeOK, EmptyDirectory, Directory, EmptyMaps
<1>2. QED
  BY <1>1 DEF Init, ChannelInit, EmptyMaps, StoreInv

\* An insertion, for which the maps lead to the channel from then on.
LEMMA InsertKeepsStore ==
  ASSUME StoreInv, NEW i \in Idx, NEW c \in Channel, InsertChannel(i, c),
         replaced' = replaced \cup Replaces(i, c)
  PROVE  /\ StoreInv'
         /\ channelDir.index \subseteq channelDir'.index
         /\ i \in channelDir'.index /\ channelDir'.item[i] = c
         /\ \A j \in Idx : j # i => channelDir'.item[j] = channelDir.item[j]
<1> USE StoresAssumption
<1>1. CASE cache[i] = c
  <2>1. UNCHANGED channelVars /\ Replaces(i, c) = {}
    BY <1>1 DEF InsertChannel, Replaces
  <2>2. StoreInv'
    BY <2>1 DEF channelVars, StoreInv, ChannelTypeOK
  <2>3. QED
    BY <1>1, <2>1, <2>2 DEF channelVars, StoreInv
<1>2. CASE cache[i] # c
  <2> DEFINE h == HashOf[c.key]
  <2>1. /\ channelDir' = Stored(channelDir, i, c)
        /\ cache' = [cache EXCEPT ![i] = c]
        /\ byHash' = [byHash EXCEPT ![h] = i]
        /\ byName' = [byName EXCEPT ![c.name] = i]
    BY <1>2 DEF InsertChannel
  <2>2. /\ channelDir' \in Directory(Idx, Channel)
        /\ channelDir'.index = channelDir.index \cup {i}
        /\ channelDir'.item = [channelDir.item EXCEPT ![i] = c]
    BY <2>1, ChannelParts, StoredParts
  <2>3. h \in Hash /\ c.name \in Name
    BY ChannelFields
  <2> HIDE DEF h
  <2>4. /\ cache' \in [Idx -> Channel \cup {NoChannel}]
        /\ byHash' \in [Hash -> Idx \cup {NoIdx}] /\ byName' \in [Name -> Idx \cup {NoIdx}]
    BY <2>1, ChannelParts
  <2>5. ChannelTypeOK'
    BY <2>2, <2>4 DEF ChannelTypeOK
  <2>6. replaced' \subseteq Idx /\ replaced \subseteq replaced'
    BY DEF StoreInv, Replaces
  <2>7. cache[i] # NoChannel => i \in replaced'
    BY <1>2 DEF Replaces
  <2>8. ASSUME NEW j \in Idx, cache'[j] # NoChannel
        PROVE  /\ j \in channelDir'.index /\ channelDir'.item[j] = cache'[j]
               /\ byHash'[HashOf[cache'[j].key]] # NoIdx /\ byName'[cache'[j].name] # NoIdx
    <3>1. CASE j = i
      <4>1. cache'[j] = c
        BY <2>1, <3>1, ChannelParts
      <4>2. byHash'[h] = i /\ byName'[c.name] = i
        BY <2>1, <2>3, ChannelParts
      <4>3. QED
        BY <2>2, <3>1, <4>1, <4>2, ChannelParts DEF h
    <3>2. CASE j # i
      <4>1. cache'[j] = cache[j] /\ cache[j] \in Channel
        BY <2>1, <2>8, <3>2, ChannelParts
      <4>2. HashOf[cache[j].key] \in Hash /\ cache[j].name \in Name
        BY <4>1, ChannelFields
      <4>3. /\ byHash[HashOf[cache[j].key]] # NoIdx /\ byName[cache[j].name] # NoIdx
            /\ j \in channelDir.index /\ channelDir.item[j] = cache[j]
        BY <2>8, <4>1 DEF StoreInv
      <4>4. QED
        BY <2>1, <2>2, <3>2, <4>1, <4>2, <4>3, ChannelParts
    <3>3. QED
      BY <3>1, <3>2
  <2>9. ASSUME NEW g \in Hash, byHash'[g] # NoIdx
        PROVE  /\ cache'[byHash'[g]] # NoChannel
               /\ byHash'[g] \in replaced' \/ HashOf[cache'[byHash'[g]].key] = g
    <3>1. CASE g = h
      <4>1. byHash'[g] = i /\ cache'[i] = c
        BY <2>1, <2>3, <3>1, ChannelParts
      <4>2. QED
        BY <3>1, <4>1 DEF h
    <3>2. CASE g # h
      <4>1. byHash'[g] = byHash[g] /\ byHash[g] \in Idx
        BY <2>1, <2>9, <3>2, ChannelParts
      <4>2. /\ cache[byHash[g]] # NoChannel
            /\ byHash[g] \in replaced \/ HashOf[cache[byHash[g]].key] = g
        BY <2>9, <4>1 DEF StoreInv
      <4>3. CASE byHash[g] = i
        BY <2>1, <2>7, <4>1, <4>2, <4>3, ChannelParts
      <4>4. CASE byHash[g] # i
        BY <2>1, <2>6, <4>1, <4>2, <4>4, ChannelParts
      <4>5. QED
        BY <4>3, <4>4
    <3>3. QED
      BY <3>1, <3>2
  <2>10. ASSUME NEW n \in Name, byName'[n] # NoIdx
        PROVE  /\ cache'[byName'[n]] # NoChannel
               /\ byName'[n] \in replaced' \/ cache'[byName'[n]].name = n
    <3>1. CASE n = c.name
      <4>1. byName'[n] = i /\ cache'[i] = c
        BY <2>1, <2>3, <3>1, ChannelParts
      <4>2. QED
        BY <3>1, <4>1
    <3>2. CASE n # c.name
      <4>1. byName'[n] = byName[n] /\ byName[n] \in Idx
        BY <2>1, <2>10, <3>2, ChannelParts
      <4>2. /\ cache[byName[n]] # NoChannel
            /\ byName[n] \in replaced \/ cache[byName[n]].name = n
        BY <2>10, <4>1 DEF StoreInv
      <4>3. CASE byName[n] = i
        BY <2>1, <2>7, <4>1, <4>2, <4>3, ChannelParts
      <4>4. CASE byName[n] # i
        BY <2>1, <2>6, <4>1, <4>2, <4>4, ChannelParts
      <4>5. QED
        BY <4>3, <4>4
    <3>3. QED
      BY <3>1, <3>2
  <2>11. StoreInv'
    BY <2>5, <2>6, <2>8, <2>9, <2>10 DEF StoreInv
  <2>12. QED
    BY <2>2, <2>11, ChannelParts
<1>3. QED
  BY <1>1, <1>2

\* A directory that lists more and has the same files.
LEMMA ListedKeepsStore ==
  ASSUME StoreInv, channelDir' \in Directory(Idx, Channel),
         channelDir.index \subseteq channelDir'.index, channelDir'.item = channelDir.item,
         UNCHANGED <<cache, byHash, byName, replaced>>
  PROVE  StoreInv'
<1>1. ChannelTypeOK'
  BY DEF StoreInv, ChannelTypeOK
<1>2. QED
  BY <1>1 DEF StoreInv

LEMMA RebootKeepsStore ==
  ASSUME Reboot, channelDir' \in Directory(Idx, Channel)
  PROVE  StoreInv'
<1>1. /\ cache' = [i \in Idx |-> NoChannel] /\ replaced' = {}
      /\ byHash' = [h \in Hash |-> NoIdx] /\ byName' = [n \in Name |-> NoIdx]
  BY DEF Reboot, ForgetChannels, EmptyMaps
<1>2. ChannelTypeOK'
  BY <1>1 DEF ChannelTypeOK
<1>3. QED
  BY <1>1, <1>2 DEF StoreInv

\* The load: each map leads to the last channel that has the hash or name.
LEMMA LoadKeepsStore ==
  ASSUME StoreInv, Load
  PROVE  /\ StoreInv'
         /\ \A i \in Idx : i \in Yielded(channelDir, HashOfIdx) =>
              cache'[i] = channelDir.item[i]
<1> USE StoresAssumption
<1> DEFINE c == [i \in Idx |-> IF i \in Yielded(channelDir, HashOfIdx)
                               THEN channelDir.item[i] ELSE NoChannel]
           loaded == {i \in Idx : c[i] # NoChannel}
           OfHash(h) == {i \in loaded : HashOf[c[i].key] = h}
           OfName(n) == {i \in loaded : c[i].name = n}
<1>1. /\ cache' = c /\ UNCHANGED <<channelDir, replaced>>
      /\ byHash' = [h \in Hash |-> LastOf(OfHash(h))]
      /\ byName' = [n \in Name |-> LastOf(OfName(n))]
  BY DEF Load, LoadChannels, sinceBoot
<1>2. \A i \in Idx : i \in Yielded(channelDir, HashOfIdx) =>
        i \in channelDir.index /\ channelDir.item[i] \in Channel
  BY ChannelParts, IndexAssumption DEF Yielded
<1>3. c \in [Idx -> Channel \cup {NoChannel}]
  BY <1>2
<1>4. \A i \in loaded : /\ i \in channelDir.index /\ channelDir.item[i] = c[i]
                        /\ c[i] \in Channel
  BY <1>2, <1>3
<1> HIDE DEF c
<1>5. \A h \in Hash : IF OfHash(h) = {} THEN LastOf(OfHash(h)) = NoIdx
                      ELSE LastOf(OfHash(h)) \in OfHash(h)
  BY LastOfMember
<1>6. \A n \in Name : IF OfName(n) = {} THEN LastOf(OfName(n)) = NoIdx
                      ELSE LastOf(OfName(n)) \in OfName(n)
  BY LastOfMember
<1>7. ChannelTypeOK'
  <2>1. byHash' \in [Hash -> Idx \cup {NoIdx}]
    BY <1>1, <1>5
  <2>2. byName' \in [Name -> Idx \cup {NoIdx}]
    BY <1>1, <1>6
  <2>3. QED
    BY <1>1, <1>3, <2>1, <2>2, ChannelParts DEF ChannelTypeOK
<1>8. ASSUME NEW i \in Idx, c[i] # NoChannel
      PROVE  /\ i \in channelDir.index /\ channelDir.item[i] = c[i]
             /\ byHash'[HashOf[c[i].key]] # NoIdx /\ byName'[c[i].name] # NoIdx
  <2>1. i \in loaded /\ c[i] \in Channel
    BY <1>4, <1>8
  <2>2. HashOf[c[i].key] \in Hash /\ c[i].name \in Name
    BY <2>1, ChannelFields
  <2>3. i \in OfHash(HashOf[c[i].key]) /\ i \in OfName(c[i].name)
    BY <2>1
  <2>4. /\ LastOf(OfHash(HashOf[c[i].key])) \in Idx
        /\ LastOf(OfName(c[i].name)) \in Idx
    BY <1>5, <1>6, <2>2, <2>3
  <2>5. QED
    BY <1>1, <1>4, <2>1, <2>2, <2>4
<1>9. ASSUME NEW h \in Hash, byHash'[h] # NoIdx
      PROVE  c[byHash'[h]] # NoChannel /\ HashOf[c[byHash'[h]].key] = h
  BY <1>1, <1>5, <1>9
<1>10. ASSUME NEW n \in Name, byName'[n] # NoIdx
      PROVE  c[byName'[n]] # NoChannel /\ c[byName'[n]].name = n
  BY <1>1, <1>6, <1>10
<1>11. StoreInv'
  <2>1. replaced' \subseteq Idx
    BY <1>1 DEF StoreInv
  <2>2. \A i \in Idx : cache'[i] # NoChannel =>
          /\ i \in channelDir'.index /\ channelDir'.item[i] = cache'[i]
          /\ byHash'[HashOf[cache'[i].key]] # NoIdx /\ byName'[cache'[i].name] # NoIdx
    BY <1>1, <1>8
  <2>3. \A h \in Hash : byHash'[h] # NoIdx =>
          /\ cache'[byHash'[h]] # NoChannel
          /\ byHash'[h] \in replaced' \/ HashOf[cache'[byHash'[h]].key] = h
    BY <1>1, <1>9
  <2>4. \A n \in Name : byName'[n] # NoIdx =>
          /\ cache'[byName'[n]] # NoChannel
          /\ byName'[n] \in replaced' \/ cache'[byName'[n]].name = n
    BY <1>1, <1>10
  <2>5. QED
    BY <1>7, <2>1, <2>2, <2>3, <2>4 DEF StoreInv
<1>12. QED
  BY <1>1, <1>11 DEF c

\* What the boot still has to insert goes where the boot writes.
TodoInv ==
  /\ phase \in {"defaults", "layer"} =>
       /\ todo \in Seq(Placed) /\ todo # <<>>
       /\ \A n \in 1..Len(todo) : todo[n].idx \in BootIdx
  /\ phase = "defaults" => Len(todo) <= Len(ConfigChannels)

\* What was acknowledged elsewhere is on flash, and in memory after the load.
ChannelInv ==
  /\ StoreInv /\ TodoInv
  /\ ackedChannel \in [Idx -> Channel \cup {NoChannel}]
  /\ \A i \in Idx \ BootIdx : ackedChannel[i] # NoChannel =>
       /\ i \in channelDir.index /\ channelDir.item[i] = ackedChannel[i]
       /\ Loaded => cache[i] = ackedChannel[i] \/ Gap(channelDir, HashOfIdx, i)

LEMMA InitChannel == Init => ChannelInv
<1> USE StoresAssumption
<1>1. ASSUME Init PROVE ChannelInv
  <2>1. TodoInv
    BY <1>1 DEF Init, TodoInv
  <2>2. QED
    BY <1>1, <2>1, InitStore DEF Init, ChannelInv
<1>2. QED
  BY <1>1

\* The next channel of the boot, and those after it.
LEMMA NextTodo ==
  ASSUME TodoInv, phase \in {"defaults", "layer"}
  PROVE  /\ Head(todo) \in Placed /\ Head(todo).idx \in BootIdx
         /\ Tail(todo) \in Seq(Placed) /\ Len(Tail(todo)) < Len(todo)
         /\ \A n \in 1..Len(Tail(todo)) : Tail(todo)[n].idx \in BootIdx
<1>1. /\ todo \in Seq(Placed) /\ todo # <<>> /\ Len(todo) \in Nat /\ Len(todo) > 0
      /\ \A n \in 1..Len(todo) : todo[n].idx \in BootIdx
  BY DEF TodoInv
<1>2. Head(todo) = todo[1] /\ todo[1] \in Placed
  BY <1>1
<1>3. Tail(todo) \in Seq(Placed) /\ Len(Tail(todo)) = Len(todo) - 1
  BY <1>1
<1>4. \A n \in 1..Len(Tail(todo)) : Tail(todo)[n] = todo[n + 1] /\ n + 1 \in 1..Len(todo)
  BY <1>1, <1>3
<1>5. QED
  BY <1>1, <1>2, <1>3, <1>4

\* The channels of the configuration and of the layer.
LEMMA BootLists ==
  /\ \A n \in 1..Len(ConfigChannels) : ConfigChannels[n].idx \in BootIdx
  /\ \A n \in 1..Len(LayerChannels) : LayerChannels[n].idx \in BootIdx
BY StoresAssumption DEF BootIdx

\* A reboot with what it leaves on flash.
LEMMA RebootChannel ==
  ASSUME Reboot, channelDir' \in Directory(Idx, Channel),
         ackedChannel' \in [Idx -> Channel \cup {NoChannel}],
         \A i \in Idx \ BootIdx : ackedChannel'[i] # NoChannel =>
           i \in channelDir'.index /\ channelDir'.item[i] = ackedChannel'[i]
  PROVE  ChannelInv'
<1>1. StoreInv'
  BY RebootKeepsStore
<1>2. phase' = "load"
  BY DEF Reboot
<1>3. TodoInv' /\ ~Loaded'
  BY <1>2 DEF TodoInv, Loaded
<1>4. QED
  BY <1>1, <1>3 DEF ChannelInv

\* The load shows what was acknowledged, or there is a gap before it.
LEMMA LoadChannel ==
  ASSUME ChannelInv, Load PROVE ChannelInv'
<1> USE StoresAssumption
<1>1. /\ UNCHANGED <<channelDir, ackedChannel>>
      /\ phase' = "defaults" /\ todo' = ConfigChannels
  BY DEF Load, acked
<1>2. /\ StoreInv'
      /\ \A i \in Idx : i \in Yielded(channelDir, HashOfIdx) => cache'[i] = channelDir.item[i]
  BY LoadKeepsStore DEF ChannelInv
<1>3. TodoInv'
  BY <1>1, BootLists DEF TodoInv
<1>4. ASSUME NEW i \in Idx \ BootIdx, ackedChannel[i] # NoChannel
      PROVE  cache'[i] = ackedChannel[i] \/ Gap(channelDir, HashOfIdx, i)
  <2>1. /\ i \in channelDir.index /\ channelDir.item[i] = ackedChannel[i]
        /\ channelDir.item[i] # NoFile /\ channelDir.index \subseteq Idx
    BY <1>4, ChannelParts DEF ChannelInv
  <2>2. CASE i \in Yielded(channelDir, HashOfIdx)
    BY <1>2, <2>1, <2>2
  <2>3. CASE i \notin Yielded(channelDir, HashOfIdx)
    <3>1. PICK m \in channelDir.index :
            HashOfIdx[m] <= HashOfIdx[i] /\ channelDir.item[m] = NoFile
      BY <2>1, <2>3 DEF Yielded
    <3>2. HashOfIdx[m] < HashOfIdx[i]
      <4>1. m \in Idx /\ m # i
        BY <2>1, <3>1
      <4>2. HashOfIdx[m] \in Nat /\ HashOfIdx[i] \in Nat /\ HashOfIdx[m] # HashOfIdx[i]
        BY <4>1, IndexAssumption
      <4>3. QED
        BY <3>1, <4>2
    <3>3. QED
      BY <3>1, <3>2 DEF Gap
  <2>4. QED
    BY <2>2, <2>3
<1>5. ackedChannel' \in [Idx -> Channel \cup {NoChannel}]
  BY <1>1 DEF ChannelInv
<1>6. \A i \in Idx \ BootIdx : ackedChannel'[i] # NoChannel =>
        /\ i \in channelDir'.index /\ channelDir'.item[i] = ackedChannel'[i]
        /\ cache'[i] = ackedChannel'[i] \/ Gap(channelDir, HashOfIdx, i)'
  BY <1>1, <1>4 DEF ChannelInv, Gap
<1>7. QED
  BY <1>2, <1>3, <1>5, <1>6 DEF ChannelInv

\* A boot step that inserts, or fails to insert, the next channel.
LEMMA BootInsertKeeps ==
  ASSUME ChannelInv, phase \in {"defaults", "layer"}, UNCHANGED ackedChannel,
         \/ /\ InsertChannel(Head(todo).idx, Head(todo).channel)
            /\ replaced' = replaced \cup Replaces(Head(todo).idx, Head(todo).channel)
         \/ InsertChannelFails(Head(todo).idx, Head(todo).channel) /\ UNCHANGED replaced,
         todo' = Tail(todo),
         IF todo' = <<>> THEN phase' \in {"variables", "up"} ELSE phase' = phase
  PROVE  ChannelInv'
<1> USE StoresAssumption
<1> DEFINE i == Head(todo).idx
           c == Head(todo).channel
<1>1. /\ i \in Idx /\ c \in Channel /\ i \in BootIdx
      /\ Tail(todo) \in Seq(Placed) /\ Len(Tail(todo)) < Len(todo)
      /\ \A n \in 1..Len(Tail(todo)) : Tail(todo)[n].idx \in BootIdx
  BY NextTodo DEF ChannelInv, Placed
<1> HIDE DEF i, c
<1>2. TodoInv' /\ ~Loaded'
  <2>1. CASE todo' = <<>>
    <3>1. phase' \notin {"defaults", "layer"}
      BY <2>1
    <3>2. QED
      BY <3>1 DEF TodoInv, Loaded
  <2>2. CASE todo' # <<>>
    <3>1. phase' = phase
      BY <2>2
    <3>2. phase = "defaults" => Len(todo) <= Len(ConfigChannels)
      BY DEF ChannelInv, TodoInv
    <3>3. todo \in Seq(Placed)
      BY DEF ChannelInv, TodoInv
    <3>4. TodoInv'
      <4>1. /\ todo' \in Seq(Placed) /\ \A n \in 1..Len(todo') : todo'[n].idx \in BootIdx
            /\ Len(todo') < Len(todo)
        BY <1>1
      <4>2. phase' = "defaults" => Len(todo') <= Len(ConfigChannels)
        BY <3>1, <3>2, <3>3, <4>1
      <4>3. QED
        BY <2>2, <4>1, <4>2 DEF TodoInv
    <3>5. phase = "defaults" => todo' # ConfigChannels
      BY <1>1, <3>2, <3>3
    <3>6. QED
      BY <3>1, <3>4, <3>5 DEF Loaded
  <2>3. QED
    BY <2>1, <2>2
<1>3. /\ StoreInv' /\ channelDir.index \subseteq channelDir'.index
      /\ \A j \in Idx : j # i => channelDir'.item[j] = channelDir.item[j]
  <2>1. CASE InsertChannel(i, c) /\ replaced' = replaced \cup Replaces(i, c)
    <3>1. StoreInv
      BY DEF ChannelInv
    <3>2. QED
      BY <1>1, <2>1, <3>1, InsertKeepsStore
  <2>2. CASE InsertChannelFails(i, c) /\ UNCHANGED replaced
    <3>1. StoreInv
      BY DEF ChannelInv
    <3>2. /\ channelDir' \in HalfStored(channelDir, i)
          /\ UNCHANGED <<cache, byHash, byName, replaced>>
      BY <2>2 DEF InsertChannelFails
    <3>3. /\ channelDir' \in Directory(Idx, Channel) /\ channelDir'.item = channelDir.item
          /\ channelDir.index \subseteq channelDir'.index
      BY <1>1, <3>1, <3>2, ChannelParts, HalfStoredParts
    <3>4. QED
      BY <3>1, <3>2, <3>3, ListedKeepsStore
  <2>3. QED
    BY <2>1, <2>2 DEF i, c
<1>4. \A j \in Idx \ BootIdx : ackedChannel'[j] # NoChannel =>
        j \in channelDir'.index /\ channelDir'.item[j] = ackedChannel'[j]
  BY <1>1, <1>3 DEF ChannelInv
<1>5. ackedChannel' \in [Idx -> Channel \cup {NoChannel}]
  BY DEF ChannelInv
<1>6. QED
  BY <1>2, <1>3, <1>4, <1>5 DEF ChannelInv

\* Every step keeps the maps, the cache, flash and the acknowledgements together.
LEMMA NextChannel == ChannelInv /\ [Next]_vars => ChannelInv'
<1> SUFFICES ASSUME ChannelInv, [Next]_vars PROVE ChannelInv'
  OBVIOUS
<1> USE StoresAssumption
<1>1. ASSUME UNCHANGED <<channelVars, ackedChannel, replaced, boot>> PROVE ChannelInv'
  <2>1. StoreInv'
    BY <1>1 DEF ChannelInv, channelVars, StoreInv, ChannelTypeOK
  <2>2. TodoInv' /\ Loaded' = Loaded
    BY <1>1 DEF ChannelInv, boot, TodoInv, Loaded
  <2>3. QED
    BY <1>1, <2>1, <2>2 DEF ChannelInv, channelVars, Gap
<1>2. ASSUME UNCHANGED <<channelVars, ackedChannel, replaced>>,
             phase' \in {"advert", "identity"}
      PROVE  ChannelInv'
  <2>1. StoreInv'
    BY <1>2 DEF ChannelInv, channelVars, StoreInv, ChannelTypeOK
  <2>2. TodoInv' /\ ~Loaded'
    BY <1>2 DEF TodoInv, Loaded
  <2>3. QED
    BY <1>2, <2>1, <2>2 DEF ChannelInv, channelVars
<1>3. ASSUME UNCHANGED <<channelDir, ackedChannel>>, Reboot PROVE ChannelInv'
  BY <1>3, RebootChannel, ChannelParts DEF ChannelInv
<1>4. CASE Boot
  <2>1. CASE Load
    BY <2>1, LoadChannel
  <2>2. ASSUME NEW done \in BOOLEAN, DefaultChannel(done) PROVE ChannelInv'
    <3>1. phase \in {"defaults", "layer"} /\ UNCHANGED ackedChannel /\ todo' = Tail(todo)
      BY <2>2 DEF DefaultChannel, acked
    <3>2. IF todo' = <<>> THEN phase' \in {"variables", "up"} ELSE phase' = phase
      BY <2>2 DEF DefaultChannel
    <3>3. \/ /\ InsertChannel(Head(todo).idx, Head(todo).channel)
             /\ replaced' = replaced \cup Replaces(Head(todo).idx, Head(todo).channel)
          \/ InsertChannelFails(Head(todo).idx, Head(todo).channel) /\ UNCHANGED replaced
      BY <2>2 DEF DefaultChannel
    <3>4. QED
      BY <3>1, <3>2, <3>3, BootInsertKeeps
  <2>3. CASE DefaultVariable \/ LoadAdvert
    BY <1>2, <2>3 DEF DefaultVariable, LoadAdvert, acked, sinceBoot
  <2>4. CASE LoadIdentity
    <3>1. StoreInv'
      BY <2>4 DEF ChannelInv, LoadIdentity, channelVars, sinceBoot, StoreInv, ChannelTypeOK
    <3>2. TodoInv' /\ ~Loaded'
      BY <2>4, BootLists DEF LoadIdentity, TodoInv, Loaded
    <3>3. UNCHANGED <<channelVars, ackedChannel>>
      BY <2>4 DEF LoadIdentity, acked
    <3>4. QED
      BY <3>1, <3>2, <3>3 DEF ChannelInv, channelVars
  <2>5. CASE LayerChannel
    <3>1. phase \in {"defaults", "layer"} /\ UNCHANGED ackedChannel /\ todo' = Tail(todo)
      BY <2>5 DEF LayerChannel, acked
    <3>2. IF todo' = <<>> THEN phase' \in {"variables", "up"} ELSE phase' = phase
      BY <2>5 DEF LayerChannel
    <3>3. /\ InsertChannel(Head(todo).idx, Head(todo).channel)
          /\ replaced' = replaced \cup Replaces(Head(todo).idx, Head(todo).channel)
      BY <2>5 DEF LayerChannel
    <3>4. QED
      BY <3>1, <3>2, <3>3, BootInsertKeeps
  <2>6. QED
    BY <1>4, <2>1, <2>2, <2>3, <2>4, <2>5 DEF Boot
<1>5. CASE BootFails
  <2>1. Reboot /\ UNCHANGED ackedChannel
    BY <1>5 DEF BootFails, acked
  <2>2. CASE phase # "layer"
    BY <1>3, <1>5, <2>1, <2>2 DEF BootFails
  <2>3. CASE phase = "layer"
    <3>1. Head(todo).idx \in Idx
      BY <2>3, NextTodo DEF ChannelInv, Placed
    <3>2. channelDir' \in HalfStored(channelDir, Head(todo).idx)
      BY <1>5, <2>3 DEF BootFails
    <3>3. /\ channelDir' \in Directory(Idx, Channel) /\ channelDir'.item = channelDir.item
          /\ channelDir.index \subseteq channelDir'.index
      BY <3>1, <3>2, ChannelParts, HalfStoredParts DEF ChannelInv
    <3>4. ackedChannel' \in [Idx -> Channel \cup {NoChannel}]
      BY <2>1 DEF ChannelInv
    <3>5. \A i \in Idx \ BootIdx : ackedChannel'[i] # NoChannel =>
            i \in channelDir'.index /\ channelDir'.item[i] = ackedChannel'[i]
      BY <2>1, <3>3 DEF ChannelInv
    <3>6. QED
      BY <2>1, <3>3, <3>4, <3>5, RebootChannel
  <2>4. QED
    BY <2>2, <2>3
<1>6. CASE PowerLoss
  <2>1. Reboot
    BY <1>6 DEF PowerLoss
  <2>2. CASE UNCHANGED <<channelDir, ackedChannel>>
    BY <1>3, <2>1, <2>2
  <2>3. CASE CutContact \/ CutValue
    BY <2>2, <2>3 DEF CutContact, CutValue
  <2>4. CASE CutChannel
    <3>1. PICK c \in ChannelsWritten :
            /\ channelDir' \in CutShort(channelDir, c.idx, c.channel)
            /\ ackedChannel' = IF channelDir'.item = channelDir.item THEN ackedChannel
                               ELSE [ackedChannel EXCEPT ![c.idx] = NoChannel]
      BY <2>4 DEF CutChannel
    <3>2. c \in Placed
      BY <3>1, NextTodo DEF ChannelsWritten, ChannelInv
    <3>3. c.idx \in Idx /\ c.channel \in Channel
      BY <3>2 DEF Placed
    <3>4. channelDir \in Directory(Idx, Channel)
          /\ channelDir.item \in [Idx -> Channel \cup {NoFile}]
      BY ChannelParts DEF ChannelInv
    <3>5. /\ channelDir' \in Directory(Idx, Channel)
          /\ channelDir.index \subseteq channelDir'.index
          /\ channelDir'.item \in {channelDir.item, [channelDir.item EXCEPT ![c.idx] = c.channel]}
      BY <3>1, <3>3, <3>4, CutShortParts
    <3>6. ackedChannel' \in [Idx -> Channel \cup {NoChannel}]
      BY <3>1 DEF ChannelInv
    <3>7. \A i \in Idx \ BootIdx : ackedChannel'[i] # NoChannel =>
            i \in channelDir'.index /\ channelDir'.item[i] = ackedChannel'[i]
      BY <3>1, <3>4, <3>5 DEF ChannelInv
    <3>8. QED
      BY <2>1, <3>5, <3>6, <3>7, RebootChannel
  <2>5. QED
    BY <1>6, <2>2, <2>3, <2>4 DEF PowerLoss, acked
<1>7. ASSUME NEW done \in BOOLEAN, Command(done) PROVE ChannelInv'
  <2>1. ASSUME NEW k \in Key, NEW p \in Route, PutContact(k, p, done) PROVE ChannelInv'
    BY <1>1, <2>1 DEF PutContact, Operation, sinceBoot
  <2>2. ASSUME NEW k \in Key, ResetPath(k, done) PROVE ChannelInv'
    BY <1>1, <2>2 DEF ResetPath, Operation, sinceBoot
  <2>3. ASSUME NEW p \in ClientChannels, SetChannel(p.idx, p.channel, done) PROVE ChannelInv'
    <3> DEFINE i == p.idx
               c == p.channel
    <3>1. i \in Idx /\ c \in Channel /\ StoreInv
      BY DEF Placed, ChannelInv
    <3> HIDE DEF i, c
    <3>2. phase = "up" /\ UNCHANGED boot
      BY <2>3 DEF SetChannel, Operation
    <3>3. TodoInv' /\ ~Loaded'
      BY <3>2 DEF boot, TodoInv, Loaded
    <3>4. CASE done
      <4>1. /\ InsertChannel(i, c) /\ replaced' = replaced \cup Replaces(i, c)
            /\ ackedChannel' = [ackedChannel EXCEPT ![i] = c]
        BY <2>3, <3>4 DEF SetChannel, i, c
      <4>2. /\ StoreInv' /\ channelDir.index \subseteq channelDir'.index
            /\ i \in channelDir'.index /\ channelDir'.item[i] = c
            /\ \A j \in Idx : j # i => channelDir'.item[j] = channelDir.item[j]
        BY <3>1, <4>1, InsertKeepsStore
      <4>3. ackedChannel' \in [Idx -> Channel \cup {NoChannel}]
        BY <3>1, <4>1 DEF ChannelInv
      <4>4. \A j \in Idx \ BootIdx : ackedChannel'[j] # NoChannel =>
              j \in channelDir'.index /\ channelDir'.item[j] = ackedChannel'[j]
        BY <3>1, <4>1, <4>2 DEF ChannelInv
      <4>5. QED
        BY <3>3, <4>2, <4>3, <4>4 DEF ChannelInv
    <3>5. CASE ~done
      <4>1. /\ channelDir' \in HalfStored(channelDir, i)
            /\ UNCHANGED <<cache, byHash, byName, replaced, ackedChannel>>
        BY <2>3, <3>5 DEF SetChannel, InsertChannelFails, i, c
      <4>2. /\ channelDir' \in Directory(Idx, Channel) /\ channelDir'.item = channelDir.item
            /\ channelDir.index \subseteq channelDir'.index
        BY <3>1, <4>1, ChannelParts, HalfStoredParts
      <4>3. StoreInv'
        BY <3>1, <4>1, <4>2, ListedKeepsStore
      <4>4. QED
        BY <3>3, <4>1, <4>2, <4>3 DEF ChannelInv
    <3>6. QED
      BY <3>4, <3>5
  <2>4. ASSUME NEW t \in Text, SetVariable(t, done) \/ SetAdvertName(t, done)
        PROVE  ChannelInv'
    BY <1>1, <2>4 DEF SetVariable, SetAdvertName, Operation, acked, sinceBoot
  <2>5. CASE KeepPath(done)
    BY <1>1, <2>5 DEF KeepPath, sinceBoot
  <2>6. QED
    BY <1>7, <2>1, <2>2, <2>3, <2>4, <2>5 DEF Command
<1>8. ASSUME NEW k \in Key, RemoveContact(k) PROVE ChannelInv'
  BY <1>1, <1>8 DEF RemoveContact, Operation, sinceBoot
<1>9. ASSUME NEW k \in Key, ResetPathPanics(k) PROVE ChannelInv'
  BY <1>3, <1>9 DEF ResetPathPanics, acked
<1>10. ASSUME NEW k \in Key, NEW p \in Path, HearPath(k, p) PROVE ChannelInv'
  BY <1>1, <1>10 DEF HearPath, Operation, acked, sinceBoot
<1>11. CASE UNCHANGED vars
  BY <1>1, <1>11 DEF vars, acked, sinceBoot
<1>12. QED
  BY <1>4, <1>5, <1>6, <1>7, <1>8, <1>9, <1>10, <1>11 DEF Next

\* The maps lead from every cached channel's hash and name to a channel with it,
\* or to an index whose channel was replaced since the boot, and never nowhere
\* (channel.rs:89-95, 111-112).
THEOREM ChannelsAreFound == Spec => []FoundUnlessReplaced
<1>1. ASSUME StoreInv PROVE FoundUnlessReplaced
  <2>1. SUFFICES ASSUME NEW i \in Idx, cache[i] # NoChannel
                 PROVE  LET h == HashOf[cache[i].key]
                            n == cache[i].name
                        IN /\ GetByHash(h) # NoChannel /\ GetByName(n) # NoChannel
                           /\ byHash[h] \in replaced \/ HashOf[GetByHash(h).key] = h
                           /\ byName[n] \in replaced \/ GetByName(n).name = n
    BY DEF FoundUnlessReplaced
  <2> DEFINE h == HashOf[cache[i].key]
             n == cache[i].name
  <2>2. cache[i] \in Channel
    BY <1>1, <2>1, ChannelParts
  <2>3. h \in Hash /\ n \in Name
    BY <2>2, ChannelFields
  <2>4. byHash[h] # NoIdx /\ byName[n] # NoIdx
    BY <1>1, <2>1 DEF StoreInv
  <2> HIDE DEF h, n
  <2>5. /\ cache[byHash[h]] # NoChannel /\ cache[byName[n]] # NoChannel
        /\ byHash[h] \in replaced \/ HashOf[cache[byHash[h]].key] = h
        /\ byName[n] \in replaced \/ cache[byName[n]].name = n
    BY <1>1, <2>3, <2>4 DEF StoreInv
  <2>6. QED
    BY <2>4, <2>5 DEF GetByHash, GetByName, Get, h, n
<1>2. ChannelInv => FoundUnlessReplaced
  BY <1>1 DEF ChannelInv
<1>3. QED
  BY <1>2, InitChannel, NextChannel, PTL DEF Spec

\* A channel that was acknowledged where the boot does not write stays on flash,
\* and is loaded unless a gap comes before it (channel.rs:54-80, 97-120).
THEOREM ChannelsAreKept == Spec => []ChannelsSurvive
<1>1. ChannelInv => ChannelsSurvive
  BY DEF ChannelInv, ChannelsSurvive
<1>2. QED
  BY <1>1, InitChannel, NextChannel, PTL DEF Spec
-----------------------------------------------------------------------------
(***************************************************************************)
(* Types.                                                                  *)
(***************************************************************************)

\* What the other invariants leave open of TypeOK, in two parts.
BootTypeOK ==
  /\ phase \in Phase /\ todo \in Seq(Placed)
  /\ ops \in 0..MaxOps /\ fails \in 0..MaxFail /\ crashes \in 0..MaxCrash

SettingTypeOK ==
  /\ variable \in Text \cup {NoFile} /\ advert \in Text \cup {NoFile}
  /\ nodeName \in Text /\ nodeId \in Nat \cup {NoIdentity}
  /\ ackedVariable \in Text \cup {NoFile}
  /\ nameUnsaved \in BOOLEAN

LEMMA InitTypes == Init => BootTypeOK /\ SettingTypeOK
<1>1. Init => BootTypeOK
  <2>1. <<>> \in Seq(Placed)
    OBVIOUS
  <2>2. QED
    BY <2>1, StoresAssumption DEF Init, BootTypeOK, Phase
<1>2. Init => SettingTypeOK
  BY StoresAssumption DEF Init, SettingTypeOK
<1>3. QED
  BY <1>1, <1>2

\* The boot goes from phase to phase, and the counters stay within their bounds.
LEMMA NextBootTypes == BootTypeOK /\ ChannelInv /\ [Next]_vars => BootTypeOK'
<1> SUFFICES ASSUME BootTypeOK, ChannelInv, [Next]_vars PROVE BootTypeOK'
  OBVIOUS
<1> USE StoresAssumption DEF BootTypeOK, Phase
<1>1. ASSUME UNCHANGED boot, ops' \in 0..MaxOps, fails' \in 0..MaxFail, crashes' = crashes
      PROVE  BootTypeOK'
  BY <1>1 DEF boot
<1>2. ASSUME Reboot, ops' \in 0..MaxOps, fails' \in 0..MaxFail, crashes' \in 0..MaxCrash
      PROVE  BootTypeOK'
  BY <1>2 DEF Reboot
<1>3. ASSUME NEW done \in BOOLEAN, Outcome(done) PROVE fails' \in 0..MaxFail
  BY <1>3 DEF Outcome
<1>4. ASSUME ops < MaxOps, ops' = ops + 1 PROVE ops' \in 0..MaxOps
  BY <1>4
<1>5. ASSUME NEW done \in BOOLEAN, Operation(done) PROVE BootTypeOK'
  BY <1>1, <1>3, <1>4, <1>5 DEF Operation
<1>6. CASE Boot
  <2>1. CASE Load \/ DefaultVariable \/ LoadAdvert \/ LoadIdentity
    BY <2>1 DEF Load, DefaultVariable, LoadAdvert, LoadIdentity, counters
  <2>2. ASSUME NEW done \in BOOLEAN, DefaultChannel(done) PROVE BootTypeOK'
    <3>1. todo' \in Seq(Placed)
      BY <2>2, NextTodo DEF DefaultChannel, ChannelInv
    <3>2. fails' \in 0..MaxFail
      BY <1>3, <2>2 DEF DefaultChannel
    <3>3. phase' \in Phase /\ UNCHANGED <<ops, crashes>>
      BY <2>2 DEF DefaultChannel
    <3>4. QED
      BY <3>1, <3>2, <3>3
  <2>3. CASE LayerChannel
    <3>1. todo' \in Seq(Placed)
      BY <2>3, NextTodo DEF LayerChannel, ChannelInv
    <3>2. phase' \in Phase /\ UNCHANGED counters
      BY <2>3 DEF LayerChannel
    <3>3. QED
      BY <3>1, <3>2 DEF counters
  <2>4. QED
    BY <1>6, <2>1, <2>2, <2>3 DEF Boot
<1>7. CASE BootFails
  BY <1>2, <1>3, <1>7 DEF BootFails
<1>8. CASE PowerLoss
  BY <1>2, <1>8 DEF PowerLoss
<1>9. ASSUME NEW done \in BOOLEAN, Command(done) PROVE BootTypeOK'
  <2>1. Operation(done) \/ KeepPath(done)
    BY <1>9 DEF Command, PutContact, ResetPath, SetChannel, SetVariable, SetAdvertName
  <2>2. CASE KeepPath(done)
    BY <1>1, <1>3, <2>2 DEF KeepPath
  <2>3. QED
    BY <1>5, <2>1, <2>2
<1>10. ASSUME NEW k \in Key, RemoveContact(k) PROVE BootTypeOK'
  BY <1>5, <1>10 DEF RemoveContact
<1>11. ASSUME NEW k \in Key, ResetPathPanics(k) PROVE BootTypeOK'
  BY <1>2, <1>4, <1>11 DEF ResetPathPanics
<1>12. ASSUME NEW k \in Key, NEW p \in Path, HearPath(k, p) PROVE BootTypeOK'
  BY <1>5, <1>12 DEF HearPath
<1>13. CASE UNCHANGED vars
  BY <1>1, <1>13 DEF vars, counters
<1>14. QED
  BY <1>6, <1>7, <1>8, <1>9, <1>10, <1>11, <1>12, <1>13 DEF Next

\* What is written as a variable or a name is one, or the default.
LEMMA NextSettingTypes == SettingTypeOK /\ ValueInv /\ [Next]_vars => SettingTypeOK'
<1> SUFFICES ASSUME SettingTypeOK, ValueInv, [Next]_vars PROVE SettingTypeOK'
  OBVIOUS
<1> USE StoresAssumption DEF SettingTypeOK
<1>1. ASSUME UNCHANGED <<flashed, node, ackedVariable, nameUnsaved>> PROVE SettingTypeOK'
  BY <1>1 DEF flashed, node
<1>2. ASSUME Reboot, variable' \in Text \cup {NoFile}, advert' \in Text \cup {NoFile},
             ackedVariable' \in Text \cup {NoFile}
      PROVE  SettingTypeOK'
  BY <1>2 DEF Reboot
<1>3. CASE Boot
  <2>1. CASE Load \/ LayerChannel \/ \E done \in BOOLEAN : DefaultChannel(done)
    BY <1>1, <2>1 DEF Load, LayerChannel, DefaultChannel, acked, sinceBoot
  <2>2. CASE DefaultVariable \/ LoadAdvert
    BY <2>2 DEF DefaultVariable, LoadAdvert, StoredOr, node, acked, sinceBoot
  <2>3. CASE LoadIdentity
    <3>1. nodeId' \in Nat
      BY <2>3 DEF LoadIdentity, StoredOr, Fresh, ValueInv
    <3>2. QED
      BY <2>3, <3>1 DEF LoadIdentity, acked, sinceBoot
  <2>4. QED
    BY <1>3, <2>1, <2>2, <2>3 DEF Boot
<1>4. CASE BootFails
  BY <1>2, <1>4 DEF BootFails, flashed, acked
<1>5. CASE PowerLoss
  <2>1. Reboot
    BY <1>5 DEF PowerLoss
  <2>2. CASE UNCHANGED <<flashed, ackedVariable>>
    BY <1>2, <2>1, <2>2 DEF flashed
  <2>3. CASE CutValue
    <3>1. /\ variable' = variable \/ variable' \in Text \cup {NoFile}
          /\ advert' = advert \/ advert' \in Text \cup {NoFile}
          /\ ackedVariable' \in {ackedVariable, NoFile}
      BY <2>3 DEF CutValue, StoredOr
    <3>2. QED
      BY <1>2, <2>1, <3>1
  <2>4. QED
    BY <1>5, <2>2, <2>3 DEF PowerLoss, CutContact, CutChannel, acked
<1>6. ASSUME NEW done \in BOOLEAN, Command(done) PROVE SettingTypeOK'
  <2>1. CASE \E k \in Key, p \in Route : PutContact(k, p, done)
    BY <1>1, <2>1 DEF PutContact, sinceBoot
  <2>2. CASE \E k \in Key : ResetPath(k, done)
    BY <1>1, <2>2 DEF ResetPath, sinceBoot
  <2>3. CASE \E c \in ClientChannels : SetChannel(c.idx, c.channel, done)
    BY <1>1, <2>3 DEF SetChannel
  <2>4. ASSUME NEW t \in Text, SetVariable(t, done) \/ SetAdvertName(t, done)
        PROVE  SettingTypeOK'
    BY <2>4 DEF SetVariable, SetAdvertName, node, acked, sinceBoot
  <2>5. CASE KeepPath(done)
    BY <1>1, <2>5 DEF KeepPath, sinceBoot
  <2>6. QED
    BY <1>6, <2>1, <2>2, <2>3, <2>4, <2>5 DEF Command
<1>7. ASSUME NEW k \in Key, RemoveContact(k) PROVE SettingTypeOK'
  BY <1>1, <1>7 DEF RemoveContact, sinceBoot
<1>8. ASSUME NEW k \in Key, ResetPathPanics(k) PROVE SettingTypeOK'
  BY <1>2, <1>8 DEF ResetPathPanics, flashed, acked
<1>9. ASSUME NEW k \in Key, NEW p \in Path, HearPath(k, p) PROVE SettingTypeOK'
  BY <1>1, <1>9 DEF HearPath, acked, sinceBoot
<1>10. CASE UNCHANGED vars
  BY <1>1, <1>10 DEF vars, acked, sinceBoot
<1>11. QED
  BY <1>3, <1>4, <1>5, <1>6, <1>7, <1>8, <1>9, <1>10 DEF Next

\* Flash, the caches and the settings keep their types through failed writes,
\* power losses and boots of any number.
THEOREM TypeCorrect == Spec => []TypeOK
<1> DEFINE Parts == ValueInv /\ ContactInv /\ ChannelInv /\ BootTypeOK /\ SettingTypeOK
<1>1. Init => Parts
  BY InitValue, InitContact, InitChannel, InitTypes
<1>2. Parts /\ [Next]_vars => Parts'
  BY NextValue, NextContact, NextChannel, NextBootTypes, NextSettingTypes
<1>3. Parts => TypeOK
  BY DEF TypeOK, ValueInv, ContactInv, ChannelInv, StoreInv, BootTypeOK, SettingTypeOK
<1>4. QED
  BY <1>1, <1>2, <1>3, PTL DEF Spec

-----------------------------------------------------------------------------
(***************************************************************************)
(* The bounds of the partition.                                            *)
(***************************************************************************)

\* Adding machine words wraps once at most.
LEMMA PlusWraps ==
  ASSUME NEW a \in Offsets, NEW b \in Offsets
  PROVE  Plus(a, b) = IF a + b < Word THEN a + b ELSE a + b - Word
<1>1. CASE a + b < Word
  BY <1>1, PartitionAssumption DEF Plus, Offsets
<1>2. CASE a + b >= Word
  <2>1. a + b - Word \in 0..(Word - 1)
    BY <1>2, PartitionAssumption DEF Offsets
  <2>2. (a + b) % Word = (a + b - Word) % Word
    BY <1>2, <2>1, PartitionAssumption DEF Offsets
  <2> QED BY <1>2, <2>1, <2>2, PartitionAssumption DEF Plus, Offsets
<1> QED BY <1>1, <1>2, PartitionAssumption DEF Offsets

\* The range is the partition, and offsets beyond it map to no address of it.
LEMMA MapsInside ==
  ASSUME NEW offset \in Offsets, Maps(offset)
  PROVE  /\ Mapped(offset) = partition_offset + offset
         /\ offset <= partition_size
<1>1. partition_offset \in Offsets /\ partition_size \in Offsets
  BY PartitionAssumption DEF Offsets
<1>2. Plus(partition_offset, partition_size) = partition_offset + partition_size
  BY <1>1, PlusWraps, PartitionAssumption
<1>3. Plus(partition_offset, offset)
        = IF partition_offset + offset < Word THEN partition_offset + offset
          ELSE partition_offset + offset - Word
  BY <1>1, PlusWraps
<1> QED BY <1>1, <1>2, <1>3, PartitionAssumption DEF Maps, Mapped, in_range, Offsets

\* Reads and writes of any partition and word size stay inside the partition:
\* an offset that wraps falls short of its start, a length that wraps would have
\* to be longer than the memory around it.
THEOREM NoAccessOutside == AccessStaysInside
<1> SUFFICES ASSUME NEW offset \in Offsets, NEW length \in 0..(Word - partition_size - 1),
                    Accessible(offset, length)
             PROVE  Inside(Mapped(offset), Mapped(offset) + length)
  BY DEF AccessStaysInside
<1>1. Mapped(offset) = partition_offset + offset /\ offset <= partition_size
  BY MapsInside DEF Accessible
<1>2. partition_offset \in Offsets /\ partition_size \in Offsets /\ length \in Offsets
  BY PartitionAssumption DEF Offsets
<1>3. Plus(partition_offset, partition_size) = partition_offset + partition_size
  BY <1>2, PlusWraps, PartitionAssumption
<1>4. Mapped(offset) \in Offsets
  BY <1>1, <1>2, PartitionAssumption DEF Offsets
<1>5. Plus(Mapped(offset), length)
        = IF Mapped(offset) + length < Word THEN Mapped(offset) + length
          ELSE Mapped(offset) + length - Word
  BY <1>2, <1>4, PlusWraps
<1> QED BY <1>1, <1>2, <1>3, <1>5, PartitionAssumption
        DEF Accessible, in_range, Inside, Offsets

\* No byte of the partition is out of reach.
THEOREM AllOfItUsable == WholePartitionUsable
<1> SUFFICES ASSUME NEW offset \in Offsets, NEW length \in Offsets,
                    offset + length <= partition_size
             PROVE  Accessible(offset, length)
  BY DEF WholePartitionUsable
<1>1. partition_offset \in Offsets /\ partition_size \in Offsets
  BY PartitionAssumption DEF Offsets
<1>2. Plus(partition_offset, partition_size) = partition_offset + partition_size
  BY <1>1, PlusWraps, PartitionAssumption
<1>3. Mapped(offset) = partition_offset + offset /\ Mapped(offset) \in Offsets
  BY <1>1, PlusWraps, PartitionAssumption DEF Mapped, Offsets
<1>4. Plus(Mapped(offset), length) = partition_offset + offset + length
  BY <1>1, <1>3, PlusWraps, PartitionAssumption DEF Offsets
<1> QED BY <1>1, <1>2, <1>3, <1>4, PartitionAssumption
        DEF Accessible, Maps, in_range, Offsets

\* Erasing stays inside the partition.
THEOREM NoEraseOutside == EraseStaysInside
<1> SUFFICES ASSUME NEW from \in Offsets, NEW to \in Offsets,
                    from <= to, Erasable(from, to)
             PROVE  Inside(Mapped(from), Mapped(to))
  BY DEF EraseStaysInside
<1>1. /\ Mapped(from) = partition_offset + from
      /\ Mapped(to) = partition_offset + to /\ to <= partition_size
  BY MapsInside DEF Erasable
<1> QED BY <1>1, PartitionAssumption DEF Inside, Offsets

-----------------------------------------------------------------------------
(***************************************************************************)
(* The search for a contact, for keys and prefixes of any length.          *)
(***************************************************************************)

LEMMA SamePart ==
  ASSUME NEW a \in Seq(Int), NEW b \in Seq(Int), NEW n \in Nat, n <= Len(a), n <= Len(b)
  PROVE  SubSeq(a, 1, n) = SubSeq(b, 1, n) <=> \A j \in 1..n : a[j] = b[j]
<1>1. /\ Len(SubSeq(a, 1, n)) = n /\ Len(SubSeq(b, 1, n)) = n
      /\ SubSeq(a, 1, n) \in Seq(Int) /\ SubSeq(b, 1, n) \in Seq(Int)
      /\ \A j \in 1..n : SubSeq(a, 1, n)[j] = a[j] /\ SubSeq(b, 1, n)[j] = b[j]
  OBVIOUS
<1>2. QED
  BY <1>1

LEMMA BeforePoint ==
  ASSUME NEW a \in Seq(Int), NEW b \in Seq(Int)
  PROVE  Before(a, b) <=> \E i \in 1..Len(b) :
                            /\ i <= Len(a) + 1 /\ \A j \in 1..(i - 1) : a[j] = b[j]
                            /\ i = Len(a) + 1 \/ a[i] < b[i]
<1>1. ASSUME NEW i \in 1..Len(b), i <= Len(a) + 1
      PROVE  SubSeq(a, 1, i - 1) = SubSeq(b, 1, i - 1) <=> \A j \in 1..(i - 1) : a[j] = b[j]
  <2>1. i - 1 \in Nat /\ i - 1 <= Len(a) /\ i - 1 <= Len(b)
    BY <1>1
  <2>2. QED
    BY <2>1, SamePart
<1>2. QED
  BY <1>1, Zenon DEF Before

LEMMA PrefixPoint ==
  ASSUME NEW s \in Seq(Int), NEW t \in Seq(Int)
  PROVE  IsPrefix(s, t) <=> Len(s) <= Len(t) /\ \A j \in 1..Len(s) : s[j] = t[j]
<1>1. Len(s) \in Nat /\ Len(s) <= Len(s)
  OBVIOUS
<1>2. CASE Len(s) <= Len(t)
  BY <1>1, <1>2, SamePart DEF IsPrefix
<1>3. CASE ~(Len(s) <= Len(t))
  BY <1>3 DEF IsPrefix
<1>4. QED
  BY <1>2, <1>3

\* A key that the prefix fits is not before it.
LEMMA FittingIsNotBefore ==
  ASSUME NEW a \in Seq(Int), NEW p \in Seq(Int), IsPrefix(p, a)
  PROVE  ~Before(a, p)
<1>1. Len(p) <= Len(a) /\ \A j \in 1..Len(p) : p[j] = a[j]
  BY PrefixPoint
<1>2. ASSUME NEW i \in 1..Len(p), i = Len(a) + 1 \/ a[i] < p[i] PROVE FALSE
  <2>1. i # Len(a) + 1
    BY <1>1
  <2>2. p[i] = a[i] /\ p[i] \in Int
    BY <1>1
  <2>3. QED
    BY <1>2, <2>1, <2>2
<1>3. QED
  BY <1>2, BeforePoint

\* A key between the prefix and a key that it fits is fitted too.
LEMMA FittingIsUnbroken ==
  ASSUME NEW a \in Seq(Int), NEW b \in Seq(Int), NEW p \in Seq(Int),
         IsPrefix(p, b), ~Before(a, p), Before(a, b)
  PROVE  IsPrefix(p, a)
<1>1. Len(p) <= Len(b) /\ \A j \in 1..Len(p) : p[j] = b[j]
  BY PrefixPoint
<1>2. PICK i \in 1..Len(b) : /\ i <= Len(a) + 1 /\ \A j \in 1..(i - 1) : a[j] = b[j]
                             /\ i = Len(a) + 1 \/ a[i] < b[i]
  BY BeforePoint
<1>3. CASE i > Len(p)
  <2>1. Len(p) <= Len(a) /\ \A j \in 1..Len(p) : j \in 1..(i - 1)
    BY <1>2, <1>3
  <2>2. \A j \in 1..Len(p) : p[j] = a[j]
    BY <1>1, <1>2, <2>1
  <2>3. QED
    BY <2>1, <2>2, PrefixPoint
<1>4. CASE i <= Len(p)
  <2>1. i \in 1..Len(p) /\ \A j \in 1..(i - 1) : j \in 1..Len(p)
    BY <1>4
  <2>2. p[i] = b[i] /\ \A j \in 1..(i - 1) : a[j] = p[j]
    BY <1>1, <1>2, <2>1
  <2>3. Before(a, p)
    BY <1>2, <2>1, <2>2, BeforePoint
  <2>4. QED
    BY <2>3
<1>5. QED
  BY <1>2, <1>3, <1>4

LEMMA MinIs ==
  ASSUME NEW S \in SUBSET Nat, NEW n \in S, \A m \in S : n <= m
  PROVE  Min(S) = n
<1>1. \A x \in S : (\A m \in S : x <= m) => x = n
  BY SMT
<1>2. QED
  BY <1>1 DEF Min

\* The search of a contact by a prefix of its key finds the first one it fits,
\* and nobody if it fits none, for contacts in order and keys of any length.
THEOREM SearchFindsFirst ==
  ASSUME NEW keys \in Seq(Seq(Int)), NEW p \in Seq(Int), InOrder(keys)
  PROVE  FindsFirst(keys, p)
<1> DEFINE n == Len(keys)
           fits == {i \in 1..n : IsPrefix(p, keys[i])}
           late == {i \in 1..n : ~Before(keys[i], p)} \cup {n + 1}
<1>1. n \in Nat /\ \A i \in 1..n : keys[i] \in Seq(Int)
  OBVIOUS
<1>2. PICK w \in late : \A i \in late : w <= i
  <2>1. late \in SUBSET Nat /\ late # {}
    BY <1>1
  <2> HIDE DEF late
  <2>2. QED
    BY <2>1, LeastNumber
<1>3. Place(keys, p) = w /\ w \in 1..(n + 1)
  <2>1. late \in SUBSET Nat /\ w \in 1..(n + 1)
    BY <1>1, <1>2
  <2>2. Place(keys, p) = Min(late)
    BY DEF Place
  <2> HIDE DEF late
  <2>3. QED
    BY <1>2, <2>1, <2>2, MinIs
<1>4. \A i \in fits : i \in late
  BY <1>1, FittingIsNotBefore
<1>5. ASSUME NEW i \in fits PROVE w \in fits
  <2>1. w <= i /\ w \in 1..n /\ i \in 1..n /\ IsPrefix(p, keys[i])
    BY <1>1, <1>2, <1>3, <1>4
  <2>2. ~Before(keys[w], p)
    BY <1>2, <2>1
  <2>3. CASE w = i
    BY <2>3
  <2>4. CASE w # i
    <3>1. Before(keys[w], keys[i])
      BY <2>1, <2>4 DEF InOrder
    <3>2. IsPrefix(p, keys[w])
      BY <1>1, <2>1, <2>2, <3>1, FittingIsUnbroken
    <3>3. QED
      BY <2>1, <3>2
  <2>5. QED
    BY <2>3, <2>4
<1>6. fits # {} => w \in fits /\ Min(fits) = w
  <2>1. SUFFICES ASSUME fits # {} PROVE w \in fits /\ Min(fits) = w
    OBVIOUS
  <2>2. w \in fits /\ fits \in SUBSET Nat /\ \A i \in fits : w <= i
    BY <1>1, <1>2, <1>4, <1>5, <2>1
  <2> HIDE DEF fits
  <2>3. QED
    BY <2>2, MinIs
<1>7. \A i \in 1..n : keys[i] = p => i \in fits
  BY <1>1, PrefixPoint
<1>8. find_idx(keys, p) = IF fits = {} THEN None ELSE w
  <2>1. CASE IsThere(keys, p)
    <3>1. find_idx(keys, p) = w
      BY <1>3, <2>1 DEF find_idx
    <3>2. fits # {}
      BY <1>7, <2>1 DEF IsThere
    <3> HIDE DEF fits
    <3>3. QED
      BY <3>1, <3>2
  <2>2. CASE ~IsThere(keys, p) /\ n = 0
    <3>1. keys = <<>> /\ fits = {}
      BY <2>2
    <3>2. QED
      BY <2>2, <3>1 DEF find_idx
  <2>3. CASE ~IsThere(keys, p) /\ n # 0
    <3> DEFINE i == Min({Max({n, 1}), w})
    <3>1. keys # <<>>
      BY <2>3
    <3>2. Max({n, 1}) = n
      BY <1>1, <2>3 DEF Max
    <3>3. i = IF w <= n THEN w ELSE n
      BY <1>1, <1>3, <3>2 DEF Min
    <3>4. find_idx(keys, p) = IF IsPrefix(p, keys[i]) THEN i ELSE None
      BY <1>3, <2>3, <3>1 DEF find_idx
    <3>5. i \in 1..n
      BY <1>1, <1>3, <2>3, <3>3
    <3> HIDE DEF i
    <3>6. CASE fits = {}
      BY <3>4, <3>5, <3>6
    <3>7. CASE fits # {}
      <4>1. w \in fits /\ w <= n /\ IsPrefix(p, keys[w])
        BY <1>1, <1>6, <3>7
      <4>2. QED
        BY <3>3, <3>4, <3>7, <4>1
    <3>8. QED
      BY <3>6, <3>7
  <2>4. QED
    BY <2>1, <2>2, <2>3
<1>9. QED
  <2>1. FindsFirst(keys, p) <=> find_idx(keys, p) = IF fits = {} THEN None ELSE Min(fits)
    BY DEF FindsFirst
  <2> HIDE DEF fits
  <2>2. QED
    BY <1>6, <1>8, <2>1

-----------------------------------------------------------------------------
(***************************************************************************)
(* The bulk insertion, for entries of any kind with numbers for keys.      *)
(***************************************************************************)

LEMMA Ascends ==
  ASSUME NEW n \in Nat, NEW f \in [1..n -> Int], \A i \in 1..(n - 1) : f[i] < f[i + 1]
  PROVE  \A i, j \in 1..n : i < j => f[i] < f[j]
<1> DEFINE P == {d \in Nat : \A i \in 1..n : i + d + 1 <= n => f[i] < f[i + d + 1]}
<1>1. 0 \in P
  <2>1. ASSUME NEW i \in 1..n, i + 0 + 1 <= n PROVE f[i] < f[i + 0 + 1]
    <3>1. i \in 1..(n - 1) /\ i + 0 + 1 = i + 1
      BY <2>1
    <3>2. QED
      BY <3>1
  <2>2. QED
    BY <2>1
<1>2. ASSUME NEW d \in Nat, d \in P PROVE d + 1 \in P
  <2>1. ASSUME NEW i \in 1..n, i + (d + 1) + 1 <= n PROVE f[i] < f[i + (d + 1) + 1]
    <3>1. /\ i + d + 1 \in 1..(n - 1) /\ (i + d + 1) + 1 = i + (d + 1) + 1
          /\ i + (d + 1) + 1 \in 1..n
      BY <2>1
    <3>2. f[i] < f[i + d + 1] /\ f[i + d + 1] < f[(i + d + 1) + 1]
      BY <1>2, <3>1
    <3>3. f[i] \in Int /\ f[i + d + 1] \in Int /\ f[(i + d + 1) + 1] \in Int
      BY <3>1
    <3>4. QED
      BY <3>1, <3>2, <3>3
  <2>2. QED
    BY <2>1
<1> HIDE DEF P
<1>3. \A d \in Nat : d \in P
  BY <1>1, <1>2, Induction
<1>4. ASSUME NEW i \in 1..n, NEW j \in 1..n, i < j PROVE f[i] < f[j]
  <2>1. j - i - 1 \in P /\ i + (j - i - 1) + 1 = j
    BY <1>3, <1>4
  <2>2. QED
    BY <2>1 DEF P
<1>5. QED
  BY <1>4

LEMMA Climbs ==
  ASSUME NEW n \in Nat, NEW f \in [1..n -> Int], \A i \in 1..(n - 1) : f[i] <= f[i + 1]
  PROVE  \A i, j \in 1..n : i <= j => f[i] <= f[j]
<1> DEFINE P == {d \in Nat : \A i \in 1..n : i + d <= n => f[i] <= f[i + d]}
<1>1. 0 \in P
  OBVIOUS
<1>2. ASSUME NEW d \in Nat, d \in P PROVE d + 1 \in P
  <2>1. ASSUME NEW i \in 1..n, i + (d + 1) <= n PROVE f[i] <= f[i + (d + 1)]
    <3>1. i + d \in 1..(n - 1) /\ (i + d) + 1 = i + (d + 1) /\ i + (d + 1) \in 1..n
      BY <2>1
    <3>2. f[i] <= f[i + d] /\ f[i + d] <= f[(i + d) + 1]
      BY <1>2, <3>1
    <3>3. f[i] \in Int /\ f[i + d] \in Int /\ f[(i + d) + 1] \in Int
      BY <3>1
    <3>4. QED
      BY <3>1, <3>2, <3>3
  <2>2. QED
    BY <2>1
<1> HIDE DEF P
<1>3. \A d \in Nat : d \in P
  BY <1>1, <1>2, Induction
<1>4. ASSUME NEW i \in 1..n, NEW j \in 1..n, i <= j PROVE f[i] <= f[j]
  <2>1. j - i \in P /\ i + (j - i) = j
    BY <1>3, <1>4
  <2>2. QED
    BY <2>1 DEF P
<1>5. QED
  BY <1>4

\* The largest of finitely many numbers.
LEMMA GreatestNumber ==
  ASSUME NEW n \in Nat, NEW T \in SUBSET (1..n), T # {}
  PROVE  Max(T) \in T /\ \A i \in T : i <= Max(T)
<1> DEFINE U == {n - i : i \in T}
<1>1. U \in SUBSET Nat /\ U # {}
  <2>1. \A i \in T : n - i \in Nat
    OBVIOUS
  <2>2. QED
    BY <2>1
<1> HIDE DEF U
<1>2. PICK u \in U : \A x \in U : u <= x
  BY <1>1, LeastNumber
<1> USE DEF U
<1>3. PICK m \in T : u = n - m
  BY <1>2
<1>4. \A i \in T : m >= i
  <2>1. TAKE i \in T
  <2>2. n - i \in U
    OBVIOUS
  <2>3. u <= n - i /\ i \in 1..n /\ m \in 1..n
    BY <1>2, <2>2
  <2>4. QED
    BY <1>3, <2>3
<1>5. Max(T) \in T /\ \A i \in T : Max(T) >= i
  BY <1>3, <1>4 DEF Max
<1>6. QED
  BY <1>5

-----------------------------------------------------------------------------
\* Entries whose keys are numbers.
Entries(E) == \A e \in E : KeyOf(e) \in Int

LEMMA SortedPairs ==
  ASSUME NEW E, Entries(E), NEW v \in Seq(E), Sorted(v)
  PROVE  \A i, j \in 1..Len(v) : i < j => KeyOf(v[i]) < KeyOf(v[j])
<1> DEFINE n == Len(v)
           f == [i \in 1..n |-> KeyOf(v[i])]
<1>1. n \in Nat /\ f \in [1..n -> Int]
  BY DEF Entries
<1>2. \A i \in 1..(n - 1) : f[i] < f[i + 1]
  BY DEF Sorted
<1>3. \A i \in 1..n : f[i] = KeyOf(v[i])
  OBVIOUS
<1> HIDE DEF f
<1>4. \A i, j \in 1..n : i < j => f[i] < f[j]
  BY <1>1, <1>2, Ascends
<1>5. QED
  BY <1>3, <1>4

\* The entry inserted last for each key.
IsLast(v, i) == \A j \in 1..Len(v) : KeyOf(v[j]) = KeyOf(v[i]) => j <= i

LastEntries(v) == {v[i] : i \in {j \in 1..Len(v) : IsLast(v, j)}}

LEMMA LastOfEachKey ==
  ASSUME NEW E, NEW v \in Seq(E)
  PROVE  {v[Max({i \in 1..Len(v) : KeyOf(v[i]) = k})] : k \in Keys(v)} = LastEntries(v)
<1> DEFINE n == Len(v)
           with(k) == {i \in 1..n : KeyOf(v[i]) = k}
<1>0. n \in Nat
  OBVIOUS
<1>1. ASSUME NEW k \in Keys(v)
      PROVE  Max(with(k)) \in with(k) /\ \A i \in with(k) : i <= Max(with(k))
  <2>1. with(k) \in SUBSET (1..n) /\ with(k) # {}
    BY DEF Keys
  <2> HIDE DEF with
  <2>2. QED
    BY <1>0, <2>1, GreatestNumber
<1>2. ASSUME NEW k \in Keys(v)
      PROVE  Max(with(k)) \in {j \in 1..n : IsLast(v, j)}
  BY <1>1 DEF IsLast
<1>3. ASSUME NEW i \in 1..n, IsLast(v, i) PROVE \E k \in Keys(v) : i = Max(with(k))
  <2>1. KeyOf(v[i]) \in Keys(v) /\ i \in with(KeyOf(v[i]))
    BY DEF Keys
  <2>2. Max(with(KeyOf(v[i]))) <= i /\ i <= Max(with(KeyOf(v[i])))
    BY <1>1, <1>3, <2>1 DEF IsLast
  <2>3. Max(with(KeyOf(v[i]))) \in 1..n
    BY <1>1, <2>1
  <2>4. Max(with(KeyOf(v[i]))) = i
    BY <2>2, <2>3
  <2> HIDE DEF with
  <2>5. QED
    BY <2>1, <2>4
<1>4. \A k \in Keys(v) : v[Max(with(k))] \in LastEntries(v)
  BY <1>2 DEF LastEntries
<1>5. \A e \in LastEntries(v) : \E k \in Keys(v) : e = v[Max(with(k))]
  <2>1. TAKE e \in LastEntries(v)
  <2>2. PICK i \in 1..n : IsLast(v, i) /\ e = v[i]
    BY DEF LastEntries
  <2>3. QED
    BY <1>3, <2>2
<1> HIDE DEF with
<1>6. {v[Max(with(k))] : k \in Keys(v)} = LastEntries(v)
  BY <1>4, <1>5
<1>7. QED
  BY <1>6 DEF with

\* What the insertion must give for the entries v, old and new.
InsertedWell(v, got) == Sorted(got) /\ {got[i] : i \in 1..Len(got)} = LastEntries(v)

LEMMA SortedIsInserted ==
  ASSUME NEW E, Entries(E), NEW v \in Seq(E), Sorted(v)
  PROVE  InsertedWell(v, v)
<1>1. \A i \in 1..Len(v) : IsLast(v, i)
  <2>1. ASSUME NEW i \in 1..Len(v), NEW j \in 1..Len(v), KeyOf(v[j]) = KeyOf(v[i]), i < j
        PROVE  FALSE
    <3>1. KeyOf(v[i]) < KeyOf(v[j]) /\ KeyOf(v[i]) \in Int
      BY <2>1, SortedPairs DEF Entries
    <3>2. QED
      BY <2>1, <3>1
  <2>2. Len(v) \in Nat
    OBVIOUS
  <2>3. QED
    BY <2>1, <2>2 DEF IsLast
<1>2. QED
  BY <1>1 DEF InsertedWell, LastEntries

-----------------------------------------------------------------------------
\* If all is counted as sorted, it is.
LEMMA CountedIsSorted ==
  ASSUME NEW E, Entries(E), NEW v \in Seq(E), NEW n \in 0..Len(v),
         \A i \in 1..(n - 1) : KeyOf(v[i]) < KeyOf(v[i + 1]), SortedLength(v, n) >= Len(v)
  PROVE  Sorted(v)
<1> DEFINE len == Len(v)
           from == Max({n, 1})
           up(i) == KeyOf(v[i]) < KeyOf(v[i + 1])
           Run(c) == /\ \A i \in from..(from + c - 1) : KeyOf(v[i]) < KeyOf(v[i + 1])
                     /\ from + c < Len(v) => KeyOf(v[from + c]) >= KeyOf(v[from + c + 1])
                     /\ from + c <= Max({Len(v), 1})
           run == CHOOSE c \in 0..Len(v) : Run(c)
<1>1. /\ len \in Nat /\ n \in Nat /\ n <= len
      /\ from = (IF n = 0 THEN 1 ELSE n) /\ Max({len, 1}) = (IF len = 0 THEN 1 ELSE len)
  BY DEF Max
<1>2. \A i \in 1..len : KeyOf(v[i]) \in Int
  BY DEF Entries
<1>3. \E c \in 0..len : Run(c)
  <2> DEFINE T == {c \in Nat : ~(from + c < len /\ up(from + c))}
  <2>1. len \in T /\ T \in SUBSET Nat
    BY <1>1
  <2>2. PICK c \in T : \A d \in T : c <= d
    <3> HIDE DEF T
    <3>1. QED
      BY <2>1, LeastNumber
  <2>3. ASSUME NEW d \in 0..(c - 1) PROVE from + d < len /\ up(from + d)
    <3>1. d \in Nat /\ ~(c <= d)
      BY <2>1, <2>2
    <3>2. d \notin T
      BY <2>2, <3>1
    <3> HIDE DEF up, from
    <3>3. QED
      BY <3>1, <3>2
  <2>4. c \in 0..len
    <3>1. c \in Nat /\ c <= len
      BY <2>1, <2>2
    <3>2. QED
      BY <1>1, <3>1
  <2>5. \A i \in from..(from + c - 1) : up(i)
    <3>1. ASSUME NEW i \in from..(from + c - 1) PROVE up(i)
      <4>1. i - from \in 0..(c - 1) /\ from + (i - from) = i
        BY <1>1, <2>4
      <4>2. QED
        BY <2>3, <4>1
    <3>2. QED
      BY <3>1
  <2>6. from + c <= Max({len, 1})
    <3>1. CASE c = 0
      BY <1>1, <3>1
    <3>2. CASE c # 0
      <4>1. c - 1 \in 0..(c - 1)
        BY <2>4, <3>2
      <4>2. from + (c - 1) < len
        BY <2>3, <4>1
      <4>3. QED
        BY <1>1, <2>4, <4>2
    <3>3. QED
      BY <3>1, <3>2
  <2>7. from + c < len => KeyOf(v[from + c]) >= KeyOf(v[from + c + 1])
    <3>1. SUFFICES ASSUME from + c < len PROVE KeyOf(v[from + c]) >= KeyOf(v[from + c + 1])
      OBVIOUS
    <3>2. from + c \in 1..len /\ from + c + 1 \in 1..len /\ ~up(from + c)
      BY <1>1, <2>2, <2>4, <3>1
    <3>3. KeyOf(v[from + c]) \in Int /\ KeyOf(v[from + c + 1]) \in Int
      BY <1>2, <3>2
    <3>4. QED
      BY <3>2, <3>3
  <2>8. Run(c)
    BY <2>5, <2>6, <2>7
  <2> HIDE DEF Run
  <2>9. QED
    BY <2>4, <2>8
<1>4. run \in 0..len /\ Run(run)
  <2> HIDE DEF Run
  <2>1. QED
    BY <1>3
<1>5. SortedLength(v, n) = IF n + run = 0 /\ v # <<>> THEN 1 ELSE n + run
  BY DEF SortedLength
<1> HIDE DEF run
<1>6. ASSUME NEW i \in 1..(len - 1) PROVE up(i)
  <2>1. CASE i < from
    BY <1>1, <2>1
  <2>2. CASE i >= from
    <3>1. v # <<>>
      OBVIOUS
    <3>2. from + run >= len
      BY <1>1, <1>4, <1>5, <3>1
    <3>3. i \in from..(from + run - 1)
      BY <1>1, <1>4, <2>2, <3>2
    <3>4. QED
      BY <1>4, <3>3
  <2>3. QED
    BY <1>1, <2>1, <2>2
<1>7. QED
  BY <1>6 DEF Sorted

-----------------------------------------------------------------------------
\* w has the entries of v at the places `at`, and an entry goes behind those of
\* lesser keys and the earlier ones of its own.
SortsStably(v, w, at) ==
  /\ Len(w) = Len(v) /\ at \in [1..Len(v) -> 1..Len(v)]
  /\ \A p \in 1..Len(v) : w[p] = v[at[p]]
  /\ \A i \in 1..Len(v) : \E p \in 1..Len(v) : at[p] = i
  /\ \A p, q \in 1..Len(v) : p < q => at[p] # at[q] /\ GoesBefore(v, at[p], at[q])

LEMMA GoesBeforeOrders ==
  ASSUME NEW E, Entries(E), NEW v \in Seq(E)
  PROVE  /\ \A i \in 1..Len(v) : GoesBefore(v, i, i)
         /\ \A i, j \in 1..Len(v) : GoesBefore(v, i, j) \/ GoesBefore(v, j, i)
         /\ \A i, j \in 1..Len(v) : i # j => ~(GoesBefore(v, i, j) /\ GoesBefore(v, j, i))
         /\ \A i, j, k \in 1..Len(v) :
              GoesBefore(v, i, j) /\ GoesBefore(v, j, k) => GoesBefore(v, i, k)
<1>1. \A i \in 1..Len(v) : KeyOf(v[i]) \in Int /\ i \in Int
  BY DEF Entries
<1>2. QED
  BY <1>1 DEF GoesBefore

LEMMA Ranks ==
  ASSUME NEW E, Entries(E), NEW v \in Seq(E)
  PROVE  /\ \A i \in 1..Len(v) : Rank(v, i) \in 1..Len(v)
         /\ \A i, j \in 1..Len(v) :
              i # j /\ GoesBefore(v, i, j) => Rank(v, i) < Rank(v, j)
<1> DEFINE n == Len(v)
           upto(i) == {j \in 1..n : GoesBefore(v, j, i)}
<1>1. n \in Nat /\ IsFiniteSet(1..n) /\ Cardinality(1..n) = n
  <2>1. n \in Nat
    OBVIOUS
  <2>2. IsFiniteSet(1..n) /\ Cardinality(1..n) = IF 1 > n THEN 0 ELSE n - 1 + 1
    BY <2>1, FS_Interval
  <2>3. QED
    BY <2>1, <2>2
<1>2. ASSUME NEW i \in 1..n
      PROVE  /\ IsFiniteSet(upto(i)) /\ Cardinality(upto(i)) \in 1..n /\ Rank(v, i) = Cardinality(upto(i))
  <2>1. upto(i) \in SUBSET (1..n) /\ i \in upto(i)
    BY GoesBeforeOrders
  <2>2. Rank(v, i) = Cardinality(upto(i))
    BY DEF Rank
  <2> HIDE DEF upto
  <2>3. IsFiniteSet(upto(i)) /\ Cardinality(upto(i)) <= n
    BY <1>1, <2>1, FS_Subset
  <2>4. Cardinality(upto(i)) \in Nat /\ Cardinality(upto(i)) # 0
    BY <2>1, <2>3, FS_CardinalityType, FS_EmptySet
  <2>5. QED
    BY <1>1, <2>2, <2>3, <2>4
<1>3. ASSUME NEW i \in 1..n, NEW j \in 1..n, i # j, GoesBefore(v, i, j)
      PROVE  Rank(v, i) < Rank(v, j)
  <2>1. upto(i) \in SUBSET upto(j)
    BY <1>3, GoesBeforeOrders
  <2>2. j \in upto(j) /\ j \notin upto(i)
    BY <1>3, GoesBeforeOrders
  <2> HIDE DEF upto
  <2>3. upto(i) # upto(j)
    BY <2>2
  <2>4. Cardinality(upto(i)) <= Cardinality(upto(j)) /\ Cardinality(upto(j)) # Cardinality(upto(i))
    BY <1>2, <2>1, <2>3, FS_Subset
  <2>5. QED
    BY <1>2, <2>4
<1>4. QED
  BY <1>2, <1>3

LEMMA SortIsStable ==
  ASSUME NEW E, Entries(E), NEW v \in Seq(E)
  PROVE  StableSort(v) \in Seq(E) /\ \E at : SortsStably(v, StableSort(v), at)
<1> DEFINE n == Len(v)
           rank == [i \in 1..n |-> Rank(v, i)]
           at == [p \in 1..n |-> CHOOSE i \in 1..n : Rank(v, i) = p]
<1>1. n \in Nat /\ IsFiniteSet(1..n)
  BY FS_Interval
<1>2. rank \in [1..n -> 1..n] /\ \A i \in 1..n : rank[i] = Rank(v, i)
  BY Ranks
<1>3. ASSUME NEW i \in 1..n, NEW j \in 1..n, i # j PROVE Rank(v, i) # Rank(v, j)
  <2>1. Rank(v, i) < Rank(v, j) \/ Rank(v, j) < Rank(v, i)
    BY <1>3, Ranks, GoesBeforeOrders
  <2>2. Rank(v, i) \in 1..n /\ Rank(v, j) \in 1..n
    BY Ranks
  <2>3. QED
    BY <2>1, <2>2
<1>4. \A p \in 1..n : \E i \in 1..n : Rank(v, i) = p
  <2> HIDE DEF rank
  <2>1. rank \in Injection(1..n, 1..n)
    BY <1>2, <1>3 DEF Injection, IsInjective
  <2>2. rank \in Surjection(1..n, 1..n)
    BY <1>1, <2>1, FS_Injection
  <2>3. QED
    BY <1>2, <2>2 DEF Surjection
<1>5. at \in [1..n -> 1..n] /\ \A p \in 1..n : Rank(v, at[p]) = p
  BY <1>4
<1>6. StableSort(v) = [p \in 1..n |-> v[at[p]]]
  BY DEF StableSort
<1> HIDE DEF at
<1>7. \A i \in 1..n : \E p \in 1..n : at[p] = i
  <2>1. TAKE i \in 1..n
  <2>2. Rank(v, i) \in 1..n
    BY Ranks
  <2>3. at[Rank(v, i)] \in 1..n /\ Rank(v, at[Rank(v, i)]) = Rank(v, i)
    BY <1>5, <2>2
  <2>4. at[Rank(v, i)] = i
    BY <1>3, <2>3
  <2>5. QED
    BY <2>2, <2>4
<1>8. ASSUME NEW p \in 1..n, NEW q \in 1..n, p < q
      PROVE  at[p] # at[q] /\ GoesBefore(v, at[p], at[q])
  <2>1. /\ at[p] \in 1..n /\ at[q] \in 1..n
        /\ Rank(v, at[p]) = p /\ Rank(v, at[q]) = q
    BY <1>5
  <2>2. at[p] # at[q]
    BY <1>8, <2>1
  <2>3. ~(Rank(v, at[q]) < Rank(v, at[p]))
    BY <1>1, <1>8, <2>1
  <2>4. QED
    BY <2>1, <2>2, <2>3, Ranks, GoesBeforeOrders
<1>9. StableSort(v) \in Seq(E) /\ Len(StableSort(v)) = n /\ \A p \in 1..n : StableSort(v)[p] = v[at[p]]
  BY <1>1, <1>5, <1>6
<1>10. SortsStably(v, StableSort(v), at)
  BY <1>5, <1>7, <1>8, <1>9 DEF SortsStably
<1>11. QED
  BY <1>9, <1>10

\* Where an entry of a sorted sequence is the last of its key.
EndsRun(w, j, n) == j = n \/ KeyOf(w[j]) # KeyOf(w[j + 1])

LEMMA SortedClimbs ==
  ASSUME NEW E, Entries(E), NEW v \in Seq(E), NEW w \in Seq(E), NEW at, SortsStably(v, w, at)
  PROVE  \A p, q \in 1..Len(w) : p <= q => KeyOf(w[p]) <= KeyOf(w[q])
<1>1. \A p \in 1..Len(w) : KeyOf(w[p]) \in Int
  BY DEF Entries
<1>2. ASSUME NEW p \in 1..Len(w), NEW q \in 1..Len(w), p < q PROVE KeyOf(w[p]) <= KeyOf(w[q])
  <2>1. p \in 1..Len(v) /\ q \in 1..Len(v)
    BY DEF SortsStably
  <2>2. w[p] = v[at[p]] /\ w[q] = v[at[q]] /\ GoesBefore(v, at[p], at[q])
    BY <1>2, <2>1 DEF SortsStably
  <2>3. KeyOf(w[p]) < KeyOf(w[q]) \/ KeyOf(w[p]) = KeyOf(w[q])
    BY <2>2 DEF GoesBefore
  <2>4. QED
    BY <1>1, <2>3
<1>3. QED
  <2>1. TAKE p, q \in 1..Len(w)
  <2>2. CASE p = q
    BY <1>1, <2>2
  <2>3. CASE p < q
    BY <1>2, <2>3
  <2>4. Len(w) \in Nat
    OBVIOUS
  <2>5. QED
    BY <2>2, <2>3, <2>4

\* The ends of the runs are the entries inserted last.
LEMMA RunsEndWithLast ==
  ASSUME NEW E, Entries(E), NEW v \in Seq(E), NEW w \in Seq(E), NEW at, SortsStably(v, w, at)
  PROVE  {w[p] : p \in {q \in 1..Len(w) : EndsRun(w, q, Len(w))}} = LastEntries(v)
<1> DEFINE n == Len(w)
<1>1. /\ n \in Nat /\ n = Len(v) /\ at \in [1..n -> 1..n]
      /\ \A p \in 1..n : w[p] = v[at[p]] /\ KeyOf(w[p]) \in Int
      /\ \A i \in 1..n : \E p \in 1..n : at[p] = i
      /\ \A p, q \in 1..n : p < q => at[p] # at[q] /\ GoesBefore(v, at[p], at[q])
  <2>1. n \in Nat /\ \A p \in 1..n : w[p] \in E
    OBVIOUS
  <2>2. n = Len(v)
    BY DEF SortsStably
  <2> HIDE DEF n
  <2>3. QED
    BY <2>1, <2>2, Zenon DEF SortsStably, Entries
<1>2. \A p, q \in 1..n : p <= q => KeyOf(w[p]) <= KeyOf(w[q])
  BY SortedClimbs
<1>a. n \in Nat /\ at \in [1..n -> 1..n]
  BY <1>1, Zenon
<1> HIDE DEF n
<1>3. ASSUME NEW p \in 1..n, EndsRun(w, p, n) PROVE IsLast(v, at[p])
  <2>1. SUFFICES ASSUME NEW i \in 1..n, KeyOf(v[i]) = KeyOf(v[at[p]]), i > at[p] PROVE FALSE
    <3>1. \A i \in 1..n : i \in Int /\ at[p] \in Int
      BY <1>a
    <3>2. \A i \in 1..n : ~(i > at[p]) => i <= at[p]
      BY <3>1
    <3>3. QED
      BY <1>1, <3>2, Zenon DEF IsLast
  <2>2. PICK q \in 1..n : at[q] = i
    BY <1>1
  <2>3. KeyOf(w[q]) = KeyOf(w[p]) /\ KeyOf(w[p]) \in Int /\ at[p] \in 1..n
    BY <1>1, <2>1, <2>2
  <2>4. q # p
    BY <2>1, <2>2, <2>3
  <2>5. CASE q < p
    <3>1. GoesBefore(v, i, at[p])
      BY <1>1, <2>2, <2>5
    <3>2. i <= at[p]
      BY <1>1, <2>1, <2>2, <2>3, <3>1 DEF GoesBefore
    <3>3. QED
      BY <2>1, <2>3, <3>2
  <2>6. CASE p < q
    <3>1. p + 1 \in 1..n /\ p + 1 <= q /\ p <= p + 1 /\ p # n
      <4>1. n \in Nat /\ p \in Nat /\ q \in Nat /\ 1 <= p /\ q <= n /\ p < q
        BY <1>a, <2>6
      <4>2. QED
        BY <4>1
    <3>2. KeyOf(w[p]) <= KeyOf(w[p + 1]) /\ KeyOf(w[p + 1]) <= KeyOf(w[q])
      BY <1>2, <3>1
    <3>3. KeyOf(w[p + 1]) \in Int
      BY <1>1, <3>1
    <3>4. KeyOf(w[p]) = KeyOf(w[p + 1])
      BY <2>3, <3>2, <3>3
    <3>5. QED
      BY <1>3, <3>1, <3>4 DEF EndsRun
  <2>7. QED
    BY <1>1, <2>4, <2>5, <2>6
<1>4. ASSUME NEW i \in 1..n, IsLast(v, i) PROVE \E p \in 1..n : EndsRun(w, p, n) /\ w[p] = v[i]
  <2>1. PICK p \in 1..n : at[p] = i
    BY <1>1
  <2>2. ASSUME p # n, KeyOf(w[p]) = KeyOf(w[p + 1]) PROVE FALSE
    <3>1. p + 1 \in 1..n /\ p < p + 1
      BY <1>1, <2>2
    <3>2. at[p] # at[p + 1] /\ GoesBefore(v, at[p], at[p + 1]) /\ at[p + 1] \in 1..n
      BY <1>1, <3>1
    <3>3. KeyOf(v[at[p]]) = KeyOf(v[at[p + 1]]) /\ KeyOf(v[at[p]]) \in Int
      BY <1>1, <2>2, <3>1
    <3>4. at[p] <= at[p + 1]
      BY <3>2, <3>3 DEF GoesBefore
    <3>5. at[p + 1] <= i
      BY <1>1, <1>4, <2>1, <3>2, <3>3 DEF IsLast
    <3>6. QED
      BY <2>1, <3>2, <3>4, <3>5
  <2>3. QED
    BY <1>1, <2>1, <2>2 DEF EndsRun
<1>5. QED
  <2>1. ASSUME NEW p \in 1..n, EndsRun(w, p, n)
        PROVE  \E i \in 1..n : IsLast(v, i) /\ v[i] = w[p]
    <3>1. at[p] \in 1..n /\ v[at[p]] = w[p]
      BY <1>1
    <3>2. QED
      BY <1>3, <2>1, <3>1
  <2>2. LastEntries(v) = {v[i] : i \in {j \in 1..n : IsLast(v, j)}}
    BY <1>1, Zenon DEF LastEntries
  <2>3. {w[p] : p \in {q \in 1..n : EndsRun(w, q, n)}}
          = {v[i] : i \in {j \in 1..n : IsLast(v, j)}}
    <3>1. \A p \in {q \in 1..n : EndsRun(w, q, n)} :
            \E i \in {j \in 1..n : IsLast(v, j)} : v[i] = w[p]
      BY <2>1
    <3>2. \A i \in {j \in 1..n : IsLast(v, j)} :
            \E p \in {q \in 1..n : EndsRun(w, q, n)} : w[p] = v[i]
      BY <1>4
    <3>3. QED
      BY <3>1, <3>2
  <2>4. QED
    BY <2>2, <2>3 DEF n

-----------------------------------------------------------------------------
LEMMA SwapExchanges ==
  ASSUME NEW E, NEW v \in Seq(E), NEW i \in 1..Len(v), NEW j \in 1..Len(v)
  PROVE  /\ Swap(v, i, j) \in Seq(E) /\ Len(Swap(v, i, j)) = Len(v)
         /\ Swap(v, i, j)[i] = v[j] /\ Swap(v, i, j)[j] = v[i]
         /\ \A k \in 1..Len(v) : k # i /\ k # j => Swap(v, i, j)[k] = v[k]
BY DEF Swap

\* After reading k entries of w: the first c of u are kept, in order, the last
\* of them is the one just read, they are the ends of the runs, and what is not
\* read yet is where it was.
Kept(E, w, u, c, k) ==
  /\ u \in Seq(E) /\ Len(u) = Len(w) /\ c \in 1..k
  /\ \A i \in (k + 1)..Len(w) : u[i] = w[i]
  /\ \A i, j \in 1..c : i < j => KeyOf(u[i]) < KeyOf(u[j])
  /\ u[c] = w[k]
  /\ \A i \in 1..c : \E j \in 1..k : EndsRun(w, j, k) /\ u[i] = w[j]
  /\ \A j \in 1..k : EndsRun(w, j, k) => \E i \in 1..c : u[i] = w[j]

Ascending(E, w) ==
  /\ w \in Seq(E)
  /\ \A p, q \in 1..Len(w) : p <= q => KeyOf(w[p]) <= KeyOf(w[q])

LEMMA FirstIsKept ==
  ASSUME NEW E, NEW w, Ascending(E, w), Len(w) >= 1
  PROVE  Kept(E, w, w, 1, 1)
<1>1. w \in Seq(E) /\ Len(w) \in Nat
  BY DEF Ascending
<1>2. EndsRun(w, 1, 1)
  BY DEF EndsRun
<1>3. QED
  BY <1>1, <1>2 DEF Kept

\* The entry read has the key of the one read before, and takes its place.
LEMMA RepeatReplaces ==
  ASSUME NEW E, Entries(E), NEW w, Ascending(E, w), NEW k \in Nat, k >= 1, k + 1 <= Len(w),
         NEW u, NEW c, Kept(E, w, u, c, k), KeyOf(w[k + 1]) = KeyOf(w[k])
  PROVE  Kept(E, w, Swap(u, k + 1, c), c, k + 1)
<1> DEFINE n == Len(w)
           x == Swap(u, k + 1, c)
<1>1. /\ w \in Seq(E) /\ n \in Nat /\ k \in 1..n /\ k + 1 \in 1..n
      /\ \A i \in 1..n : KeyOf(w[i]) \in Int
      /\ \A p, q \in 1..n : p <= q => KeyOf(w[p]) <= KeyOf(w[q])
  <2>1. w \in Seq(E) /\ \A p, q \in 1..n : p <= q => KeyOf(w[p]) <= KeyOf(w[q])
    BY DEF Ascending
  <2>2. n \in Nat /\ \A i \in 1..n : KeyOf(w[i]) \in Int
    BY <2>1 DEF Entries
  <2>3. k \in 1..n /\ k + 1 \in 1..n
    BY <2>2
  <2>4. QED
    BY <2>1, <2>2, <2>3
<1>2. u \in Seq(E) /\ Len(u) = n /\ c \in 1..k /\ c \in 1..n
  BY <1>1 DEF Kept
<1>3. \A i \in 1..n : KeyOf(u[i]) \in Int
  BY <1>2 DEF Entries
<1>4. /\ \A i \in (k + 1)..n : u[i] = w[i]
      /\ \A i, j \in 1..c : i < j => KeyOf(u[i]) < KeyOf(u[j])
      /\ u[c] = w[k]
      /\ \A i \in 1..c : \E j \in 1..k : EndsRun(w, j, k) /\ u[i] = w[j]
      /\ \A j \in 1..k : EndsRun(w, j, k) => \E i \in 1..c : u[i] = w[j]
  BY DEF Kept
<1>5. /\ x \in Seq(E) /\ Len(x) = n /\ x[c] = w[k + 1]
      /\ \A i \in 1..n : i # c /\ i # k + 1 => x[i] = u[i]
  <2>1. u[k + 1] = w[k + 1]
    BY <1>1, <1>4
  <2>2. k + 1 \in 1..Len(u) /\ c \in 1..Len(u)
    BY <1>1, <1>2
  <2>3. QED
    BY <1>2, <2>1, <2>2, SwapExchanges
<1> HIDE DEF x, n
<1>6. \A i \in (k + 2)..n : x[i] = w[i]
  BY <1>1, <1>2, <1>4, <1>5
<1>7. \A i \in 1..c : i # c => x[i] = u[i] /\ i < c
  BY <1>1, <1>2, <1>5
<1>8. ASSUME NEW i \in 1..c, NEW j \in 1..c, i < j PROVE KeyOf(x[i]) < KeyOf(x[j])
  <2>1. KeyOf(u[i]) < KeyOf(u[j]) /\ x[i] = u[i]
    BY <1>2, <1>4, <1>7, <1>8
  <2>2. KeyOf(x[j]) = KeyOf(u[j])
    BY <1>4, <1>5, <1>7
  <2>3. QED
    BY <2>1, <2>2
<1>9. ASSUME NEW i \in 1..c
      PROVE  \E j \in 1..(k + 1) : EndsRun(w, j, k + 1) /\ x[i] = w[j]
  <2>1. CASE i = c
    <3>1. k + 1 \in 1..(k + 1) /\ EndsRun(w, k + 1, k + 1)
      BY DEF EndsRun
    <3>2. QED
      BY <1>5, <2>1, <3>1
  <2>2. CASE i # c
    <3>1. PICK j \in 1..k : EndsRun(w, j, k) /\ u[i] = w[j]
      BY <1>4
    <3>2. KeyOf(w[j]) < KeyOf(w[k]) /\ KeyOf(w[k]) \in Int
      BY <1>1, <1>2, <1>4, <1>7, <2>2, <3>1
    <3>3. j # k
      BY <3>2
    <3>4. EndsRun(w, j, k + 1) /\ j \in 1..(k + 1)
      BY <3>1, <3>3 DEF EndsRun
    <3>5. QED
      BY <1>7, <2>2, <3>1, <3>4
  <2>3. QED
    BY <2>1, <2>2
<1>10. ASSUME NEW j \in 1..(k + 1), EndsRun(w, j, k + 1)
       PROVE  \E i \in 1..c : x[i] = w[j]
  <2>1. CASE j = k + 1
    BY <1>2, <1>5, <2>1
  <2>2. CASE j # k + 1
    <3>1. j \in 1..k /\ KeyOf(w[j]) # KeyOf(w[j + 1])
      BY <1>10, <2>2 DEF EndsRun
    <3>2. j # k
      BY <3>1, KeyOf(w[k + 1]) = KeyOf(w[k])
    <3>3. PICK i \in 1..c : u[i] = w[j]
      BY <1>4, <3>1 DEF EndsRun
    <3>4. KeyOf(w[j]) # KeyOf(w[k])
      <4>1. j \in 1..n /\ j + 1 \in 1..n /\ k \in 1..n /\ j <= j + 1 /\ j + 1 <= k
        BY <1>1, <3>1, <3>2
      <4>2. KeyOf(w[j]) <= KeyOf(w[j + 1]) /\ KeyOf(w[j + 1]) <= KeyOf(w[k])
        BY <1>1, <4>1
      <4>3. KeyOf(w[j]) \in Int /\ KeyOf(w[j + 1]) \in Int /\ KeyOf(w[k]) \in Int
        BY <1>1, <4>1
      <4>4. QED
        BY <3>1, <4>2, <4>3
    <3>5. i # c
      BY <1>4, <3>3, <3>4
    <3>6. QED
      BY <1>7, <3>3, <3>5
  <2>3. QED
    BY <2>1, <2>2
<1>11. c \in 1..(k + 1)
  BY <1>2
<1>12. QED
  BY <1>5, <1>6, <1>8, <1>9, <1>10, <1>11 DEF Kept, x, n

\* The entry read has a new key, and is kept behind the others.
LEMMA NewKeyIsKept ==
  ASSUME NEW E, Entries(E), NEW w, Ascending(E, w), NEW k \in Nat, k >= 1, k + 1 <= Len(w),
         NEW u, NEW c, Kept(E, w, u, c, k), KeyOf(w[k + 1]) # KeyOf(w[k])
  PROVE  Kept(E, w, Swap(u, k + 1, c + 1), c + 1, k + 1)
<1> DEFINE n == Len(w)
           x == Swap(u, k + 1, c + 1)
<1>1. /\ w \in Seq(E) /\ n \in Nat /\ k \in 1..n /\ k + 1 \in 1..n
      /\ \A i \in 1..n : KeyOf(w[i]) \in Int
      /\ \A p, q \in 1..n : p <= q => KeyOf(w[p]) <= KeyOf(w[q])
  <2>1. w \in Seq(E) /\ \A p, q \in 1..n : p <= q => KeyOf(w[p]) <= KeyOf(w[q])
    BY DEF Ascending
  <2>2. n \in Nat /\ \A i \in 1..n : KeyOf(w[i]) \in Int
    BY <2>1 DEF Entries
  <2>3. k \in 1..n /\ k + 1 \in 1..n
    BY <2>2
  <2>4. QED
    BY <2>1, <2>2, <2>3
<1>2. u \in Seq(E) /\ Len(u) = n /\ c \in 1..k /\ c \in 1..n /\ c + 1 \in 1..n
  <2>1. u \in Seq(E) /\ Len(u) = n /\ c \in 1..k
    BY DEF Kept
  <2>2. k + 1 <= n
    OBVIOUS
  <2> HIDE DEF n
  <2>3. c \in 1..n /\ c + 1 \in 1..n
    BY <1>1, <2>1, <2>2
  <2>4. QED
    BY <2>1, <2>3
<1>3. \A i \in 1..n : KeyOf(u[i]) \in Int
  BY <1>2 DEF Entries
<1>4. /\ \A i \in (k + 1)..n : u[i] = w[i]
      /\ \A i, j \in 1..c : i < j => KeyOf(u[i]) < KeyOf(u[j])
      /\ u[c] = w[k]
      /\ \A i \in 1..c : \E j \in 1..k : EndsRun(w, j, k) /\ u[i] = w[j]
      /\ \A j \in 1..k : EndsRun(w, j, k) => \E i \in 1..c : u[i] = w[j]
  BY DEF Kept
<1>5. /\ x \in Seq(E) /\ Len(x) = n /\ x[c + 1] = w[k + 1]
      /\ \A i \in 1..n : i # c + 1 /\ i # k + 1 => x[i] = u[i]
  <2>1. u[k + 1] = w[k + 1]
    BY <1>1, <1>4
  <2>2. k + 1 \in 1..Len(u) /\ c + 1 \in 1..Len(u)
    BY <1>1, <1>2
  <2>3. QED
    BY <1>2, <2>1, <2>2, SwapExchanges
<1> HIDE DEF x, n
<1>6. \A i \in (k + 2)..n : x[i] = w[i]
  BY <1>1, <1>2, <1>4, <1>5
<1>7. \A i \in 1..c : x[i] = u[i]
  BY <1>1, <1>2, <1>5
<1>8. KeyOf(w[k]) < KeyOf(w[k + 1])
  <2>1. KeyOf(w[k]) <= KeyOf(w[k + 1]) /\ KeyOf(w[k]) \in Int /\ KeyOf(w[k + 1]) \in Int
    BY <1>1
  <2>2. QED
    BY <2>1
<1>9. ASSUME NEW i \in 1..(c + 1), NEW j \in 1..(c + 1), i < j
      PROVE  KeyOf(x[i]) < KeyOf(x[j])
  <2>1. i \in 1..c /\ x[i] = u[i] /\ KeyOf(u[i]) \in Int
    BY <1>2, <1>3, <1>7, <1>9
  <2>2. CASE j = c + 1
    <3>1. KeyOf(u[i]) < KeyOf(w[k]) \/ KeyOf(u[i]) = KeyOf(w[k])
      BY <1>2, <1>4, <2>1
    <3>2. KeyOf(w[k]) \in Int /\ KeyOf(w[k + 1]) \in Int
      BY <1>1
    <3>3. QED
      BY <1>5, <1>8, <2>1, <2>2, <3>1, <3>2
  <2>3. CASE j # c + 1
    <3>1. j \in 1..c
      BY <1>2, <2>3
    <3>2. QED
      BY <1>4, <1>7, <1>9, <2>1, <3>1
  <2>4. QED
    BY <2>2, <2>3
<1>10. ASSUME NEW i \in 1..(c + 1)
       PROVE  \E j \in 1..(k + 1) : EndsRun(w, j, k + 1) /\ x[i] = w[j]
  <2>1. CASE i = c + 1
    <3>1. k + 1 \in 1..(k + 1) /\ EndsRun(w, k + 1, k + 1)
      BY DEF EndsRun
    <3>2. QED
      BY <1>5, <2>1, <3>1
  <2>2. CASE i # c + 1
    <3>1. i \in 1..c
      BY <1>2, <2>2
    <3>2. PICK j \in 1..k : EndsRun(w, j, k) /\ u[i] = w[j]
      BY <1>4, <3>1
    <3>3. EndsRun(w, j, k + 1) /\ j \in 1..(k + 1)
      BY <1>8, <3>2 DEF EndsRun
    <3>4. QED
      BY <1>7, <3>1, <3>2, <3>3
  <2>3. QED
    BY <2>1, <2>2
<1>11. ASSUME NEW j \in 1..(k + 1), EndsRun(w, j, k + 1)
       PROVE  \E i \in 1..(c + 1) : x[i] = w[j]
  <2>1. CASE j = k + 1
    <3>1. c + 1 \in 1..(c + 1)
      BY <1>2
    <3>2. QED
      BY <1>5, <2>1, <3>1
  <2>2. CASE j # k + 1
    <3>1. j \in 1..k /\ EndsRun(w, j, k)
      BY <1>11, <2>2 DEF EndsRun
    <3>2. PICK i \in 1..c : u[i] = w[j]
      BY <1>4, <3>1
    <3>3. i \in 1..(c + 1)
      BY <1>2
    <3>4. QED
      BY <1>7, <3>2, <3>3
  <2>3. QED
    BY <2>1, <2>2
<1>12. c + 1 \in 1..(k + 1)
  BY <1>2
<1>13. QED
  BY <1>5, <1>6, <1>9, <1>10, <1>11, <1>12 DEF Kept, x, n

\* The loop as a recursion: h has the state after each entry read.
IsLoop(h, w, n) ==
  /\ h[1] = [v |-> w, kept |-> 1]
  /\ \A k \in 2..n : h[k] = DedupStep(h[k - 1], k)

LEMMA LoopExists ==
  ASSUME NEW w, NEW n \in Nat
  PROVE  \E h : h = [k \in 1..n |-> h[k]] /\ (n >= 1 => IsLoop(h, w, n))
<1> DEFINE P == {m \in Nat : \E h : h = [k \in 1..m |-> h[k]] /\ (m >= 1 => IsLoop(h, w, m))}
<1>1. 0 \in P
  <2> DEFINE none == [k \in 1..0 |-> 0]
  <2>1. none = [k \in 1..0 |-> none[k]]
    OBVIOUS
  <2> HIDE DEF none
  <2>2. \E h : h = [k \in 1..0 |-> h[k]] /\ (0 >= 1 => IsLoop(h, w, 0))
    <3>1. ~(0 >= 1)
      OBVIOUS
    <3>2. QED
      BY <2>1, <3>1, Zenon
  <2>3. QED
    BY <2>2, Zenon
<1>2. ASSUME NEW m \in Nat, m \in P PROVE m + 1 \in P
  <2>1. PICK h : h = [k \in 1..m |-> h[k]] /\ (m >= 1 => IsLoop(h, w, m))
    BY <1>2
  <2> DEFINE next == IF m = 0 THEN [v |-> w, kept |-> 1] ELSE DedupStep(h[m], m + 1)
             g == [k \in 1..(m + 1) |-> IF k = m + 1 THEN next ELSE h[k]]
  <2>2. g[m + 1] = next /\ \A k \in 1..m : g[k] = h[k]
    OBVIOUS
  <2>3. g = [k \in 1..(m + 1) |-> g[k]]
    OBVIOUS
  <2> HIDE DEF g
  <2>4. g[1] = [v |-> w, kept |-> 1]
    <3>1. CASE m = 0
      BY <2>2, <3>1
    <3>2. CASE m # 0
      <4>1. 1 \in 1..m /\ h[1] = [v |-> w, kept |-> 1]
        BY <2>1, <3>2 DEF IsLoop
      <4>2. QED
        BY <2>2, <4>1
    <3>3. QED
      BY <3>1, <3>2
  <2>5. ASSUME NEW k \in 2..(m + 1) PROVE g[k] = DedupStep(g[k - 1], k)
    <3>1. m # 0 /\ k - 1 \in 1..m /\ g[k - 1] = h[k - 1]
      BY <2>2
    <3>2. CASE k = m + 1
      <4>1. k - 1 = m
        BY <3>2
      <4>2. QED
        BY <2>2, <3>1, <3>2, <4>1
    <3>3. CASE k # m + 1
      <4>1. k \in 2..m /\ k \in 1..m
        BY <3>3
      <4>2. h[k] = DedupStep(h[k - 1], k)
        <5>1. m >= 1
          BY <3>1
        <5>2. QED
          BY <2>1, <4>1, <5>1, Zenon DEF IsLoop
      <4>3. QED
        BY <2>2, <3>1, <4>1, <4>2
    <3>4. QED
      BY <3>2, <3>3
  <2>6. IsLoop(g, w, m + 1)
    BY <2>4, <2>5 DEF IsLoop
  <2>7. QED
    BY <2>3, <2>6
<1> HIDE DEF P
<1>3. n \in P
  BY <1>1, <1>2, Induction
<1>4. QED
  BY <1>3 DEF P

LEMMA DedupLoops ==
  ASSUME NEW E, NEW w \in Seq(E), Len(w) >= 1
  PROVE  \E h : Dedup(w) = h[Len(w)] /\ IsLoop(h, w, Len(w))
<1> DEFINE n == Len(w)
           Rec(f) == f = [k \in 1..n |-> IF k = 1 THEN [v |-> w, kept |-> 1]
                                         ELSE DedupStep(f[k - 1], k)]
           c == CHOOSE f : Rec(f)
<1>1. n \in Nat /\ n >= 1
  OBVIOUS
<1>2. PICK h : h = [k \in 1..n |-> h[k]] /\ IsLoop(h, w, n)
  <2> HIDE DEF n
  <2>1. QED
    BY <1>1, LoopExists
<1>3. Rec(h)
  <2>1. \A k \in 1..n : h[k] = IF k = 1 THEN [v |-> w, kept |-> 1] ELSE DedupStep(h[k - 1], k)
    <3>1. \A k \in 1..n : k # 1 => k \in 2..n
      OBVIOUS
    <3>2. QED
      BY <1>2, <3>1, Zenon DEF IsLoop
  <2>2. QED
    BY <1>2, <2>1, Zenon
<1>4. Rec(c)
  <2> HIDE DEF Rec
  <2>1. QED
    BY <1>3
<1>5. Dedup(w) = c[n]
  BY DEF Dedup
<1> HIDE DEF c
<1>6. \A k \in 1..n : c[k] = IF k = 1 THEN [v |-> w, kept |-> 1] ELSE DedupStep(c[k - 1], k)
  BY <1>4, Zenon
<1>7. IsLoop(c, w, n)
  <2>1. 1 \in 1..n /\ \A k \in 2..n : k \in 1..n /\ k # 1
    BY <1>1
  <2> HIDE DEF n
  <2>2. QED
    BY <1>6, <2>1, Zenon DEF IsLoop
<1>8. QED
  BY <1>5, <1>7

LEMMA DedupKeeps ==
  ASSUME NEW E, Entries(E), NEW w, Ascending(E, w), Len(w) >= 1
  PROVE  \E u, c : Dedup(w) = [v |-> u, kept |-> c] /\ Kept(E, w, u, c, Len(w))
<1>1. w \in Seq(E) /\ Len(w) \in Nat
  BY DEF Ascending
<1>2. PICK h : Dedup(w) = h[Len(w)] /\ IsLoop(h, w, Len(w))
  BY <1>1, DedupLoops
<1> DEFINE Good(k) == \E u, c : h[k] = [v |-> u, kept |-> c] /\ Kept(E, w, u, c, k)
           P == {m \in Nat : m + 1 <= Len(w) => Good(m + 1)}
<1>3. Good(1)
  BY <1>2, FirstIsKept DEF IsLoop
<1>4. 0 \in P
  BY <1>3
<1>5. ASSUME NEW m \in Nat, m \in P PROVE m + 1 \in P
  <2> HIDE DEF Good
  <2>1. SUFFICES ASSUME (m + 1) + 1 <= Len(w) PROVE Good((m + 1) + 1)
    OBVIOUS
  <2> DEFINE k == m + 1
  <2>2. k \in Nat /\ k >= 1 /\ k + 1 <= Len(w) /\ k <= Len(w) /\ k + 1 \in 2..Len(w) /\ (k + 1) - 1 = k
    BY <1>1, <2>1
  <2>a. Good(k)
    BY <1>5, <2>2
  <2> USE DEF Good
  <2>3. PICK u, c : h[k] = [v |-> u, kept |-> c] /\ Kept(E, w, u, c, k)
    BY <2>a
  <2> HIDE DEF k, P
  <2>4. h[k + 1] = DedupStep([v |-> u, kept |-> c], k + 1)
    BY <1>2, <2>2, <2>3 DEF IsLoop
  <2>5. u[k + 1] = w[k + 1] /\ u[c] = w[k]
    BY <1>1, <2>2, <2>3 DEF Kept
  <2>6. CASE KeyOf(w[k + 1]) = KeyOf(w[k])
    <3>1. h[k + 1] = [v |-> Swap(u, k + 1, c), kept |-> c]
      BY <2>4, <2>5, <2>6 DEF DedupStep
    <3>2. Kept(E, w, Swap(u, k + 1, c), c, k + 1)
      BY <2>2, <2>3, <2>6, RepeatReplaces
    <3>3. QED
      BY <3>1, <3>2 DEF k
  <2>7. CASE KeyOf(w[k + 1]) # KeyOf(w[k])
    <3>1. h[k + 1] = [v |-> Swap(u, k + 1, c + 1), kept |-> c + 1]
      BY <2>4, <2>5, <2>7 DEF DedupStep
    <3>2. Kept(E, w, Swap(u, k + 1, c + 1), c + 1, k + 1)
      BY <2>2, <2>3, <2>7, NewKeyIsKept
    <3>3. QED
      BY <3>1, <3>2 DEF k
  <2>8. QED
    BY <2>6, <2>7
<1> HIDE DEF P
<1>6. \A m \in Nat : m \in P
  BY <1>4, <1>5, Induction
<1>7. Len(w) - 1 \in P /\ (Len(w) - 1) + 1 = Len(w)
  BY <1>1, <1>6
<1>8. Good(Len(w))
  <2> HIDE DEF Good
  <2>1. (Len(w) - 1) + 1 <= Len(w) /\ Len(w) - 1 \in Nat
    BY <1>1
  <2>2. QED
    BY <1>7, <2>1 DEF P
<1>9. QED
  BY <1>2, <1>8

\* What is left of a sorted sequence: the ends of its runs, in order.
HasRunEnds(w, got) ==
  /\ Sorted(got)
  /\ {got[i] : i \in 1..Len(got)} = {w[p] : p \in {q \in 1..Len(w) : EndsRun(w, q, Len(w))}}

LEMMA DedupResult ==
  ASSUME NEW E, Entries(E), NEW w, Ascending(E, w)
  PROVE  HasRunEnds(w, partition_dedup_by(w))
<1> DEFINE n == Len(w)
           got == partition_dedup_by(w)
<1>1. w \in Seq(E) /\ n \in Nat
  BY DEF Ascending
<1>2. CASE n <= 1
  <2>1. got = w
    BY <1>2 DEF partition_dedup_by
  <2>2. Sorted(w)
    BY <1>1, <1>2 DEF Sorted
  <2>3. \A q \in 1..n : EndsRun(w, q, n)
    BY <1>1, <1>2 DEF EndsRun
  <2> HIDE DEF got
  <2>4. {w[i] : i \in 1..n} = {w[p] : p \in {q \in 1..n : EndsRun(w, q, n)}}
    BY <2>3
  <2>5. QED
    BY <2>1, <2>2, <2>4 DEF got, HasRunEnds
<1>3. CASE n > 1
  <2>1. PICK u, c : Dedup(w) = [v |-> u, kept |-> c] /\ Kept(E, w, u, c, n)
    BY <1>1, <1>3, DedupKeeps
  <2>2. /\ u \in Seq(E) /\ Len(u) = n /\ c \in 1..n
        /\ \A i, j \in 1..c : i < j => KeyOf(u[i]) < KeyOf(u[j])
        /\ \A i \in 1..c : \E j \in 1..n : EndsRun(w, j, n) /\ u[i] = w[j]
        /\ \A j \in 1..n : EndsRun(w, j, n) => \E i \in 1..c : u[i] = w[j]
    BY <2>1 DEF Kept
  <2>3. got = SubSeq(u, 1, c)
    <3>1. Dedup(w).v = u /\ Dedup(w).kept = c
      BY <2>1
    <3>2. ~(n <= 1)
      BY <1>1, <1>3
    <3>3. QED
      BY <3>1, <3>2, Zenon DEF partition_dedup_by
  <2>4. Len(got) = c /\ \A i \in 1..c : got[i] = u[i]
    BY <1>1, <2>2, <2>3
  <2> HIDE DEF got, n
  <2>5. Sorted(got)
    <3>1. SUFFICES ASSUME NEW i \in 1..(c - 1) PROVE KeyOf(got[i]) < KeyOf(got[i + 1])
      BY <2>4 DEF Sorted
    <3>2. i \in 1..c /\ i + 1 \in 1..c /\ i < i + 1
      BY <1>1, <2>2
    <3>3. QED
      BY <2>2, <2>4, <3>2
  <2>6. {got[i] : i \in 1..Len(got)} = {w[p] : p \in {q \in 1..n : EndsRun(w, q, n)}}
    <3>1. \A i \in 1..c : \E p \in {q \in 1..n : EndsRun(w, q, n)} : got[i] = w[p]
      BY <2>2, <2>4
    <3>2. \A p \in {q \in 1..n : EndsRun(w, q, n)} : \E i \in 1..c : got[i] = w[p]
      BY <2>2, <2>4
    <3>3. {got[i] : i \in 1..c} = {w[p] : p \in {q \in 1..n : EndsRun(w, q, n)}}
      BY <3>1, <3>2
    <3>4. QED
      BY <2>4, <3>3
  <2>7. QED
    BY <2>5, <2>6, Zenon DEF got, n, HasRunEnds
<1>4. n <= 1 \/ n > 1
  BY <1>1
<1>5. QED
  BY <1>2, <1>3, <1>4

\* However the new entries come, the bulk insertion leaves the map sorted, with
\* the entry inserted last for each key, old and new, and no other: for maps and
\* insertions of any length.
THEOREM InsertionKeepsMap ==
  ASSUME NEW E, \A e \in E : KeyOf(e) \in Int,
         NEW old \in Seq(E), NEW new \in Seq(E), Sorted(old)
  PROVE  ExtendsMap(old, new)
<1> DEFINE v == old \o new
           n == Len(old)
           got == lm_extend(old, new)
<1>1. Entries(E) /\ v \in Seq(E) /\ n \in 0..Len(v)
  BY DEF Entries
<1>2. \A i \in 1..(n - 1) : KeyOf(v[i]) < KeyOf(v[i + 1])
  <2>1. \A i \in 1..n : v[i] = old[i]
    OBVIOUS
  <2>2. \A i \in 1..(n - 1) : i \in 1..n /\ i + 1 \in 1..n
    BY <1>1
  <2>3. QED
    BY <2>1, <2>2 DEF Sorted
<1>3. got = IF SortedLength(v, n) >= Len(v) THEN v ELSE partition_dedup_by(StableSort(v))
  BY DEF lm_extend
<1> HIDE DEF v, n, got
<1>4. InsertedWell(v, got)
  <2>1. CASE SortedLength(v, n) >= Len(v)
    <3>1. Sorted(v)
      BY <1>1, <1>2, <2>1, CountedIsSorted
    <3>2. QED
      BY <1>1, <1>3, <2>1, <3>1, SortedIsInserted
  <2>2. CASE ~(SortedLength(v, n) >= Len(v))
    <3> DEFINE w == StableSort(v)
    <3>1. PICK at : w \in Seq(E) /\ SortsStably(v, w, at)
      BY <1>1, SortIsStable
    <3> HIDE DEF w
    <3>2. Ascending(E, w)
      BY <1>1, <3>1, SortedClimbs DEF Ascending
    <3>3. HasRunEnds(w, partition_dedup_by(w))
      <4>1. Entries(E)
        BY <1>1
      <4>2. QED
        BY <3>2, <4>1, DedupResult
    <3>4. {w[p] : p \in {q \in 1..Len(w) : EndsRun(w, q, Len(w))}} = LastEntries(v)
      BY <1>1, <3>1, RunsEndWithLast
    <3>5. got = partition_dedup_by(w)
      BY <1>3, <2>2 DEF w
    <3>6. QED
      BY <3>3, <3>4, <3>5, Zenon DEF InsertedWell, HasRunEnds
  <2>3. QED
    BY <2>1, <2>2
<1>5. {v[Max({i \in 1..Len(v) : KeyOf(v[i]) = k})] : k \in Keys(v)} = LastEntries(v)
  BY <1>1, LastOfEachKey
<1>6. QED
  BY <1>4, <1>5 DEF ExtendsMap, InsertedWell, got, v

=============================================================================
