---------------------------- MODULE ContactStore ----------------------------
(***************************************************************************)
(* ContactStorage (chiyocore/src/simple_mesh/storage/contact.rs) and those *)
(* who write to it: the handlers of adverts and returned paths, the retry  *)
(* task and the commands of clients.  Each holds the contacts' write lock  *)
(* from its first read to its last write and is one step, except the       *)
(* handler of a returned path, which finds the sender under a read lock of *)
(* its own.  Of a contact the path is kept, which is all that the cache in *)
(* memory and the file on flash have in common besides the key.            *)
(***************************************************************************)
EXTENDS FlashDirectory

CONSTANTS Key,        \* public keys; no two of them have files with one hash
          HashOfKey,  \* the order of their files in the directory's index
          Path, NoPath,
          NotCached, NoReturn

ASSUME KeyAssumption ==
  /\ HashOfKey \in [Key -> Nat]
  /\ \A k, l \in Key : HashOfKey[k] = HashOfKey[l] => k = l

VARIABLES contactDir, \* flash: the directory of contacts
          hotCache,   \* ContactStorage::hot_cache
          returned,   \* the path the packet handler is about to store
          contactsHeld \* `delete` hangs with the write lock and the file system's mutex

contactVars == <<contactDir, hotCache, returned, contactsHeld>>

Route == Path \cup {NoPath}

ContactTypeOK ==
  /\ contactDir \in Directory(Key, Route)
  /\ hotCache \in [Key -> Route \cup {NotCached}]
  /\ returned \in [key : Key, path : Path] \cup {NoReturn}
  /\ contactsHeld \in BOOLEAN

ContactInit == /\ contactDir = EmptyDirectory(Key)
               /\ hotCache = [k \in Key |-> NotCached]
               /\ returned = NoReturn
               /\ contactsHeld = FALSE

Known(k) == hotCache[k] # NotCached

\* Faulty variant: a listed contact without a file is cached.
LoadContactsAll ==
  hotCache' = [k \in Key |-> IF k \in contactDir.index THEN contactDir.item[k]
                             ELSE NotCached]

\* ContactStorage::new.
LoadContacts ==
  hotCache' = [k \in Key |-> IF k \in Yielded(contactDir, HashOfKey)
                               THEN contactDir.item[k] ELSE NotCached]

-----------------------------------------------------------------------------
\* Faulty variant: the cache is written although the file was not.
NotInsertedCacheFirst(k, p) == /\ contactDir' \in HalfStored(contactDir, k)
                               /\ hotCache' = [hotCache EXCEPT ![k] = p]

\* `insert` ends at `fs.set(..).await?`.
NotInserted(k, p) == /\ contactDir' \in HalfStored(contactDir, k)
                     /\ UNCHANGED hotCache

\* `insert`: flash, then cache.
Inserted(k, p) == /\ contactDir' = Stored(contactDir, k, p)
                  /\ hotCache' = [hotCache EXCEPT ![k] = p]

\* What is called with a whole contact: add_update_contact with any path,
\* import_contact and SimpleMesh::advert with none, for known contacts too.
NewContact(k, p, done) ==
  /\ ~contactsHeld
  /\ IF done THEN Inserted(k, p) ELSE NotInserted(k, p)
  /\ UNCHANGED <<returned, contactsHeld>>

\* reset_path of a client, and the switch of a retry task to flooding: the file
\* is read, whether the contact is cached or not.
ForgetPath(k, done) ==
  /\ ~contactsHeld
  /\ contactDir.item[k] # NoFile
  /\ IF done THEN Inserted(k, NoPath) ELSE NotInserted(k, NoPath)
  /\ UNCHANGED <<returned, contactsHeld>>

\* `full_get(..).await?.unwrap()` in reset_path, of a contact without a file.
ForgetPathOfStranger(k) == ~contactsHeld /\ contactDir.item[k] = NoFile

\* SimpleMesh::returned_path: decode_contact_message looks for the sender among
\* the cached contacts.
FindSender(k, p) ==
  /\ ~contactsHeld
  /\ returned = NoReturn
  /\ Known(k)
  /\ returned' = [key |-> k, path |-> p]
  /\ UNCHANGED <<contactDir, hotCache, contactsHeld>>

\* Its second part: `full_get(contact.key).await?.unwrap()`, then `insert`.
StorePath(done) ==
  /\ ~contactsHeld
  /\ returned # NoReturn
  /\ contactDir.item[returned.key] # NoFile
  /\ IF done THEN Inserted(returned.key, returned.path)
             ELSE NotInserted(returned.key, returned.path)
  /\ returned' = NoReturn
  /\ UNCHANGED contactsHeld

\* remove_contact: the cache first.  `fs.delete` takes the name off the index
\* and then waits for the mutex it holds (see ChiyoFs).
Delete(k) ==
  /\ ~contactsHeld
  /\ Known(k)
  /\ hotCache' = [hotCache EXCEPT ![k] = NotCached]
  /\ contactDir' = Unlisted(contactDir, k)
  /\ contactsHeld' = TRUE
  /\ UNCHANGED returned

\* Its flash error, which `delete` ignores.
DeleteFails(k) ==
  /\ ~contactsHeld
  /\ Known(k)
  /\ hotCache' = [hotCache EXCEPT ![k] = NotCached]
  /\ UNCHANGED <<contactDir, returned, contactsHeld>>

\* A reboot forgets what is in memory.
ForgetContacts == /\ hotCache' = [k \in Key |-> NotCached]
                  /\ returned' = NoReturn
                  /\ contactsHeld' = FALSE

-----------------------------------------------------------------------------
\* What is cached is on flash, path included, after failed writes and reboots
\* too; nobody who has found a contact in the cache unwraps a file that is not
\* there (mod.rs:676, companion_proto_handler.rs:320).
CachedIsStored ==
  /\ \A k \in Key : Known(k) => contactDir.item[k] = hotCache[k]
  /\ returned # NoReturn => contactDir.item[returned.key] # NoFile
=============================================================================
