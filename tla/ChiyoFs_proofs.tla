--------------------------- MODULE ChiyoFs_proofs ---------------------------
(***************************************************************************)
(* Proofs about ChiyoFs for any number of tasks, directories, files,       *)
(* failures and power losses.                                              *)
(***************************************************************************)
EXTENDS ChiyoFs, FiniteSetTheorems, TLAPS

-----------------------------------------------------------------------------
\* Where a call can be, by its kind.  "item" is reached by `set` alone:
\* `delete` would have to pass "relock".
CallInv ==
  \A t \in Task :
    /\ pc[t] # "idle" => req[t] \in Request
    /\ pc[t] = "index" => req[t].kind \in {"set", "delete"}
    /\ pc[t] = "item" => req[t].kind = "set"
    /\ pc[t] = "next" => req[t].kind = "list"

\* What the holder of the mutex knows about the index it has read or written.
IndexInv ==
  \A t \in Task :
    /\ pc[t] = "index" => entries[t] = index[req[t].dir]
    /\ pc[t] = "item" => req[t].name \in index[req[t].dir]

IInv == TypeOK /\ LockInv /\ CallInv /\ IndexInv /\ StoredIsIndexed

-----------------------------------------------------------------------------
\* A call names a directory of the system and, unless it lists, a file of it.
LEMMA RequestTyped ==
  ASSUME NEW r \in Request
  PROVE  /\ r.dir \in Dir
         /\ r.kind \in Kind
         /\ r.value \in Value \cup {NoValue}
         /\ r.kind # "list" => r.name \in Name
         /\ r.kind = "delete" => r.dir \in Deletable
BY FsAssumption DEF Request

LEMMA InitInv == Init => IInv
BY FsAssumption
   DEF Init, IInv, TypeOK, LockInv, CallInv, IndexInv, StoredIsIndexed,
       Location, Holding, File

\* Every step of the file system keeps the inductive invariant.
LEMMA NextInv == IInv /\ [Next]_vars => IInv'
<1> SUFFICES ASSUME IInv, [Next]_vars PROVE IInv'
  OBVIOUS
<1> USE FsAssumption, CallAssumption, RequestTyped
    DEF IInv, TypeOK, LockInv, CallInv, IndexInv, StoredIsIndexed,
        Location, Holding, File, Kind, flash, local
<1>1. ASSUME NEW t \in Task, Call(t) PROVE IInv'
  BY <1>1 DEF Call, Goto
<1>2. ASSUME NEW t \in Task, Lock(t) PROVE IInv'
  BY <1>2 DEF Lock, Goto
<1>3. ASSUME NEW t \in Task, FetchIndex(t) PROVE IInv'
  BY <1>3 DEF FetchIndex, Goto, AfterIndex
<1>4. ASSUME NEW t \in Task, StoreIndex(t) PROVE IInv'
  BY <1>4 DEF StoreIndex, Goto, AfterIndex, NewEntries
<1>5. ASSUME NEW t \in Task, IndexFull(t) PROVE IInv'
  BY <1>5 DEF IndexFull, Return, Goto
<1>6. ASSUME NEW t \in Task, StoreItem(t) PROVE IInv'
  BY <1>6 DEF StoreItem, Return, Goto
<1>7. ASSUME NEW t \in Task, FetchItem(t) PROVE IInv'
  BY <1>7 DEF FetchItem, Return, Goto
<1>8. ASSUME NEW t \in Task, OpenDirectory(t) PROVE IInv'
  BY <1>8 DEF OpenDirectory, Goto
<1>9. ASSUME NEW t \in Task, NextFile(t) PROVE IInv'
  BY <1>9 DEF NextFile
<1>10. ASSUME NEW t \in Task, EndOfDirectory(t) PROVE IInv'
  BY <1>10 DEF EndOfDirectory, Goto
<1>11. ASSUME NEW t \in Task, FlashError(t) PROVE IInv'
  BY <1>11 DEF FlashError, Return, Goto
<1>12. CASE Crash
  BY <1>12 DEF Crash
<1>13. CASE UNCHANGED vars
  BY <1>13 DEF vars
<1>14. QED
  BY <1>1, <1>2, <1>3, <1>4, <1>5, <1>6, <1>7, <1>8, <1>9, <1>10, <1>11,
     <1>12, <1>13 DEF Next, Proceed

LEMMA Invariance == Spec => []IInv
BY InitInv, NextInv, PTL DEF Spec

-----------------------------------------------------------------------------
\* Every variable keeps its type.
THEOREM TypeCorrect == Spec => []TypeOK
BY Invariance, PTL DEF IInv

\* At most one task is between lock() and the drop of its guard.
THEOREM MutualExclusion == Spec => []LockInv
BY Invariance, PTL DEF IInv

\* A stored file of a directory nobody deletes from is listed by its index,
\* whatever fails and whenever the power goes.
THEOREM StoredFilesAreIndexed == Spec => []StoredIsIndexed
BY Invariance, PTL DEF IInv

-----------------------------------------------------------------------------
\* Without failures and power losses, an index entry has its item except while
\* the `set` that added it holds the mutex; so a reader, which copied the index
\* while it held the mutex, never meets an entry without an item.
NoDangling ==
  \A f \in File : f[2] \in index[f[1]] =>
    item[f] # NoValue \/ \E t \in Task : pc[t] = "item" /\ f = <<req[t].dir, req[t].name>>

ReaderInv ==
  \A t \in Task : pc[t] = "next" =>
    /\ seen[t] \subseteq entries[t]
    /\ \A n \in entries[t] : item[<<req[t].dir, n>>] # NoValue

ListInv == (failures = 0 /\ crashes = 0) => NoDangling /\ ReaderInv /\ ListingComplete

LEMMA NextListInv == IInv /\ ListInv /\ [Next]_vars => ListInv'
<1> SUFFICES ASSUME IInv, ListInv, [Next]_vars, failures' = 0, crashes' = 0
             PROVE  (NoDangling /\ ReaderInv /\ ListingComplete)'
  BY DEF ListInv
<1> USE FsAssumption, CallAssumption, RequestTyped
    DEF IInv, TypeOK, LockInv, CallInv, IndexInv, ListInv, NoDangling, ReaderInv,
        ListingComplete, Location, Holding, File, Kind, flash, local
<1>a. failures = 0 /\ crashes = 0 /\ ~Crash /\ \A t \in Task : ~FlashError(t)
  <2>1. ~Crash
    BY DEF Crash
  <2>2. ASSUME NEW t \in Task PROVE ~FlashError(t)
    BY DEF FlashError
  <2>3. ASSUME NEW t \in Task, Call(t) \/ Proceed(t) PROVE UNCHANGED <<failures, crashes>>
    BY <2>3 DEF Proceed, Call, Lock, FetchIndex, StoreIndex, IndexFull, StoreItem, FetchItem,
                OpenDirectory, NextFile, EndOfDirectory
  <2>4. UNCHANGED vars => UNCHANGED <<failures, crashes>>
    BY DEF vars
  <2>5. QED
    BY <2>1, <2>2, <2>3, <2>4 DEF Next
<1>1. ASSUME NEW t \in Task, Call(t) PROVE (NoDangling /\ ReaderInv /\ ListingComplete)'
  BY <1>a, <1>1 DEF Call, Goto
<1>2. ASSUME NEW t \in Task, Lock(t) PROVE (NoDangling /\ ReaderInv /\ ListingComplete)'
  BY <1>a, <1>2 DEF Lock, Goto
<1>3. ASSUME NEW t \in Task, FetchIndex(t) PROVE (NoDangling /\ ReaderInv /\ ListingComplete)'
  BY <1>a, <1>3 DEF FetchIndex, Goto, AfterIndex
<1>4. ASSUME NEW t \in Task, StoreIndex(t) PROVE (NoDangling /\ ReaderInv /\ ListingComplete)'
  BY <1>a, <1>4 DEF StoreIndex, Goto, AfterIndex, NewEntries
<1>5. ASSUME NEW t \in Task, IndexFull(t) PROVE (NoDangling /\ ReaderInv /\ ListingComplete)'
  BY <1>a, <1>5 DEF IndexFull, Return, Goto
<1>6. ASSUME NEW t \in Task, StoreItem(t) PROVE (NoDangling /\ ReaderInv /\ ListingComplete)'
  BY <1>a, <1>6 DEF StoreItem, Return, Goto, Request
<1>7. ASSUME NEW t \in Task, FetchItem(t) PROVE (NoDangling /\ ReaderInv /\ ListingComplete)'
  BY <1>a, <1>7 DEF FetchItem, Return, Goto
<1>8. ASSUME NEW t \in Task, OpenDirectory(t) PROVE (NoDangling /\ ReaderInv /\ ListingComplete)'
  <2> USE <1>a, <1>8 DEF OpenDirectory, Goto
  <2>1. NoDangling'
    OBVIOUS
  <2>2. \A n \in index[req[t].dir] : item[<<req[t].dir, n>>] # NoValue
    <3>1. \A u \in Task : pc[u] # "item"
      OBVIOUS
    <3>2. req[t].dir \in Dir
      OBVIOUS
    <3>3. QED
      BY <3>1, <3>2
  <2>3. ReaderInv'
    <3> SUFFICES ASSUME NEW u \in Task, pc'[u] = "next"
                 PROVE  /\ seen'[u] \subseteq entries'[u]
                        /\ \A n \in entries'[u] : item'[<<req'[u].dir, n>>] # NoValue
      BY Zenon DEF ReaderInv
    <3>1. CASE u = t
      <4>1. entries'[t] = index[req[t].dir] /\ item' = item /\ req' = req /\ seen'[t] = {}
        OBVIOUS
      <4>2. QED
        BY <2>2, <3>1, <4>1
    <3>2. CASE u # t
      BY <3>2
    <3>3. QED
      BY <3>1, <3>2
  <2>4. ListingComplete'
    OBVIOUS
  <2>5. QED
    BY <2>1, <2>3, <2>4
<1>9. ASSUME NEW t \in Task, NextFile(t) PROVE (NoDangling /\ ReaderInv /\ ListingComplete)'
  BY <1>a, <1>9 DEF NextFile
<1>10. ASSUME NEW t \in Task, EndOfDirectory(t) PROVE (NoDangling /\ ReaderInv /\ ListingComplete)'
  <2> USE <1>a, <1>10 DEF EndOfDirectory, Goto
  <2>1. NoDangling' /\ ReaderInv'
    OBVIOUS
  <2>2. seen[t] = entries[t]
    OBVIOUS
  <2>3. ListingComplete'
    BY <2>2
  <2>4. QED
    BY <2>1, <2>3
<1>11. CASE UNCHANGED vars
  BY <1>a, <1>11 DEF vars
<1>12. QED
  BY <1>a, <1>1, <1>2, <1>3, <1>4, <1>5, <1>6, <1>7, <1>8, <1>9, <1>10, <1>11 DEF Next, Proceed

\* Without failures and power losses a listing yields every entry of the
\* directory it opened, whatever other tasks write meanwhile.
THEOREM ListingsAreComplete == Spec => []ListingComplete
<1>1. Init => ListInv
  BY DEF Init, ListInv, NoDangling, ReaderInv, ListingComplete, File
<1>2. ListInv => ListingComplete
  BY DEF ListInv, ListingComplete
<1>3. QED
  BY <1>1, <1>2, Invariance, NextListInv, PTL DEF Spec

-----------------------------------------------------------------------------
\* Concurrent `set`s of one directory never lose each other's index entry.
THEOREM EntriesAreKept == Spec => IndexKept
<1>1. IInv /\ [Next]_vars => [\A d \in Dir \ Deletable : index[d] \subseteq index'[d]]_vars
  <2> SUFFICES ASSUME IInv, Next, NEW d \in Dir \ Deletable
               PROVE  index[d] \subseteq index'[d]
    OBVIOUS
  <2>1. ASSUME NEW t \in Task, StoreIndex(t) PROVE index[d] \subseteq index'[d]
    BY <2>1, CallAssumption, RequestTyped
       DEF StoreIndex, NewEntries, IInv, TypeOK, CallInv, IndexInv
  <2>2. CASE ~\E t \in Task : StoreIndex(t)
    BY <2>2 DEF Next, Proceed, Call, Lock, FetchIndex, IndexFull, StoreItem, FetchItem,
         OpenDirectory, NextFile, EndOfDirectory, FlashError, Crash, flash
  <2>3. QED
    BY <2>1, <2>2
<1>2. QED
  BY <1>1, Invariance, PTL DEF Spec, IndexKept

\* A task that has reached the second lock() of `delete` leaves it by a reboot
\* only.
THEOREM DeletesHang == Spec => DeleteNeverReturns
<1>1. IInv /\ [Next]_vars =>
        [\A t \in Task : pc[t] = "relock" => (pc'[t] = "relock" \/ crashes' # crashes)]_vars
  <2> SUFFICES ASSUME IInv, Next, NEW t \in Task, pc[t] = "relock"
               PROVE  pc'[t] = "relock" \/ crashes' # crashes
    OBVIOUS
  <2>1. CASE Crash
    BY <2>1 DEF Crash, IInv, TypeOK
  <2>2. ASSUME NEW u \in Task, Call(u) \/ Proceed(u) \/ FlashError(u)
        PROVE  pc'[t] = "relock"
    BY <2>2, FsAssumption
       DEF Proceed, Call, Lock, FetchIndex, StoreIndex, IndexFull, StoreItem, FetchItem, OpenDirectory,
         NextFile, EndOfDirectory, FlashError, Return, Goto, IInv, TypeOK, LockInv, Holding
  <2>3. QED
    BY <2>1, <2>2 DEF Next
<1>2. QED
  BY <1>1, Invariance, PTL DEF Spec, DeleteNeverReturns

-----------------------------------------------------------------------------
\* The three-step protocol under one mutex implements the atomic map.
THEOREM ImplementsMap == Spec => MapSpec
<1> USE DEF Map!vars, File
<1>1. Init => Map!Init
  BY DEF Init, Map!Init
<1>2. IInv /\ [Next]_vars => [Map!Next]_Map!vars
  <2> SUFFICES ASSUME IInv, Next PROVE Map!Next \/ UNCHANGED Map!vars
    BY DEF vars, flash, local
  <2> USE FsAssumption DEF IInv, TypeOK, CallInv, flash, local, Goto, Return
  <2>1. ASSUME NEW t \in Task, Call(t) PROVE Map!Call(t)
    BY CallAssumption, <2>1 DEF Call, Map!Call
  <2>2. ASSUME NEW t \in Task, Lock(t) \/ FetchIndex(t) \/ StoreIndex(t) \/ OpenDirectory(t)
                                 \/ NextFile(t)
        PROVE UNCHANGED Map!vars
    BY <2>2 DEF Lock, FetchIndex, StoreIndex, OpenDirectory, NextFile, AfterIndex
  <2>. DEFINE Pending == [t \in Task |-> pc[t] # "idle"]
  <2>a. ASSUME NEW t \in Task, pc[t] # "idle", pc' = [pc EXCEPT ![t] = "idle"]
        PROVE  Pending[t] /\ Pending' = [Pending EXCEPT ![t] = FALSE]
    <3>1. \A u \in Task : pc'[u] = IF u = t THEN "idle" ELSE pc[u]
      BY <2>a
    <3>2. QED
      BY <3>1, <2>a, Zenon
  <2>3. ASSUME NEW t \in Task, IndexFull(t) \/ FlashError(t) PROVE Map!Error(t)
    <3>1. pc[t] # "idle" /\ pc' = [pc EXCEPT ![t] = "idle"]
      BY <2>3 DEF IndexFull, FlashError
    <3>2. outcome' = [outcome EXCEPT ![t] = "err"] /\ UNCHANGED <<item, req, got>>
      BY <2>3 DEF IndexFull, FlashError
    <3>3. QED
      BY <2>a, <3>1, <3>2, Zenon DEF Map!Error
  <2>4. ASSUME NEW t \in Task, StoreItem(t) \/ FetchItem(t) \/ EndOfDirectory(t)
        PROVE Map!Finish(t)
    <3>1. pc[t] # "idle" /\ pc' = [pc EXCEPT ![t] = "idle"]
      BY <2>4 DEF StoreItem, FetchItem, EndOfDirectory
    <3>2. outcome' = [outcome EXCEPT ![t] = "ok"] /\ UNCHANGED req
      BY <2>4 DEF StoreItem, FetchItem, EndOfDirectory
    <3>3. Map!Effect(t)
      BY <2>4 DEF StoreItem, FetchItem, EndOfDirectory, Map!Effect
    <3>4. QED
      BY <2>a, <3>1, <3>2, <3>3, Zenon DEF Map!Finish
  <2>5. ASSUME Crash PROVE Map!PowerLoss
    BY <2>5 DEF Crash, Map!PowerLoss
  <2>6. QED
    BY <2>1, <2>2, <2>3, <2>4, <2>5 DEF Next, Proceed, Map!Next
<1>3. QED
  BY <1>1, <1>2, Invariance, PTL DEF Spec, MapSpec, Map!Spec

-----------------------------------------------------------------------------
(***************************************************************************)
(* The directories that other components rely on.                          *)
(***************************************************************************)

\* Before its last step a `set` has the name in the index and has changed
\* nothing else there.
WrittenInv ==
  \A t \in Task : pc[t] = "item" => index[req[t].dir] = entries[t] \cup {req[t].name}

\* A reader has passed the least entries of the index it copied, and each of
\* them has its file.
PassedInv ==
  \A t \in Task : pc[t] = "next" =>
    /\ seen[t] \subseteq entries[t]
    /\ \A n \in seen[t] : item[<<req[t].dir, n>>] # NoValue
    /\ \A n \in seen[t], m \in entries[t] \ seen[t] : n <= m

DirInv == WrittenInv /\ PassedInv

LEMMA NextDirInv == IInv /\ DirInv /\ [Next]_vars => DirInv'
<1> SUFFICES ASSUME IInv, DirInv, [Next]_vars PROVE DirInv'
  OBVIOUS
<1> USE FsAssumption, CallAssumption, RequestTyped
    DEF IInv, TypeOK, LockInv, CallInv, IndexInv, DirInv, WrittenInv, PassedInv,
        Location, Holding, File, Kind, flash, local
<1>1. ASSUME NEW t \in Task, Call(t) PROVE DirInv'
  BY <1>1 DEF Call, Goto
<1>2. ASSUME NEW t \in Task, Lock(t) PROVE DirInv'
  BY <1>2 DEF Lock, Goto
<1>3. ASSUME NEW t \in Task, FetchIndex(t) PROVE DirInv'
  BY <1>3 DEF FetchIndex, Goto, AfterIndex
<1>4. ASSUME NEW t \in Task, StoreIndex(t) PROVE DirInv'
  BY <1>4 DEF StoreIndex, Goto, AfterIndex, NewEntries
<1>5. ASSUME NEW t \in Task, IndexFull(t) PROVE DirInv'
  BY <1>5 DEF IndexFull, Return, Goto
<1>6. ASSUME NEW t \in Task, StoreItem(t) PROVE DirInv'
  BY <1>6 DEF StoreItem, Return, Goto, Request
<1>7. ASSUME NEW t \in Task, FetchItem(t) PROVE DirInv'
  BY <1>7 DEF FetchItem, Return, Goto
<1>8. ASSUME NEW t \in Task, OpenDirectory(t) PROVE DirInv'
  BY <1>8 DEF OpenDirectory, Goto
<1>9. ASSUME NEW t \in Task, NextFile(t) PROVE DirInv'
  BY <1>9 DEF NextFile, IsNextEntry
<1>10. ASSUME NEW t \in Task, EndOfDirectory(t) PROVE DirInv'
  BY <1>10 DEF EndOfDirectory, Goto
<1>11. ASSUME NEW t \in Task, FlashError(t) PROVE DirInv'
  <2>1. pc' = [pc EXCEPT ![t] = "idle"] /\ UNCHANGED <<index, item, req, entries, seen>>
    BY <1>11 DEF FlashError, Return, Goto
  <2>2. QED
    BY <2>1
<1>12. CASE Crash
  BY <1>12 DEF Crash
<1>13. CASE UNCHANGED vars
  BY <1>13 DEF vars
<1>14. QED
  BY <1>1, <1>2, <1>3, <1>4, <1>5, <1>6, <1>7, <1>8, <1>9, <1>10, <1>11,
     <1>12, <1>13 DEF Next, Proceed

LEMMA DirInvariance == Spec => []DirInv
<1>1. Init => DirInv
  BY DEF Init, DirInv, WrittenInv, PassedInv
<1>2. QED
  BY <1>1, Invariance, NextDirInv, PTL DEF Spec

\* Directories are the same if they list the same names and hold the same
\* files.
LEMMA DirectoriesSame ==
  ASSUME item' = item, \A d \in Dir : IndexSeen(d)' = IndexSeen(d)
  PROVE  dirs' = dirs
BY DEF dirs

\* A step that changes the index of one directory and no file.
IndexBecomes(dir, names) ==
  item' = item /\ \A d \in Dir : IndexSeen(d)' = IF d = dir THEN names ELSE IndexSeen(d)

LEMMA DirectoryChanges ==
  \A dir \in Dir : \A names :
    IndexBecomes(dir, names)
      => dirs' = [dirs EXCEPT ![dir] = [dirs[dir] EXCEPT !.index = names]]
BY DEF dirs, IndexBecomes

LEMMA StoredDirectory ==
  ASSUME NEW names, NEW files, NEW n, NEW v
  PROVE  Directory!Stored([index |-> names, item |-> files], n, v)
           = [index |-> names \cup {n}, item |-> [files EXCEPT ![n] = v]]
<1>1. Directory!Listed([index |-> names, item |-> files], n)
        = [index |-> names \cup {n}, item |-> files]
  BY DEF Directory!Listed
<1>2. [[index |-> names \cup {n}, item |-> files] EXCEPT !.item = [@ EXCEPT ![n] = v]]
        = [index |-> names \cup {n}, item |-> [files EXCEPT ![n] = v]]
  OBVIOUS
<1>3. Directory!Stored([index |-> names, item |-> files], n, v)
        = [[index |-> names \cup {n}, item |-> files] EXCEPT !.item = [@ EXCEPT ![n] = v]]
  BY <1>1, Zenon DEF Directory!Stored
<1>4. QED
  BY <1>2, <1>3, Zenon

\* A step that stores one file and lists it.
FileBecomes(dir, n, v) ==
  /\ DOMAIN item = File
  /\ item' = [item EXCEPT ![<<dir, n>>] = v]
  /\ \A d \in Dir : IndexSeen(d)' = IF d = dir THEN IndexSeen(dir) \cup {n} ELSE IndexSeen(d)

DirectoryHasFile(dir, n, v) ==
  dirs' = [dirs EXCEPT ![dir] = Directory!Stored(dirs[dir], n, v)]

LEMMA FileStored ==
  \A dir \in Dir, n \in Name : \A v : FileBecomes(dir, n, v) => DirectoryHasFile(dir, n, v)
<1> SUFFICES ASSUME NEW dir \in Dir, NEW n \in Name, NEW v, FileBecomes(dir, n, v)
             PROVE  DirectoryHasFile(dir, n, v)
  OBVIOUS
<1>1. PICK names, files : /\ names = IndexSeen(dir) /\ files = [m \in Name |-> item[<<dir, m>>]]
  OBVIOUS
<1>2. PICK new : new = [index |-> names \cup {n}, item |-> [files EXCEPT ![n] = v]]
  OBVIOUS
<1>3. dirs[dir] = [index |-> names, item |-> files]
  BY <1>1 DEF dirs
<1>4. Directory!Stored([index |-> names, item |-> files], n, v) = new
  BY <1>2, StoredDirectory
<1>5. dirs'[dir] = new
  BY <1>1, <1>2 DEF dirs, FileBecomes, File
<1>6. ASSUME NEW d \in Dir, d # dir PROVE dirs'[d] = dirs[d]
  <2>1. IndexSeen(d)' = IndexSeen(d)
    BY <1>6 DEF FileBecomes
  <2>2. [m \in Name |-> item'[<<d, m>>]] = [m \in Name |-> item[<<d, m>>]]
    BY <1>6 DEF FileBecomes, File
  <2>3. /\ dirs[d] = [index |-> IndexSeen(d), item |-> [m \in Name |-> item[<<d, m>>]]]
        /\ dirs'[d] = [index |-> IndexSeen(d)', item |-> [m \in Name |-> item'[<<d, m>>]]]
    BY Zenon DEF dirs
  <2>4. QED
    BY <2>1, <2>2, <2>3, Zenon
<1>7. dirs = [d \in Dir |-> dirs[d]] /\ dirs' = [d \in Dir |-> dirs'[d]]
  BY DEF dirs
<1>8. dirs' = [dirs EXCEPT ![dir] = new]
  BY <1>5, <1>6, <1>7
<1>9. QED
  BY <1>3, <1>4, <1>8, Zenon DEF DirectoryHasFile

\* What one step of the file system does to the directories.
StepKeepsPromise ==
  /\ \A t \in Task :
       (EndsSet(t) /\ outcome'[t] = "ok")
         => Leaves(t, Directory!Stored(dirs[req[t].dir], req[t].name, req[t].value))
  /\ dirs' # dirs =>
       \E t \in Task :
         \/ EndsSet(t) /\ outcome'[t] = "ok"
         \/ EndsSet(t) /\ Leaves(t, Directory!Listed(dirs[req[t].dir], req[t].name))
         \/ /\ pc'[t] = "relock" /\ req[t].kind = "delete"
            /\ Leaves(t, Directory!Unlisted(dirs[req[t].dir], req[t].name))

\* A step that leaves the directories alone and ends no `set` well keeps it.
LEMMA QuietStep ==
  ASSUME dirs' = dirs, \A t \in Task : ~(EndsSet(t) /\ outcome'[t] = "ok")
  PROVE  StepKeepsPromise
BY DEF StepKeepsPromise

LEMMA NextKeepsPromise == IInv /\ DirInv /\ Next => StepKeepsPromise
<1> SUFFICES ASSUME IInv, DirInv, Next PROVE StepKeepsPromise
  OBVIOUS
<1> USE FsAssumption, CallAssumption, RequestTyped
    DEF IInv, TypeOK, LockInv, CallInv, IndexInv, DirInv, WrittenInv,
        Location, Holding, File, Kind, flash, local
<1>1. ASSUME NEW t \in Task,
             Call(t) \/ Lock(t) \/ FetchIndex(t) \/ IndexFull(t) \/ FetchItem(t)
               \/ OpenDirectory(t) \/ NextFile(t) \/ EndOfDirectory(t)
      PROVE  StepKeepsPromise
  <2>1. item' = item /\ \A d \in Dir : IndexSeen(d)' = IndexSeen(d)
    <3>1. CASE Call(t)
      BY <3>1 DEF Call, Goto, IndexSeen
    <3>2. CASE Lock(t)
      BY <3>2 DEF Lock, Goto, IndexSeen
    <3>3. CASE FetchIndex(t)
      BY <3>3 DEF FetchIndex, Goto, AfterIndex, IndexSeen
    <3>4. CASE IndexFull(t) \/ FetchItem(t)
      BY <3>4 DEF IndexFull, FetchItem, Return, Goto, IndexSeen
    <3>5. CASE OpenDirectory(t)
      BY <3>5 DEF OpenDirectory, Goto, IndexSeen
    <3>6. CASE NextFile(t) \/ EndOfDirectory(t)
      BY <3>6 DEF NextFile, EndOfDirectory, Goto, IndexSeen
    <3>7. QED
      BY <1>1, <3>1, <3>2, <3>3, <3>4, <3>5, <3>6
  <2>2. \A u \in Task : ~(EndsSet(u) /\ outcome'[u] = "ok")
    BY <1>1 DEF Call, Lock, FetchIndex, IndexFull, FetchItem, OpenDirectory, NextFile,
                EndOfDirectory, AfterIndex, Return, Goto, EndsSet
  <2>3. QED
    BY <2>1, <2>2, DirectoriesSame, QuietStep
<1>2. ASSUME NEW t \in Task, StoreIndex(t) PROVE StepKeepsPromise
  <2>1. /\ pc[t] = "index" /\ lock = t /\ lock' = t /\ UNCHANGED <<item, req, entries, outcome>>
        /\ req[t].dir \in Dir /\ req[t].kind \in {"set", "delete"}
        /\ entries[t] = index[req[t].dir]
        /\ index' = [index EXCEPT ![req[t].dir] = NewEntries(t)]
        /\ pc' = [pc EXCEPT ![t] = AfterIndex(req[t].kind)]
    BY <1>2 DEF StoreIndex, Goto
  <2>2. \A u \in Task : ~EndsSet(u)
    BY <2>1 DEF EndsSet, AfterIndex
  <2>3. CASE req[t].kind = "set"
    <3>1. \A d \in Dir : IndexSeen(d)' = IndexSeen(d)
      BY <2>1, <2>3 DEF IndexSeen, AfterIndex
    <3>2. QED
      BY <2>1, <2>2, <3>1, DirectoriesSame, QuietStep
  <2>4. CASE req[t].kind = "delete"
    <3> DEFINE names == index[req[t].dir] \ {req[t].name}
    <3>1. /\ IndexBecomes(req[t].dir, names)
          /\ dirs[req[t].dir].index = index[req[t].dir]
          /\ pc'[t] = "relock"
      BY <2>1, <2>4 DEF IndexBecomes, IndexSeen, AfterIndex, NewEntries, dirs
    <3>2. dirs' = [dirs EXCEPT ![req[t].dir] = [dirs[req[t].dir] EXCEPT !.index = names]]
      <4> HIDE DEF names
      <4>1. req[t].dir \in Dir
        BY <2>1
      <4>2. QED
        BY <3>1, <4>1, DirectoryChanges, Zenon
    <3>3. Leaves(t, Directory!Unlisted(dirs[req[t].dir], req[t].name))
      BY <3>1, <3>2, Zenon DEF Leaves, Directory!Unlisted
    <3>4. QED
      BY <2>2, <2>4, <3>1, <3>3 DEF StepKeepsPromise
  <2>5. QED
    BY <2>1, <2>3, <2>4
<1>3. ASSUME NEW t \in Task, StoreItem(t) PROVE StepKeepsPromise
  <2>1. /\ pc[t] = "item" /\ lock = t /\ lock' = NoTask /\ UNCHANGED <<index, req>>
        /\ req[t].dir \in Dir /\ req[t].name \in Name /\ req[t].kind = "set"
        /\ index[req[t].dir] = entries[t] \cup {req[t].name}
        /\ item' = [item EXCEPT ![<<req[t].dir, req[t].name>>] = req[t].value]
        /\ pc' = [pc EXCEPT ![t] = "idle"]
    BY <1>3 DEF StoreItem, Return, Goto
  <2>2. Leaves(t, Directory!Stored(dirs[req[t].dir], req[t].name, req[t].value))
    <3>1. FileBecomes(req[t].dir, req[t].name, req[t].value)
      BY <2>1 DEF FileBecomes, IndexSeen
    <3>2. DirectoryHasFile(req[t].dir, req[t].name, req[t].value)
      <4>1. req[t].dir \in Dir /\ req[t].name \in Name
        BY <2>1
      <4>2. QED
        BY <3>1, <4>1, FileStored, Zenon
    <3>3. QED
      BY <3>2, Zenon DEF Leaves, DirectoryHasFile
  <2>3. EndsSet(t) /\ outcome'[t] = "ok" /\ \A u \in Task : EndsSet(u) => u = t
    BY <1>3, <2>1 DEF StoreItem, Return, EndsSet
  <2>4. QED
    BY <2>2, <2>3 DEF StepKeepsPromise
\* An error or a power loss that ends a call.
<1>4. ASSUME NEW t \in Task, pc[t] = "item" => pc'[t] = "idle",
             \A u \in Task : u # t => pc[u] # "item",
             lock' = NoTask \/ (UNCHANGED lock /\ pc'[lock] # "item" /\ pc[lock] # "item"),
             \A u \in Task : EndsSet(u) => outcome'[u] # "ok", UNCHANGED <<index, item>>
      PROVE  StepKeepsPromise
  <2>1. CASE pc[t] = "item"
    <3> DEFINE names == entries[t] \cup {req[t].name}
    <3>1. /\ lock = t /\ lock' = NoTask /\ req[t].dir \in Dir /\ req[t].kind = "set"
          /\ index[req[t].dir] = names
      BY <1>4, <2>1
    <3>2. /\ IndexBecomes(req[t].dir, names)
          /\ dirs[req[t].dir].index = entries[t]
      BY <1>4, <2>1, <3>1 DEF IndexBecomes, IndexSeen, dirs
    <3>3. dirs' = [dirs EXCEPT ![req[t].dir] = [dirs[req[t].dir] EXCEPT !.index = names]]
      <4> HIDE DEF names
      <4>1. QED
        BY <1>4, <3>1, <3>2, DirectoryChanges, Zenon
    <3>4. EndsSet(t) /\ Leaves(t, Directory!Listed(dirs[req[t].dir], req[t].name))
      <4>1. Leaves(t, Directory!Listed(dirs[req[t].dir], req[t].name))
        BY <3>2, <3>3, Zenon DEF Leaves, Directory!Listed
      <4>2. QED
        BY <1>4, <2>1, <3>1, <4>1 DEF EndsSet
    <3>5. QED
      BY <1>4, <3>4 DEF StepKeepsPromise
  <2>2. CASE pc[t] # "item"
    <3>1. \A d \in Dir : IndexSeen(d)' = IndexSeen(d)
      BY <1>4, <2>2 DEF IndexSeen
    <3>2. QED
      BY <1>4, <3>1, DirectoriesSame, QuietStep
  <2>3. QED
    BY <2>1, <2>2
<1>5. ASSUME NEW t \in Task, FlashError(t) PROVE StepKeepsPromise
  <2>1. /\ pc[t] \in {"fetch", "index", "item", "next"} /\ UNCHANGED <<index, item>>
        /\ lock' = NoTask /\ (pc[t] = "next" => lock = NoTask)
        /\ pc' = [pc EXCEPT ![t] = "idle"] /\ outcome' = [outcome EXCEPT ![t] = "err"]
    BY <1>5 DEF FlashError, Return, Goto
  <2>2. \A u \in Task : u # t => pc[u] # "item"
    BY <2>1
  <2>3. \A u \in Task : EndsSet(u) => outcome'[u] # "ok"
    BY <2>1 DEF EndsSet
  <2>4. QED
    BY <1>4, <2>1, <2>2, <2>3
<1>6. ASSUME Crash PROVE StepKeepsPromise
  <2>1. /\ UNCHANGED <<index, item>> /\ lock' = NoTask
        /\ \A u \in Task : pc'[u] = "idle" /\ outcome'[u] = "none"
    BY <1>6 DEF Crash
  <2>2. CASE lock \in Task
    <3>1. \A u \in Task : u # lock => pc[u] # "item"
      OBVIOUS
    <3>2. QED
      BY <1>4, <2>1, <2>2, <3>1
  <2>3. CASE lock \notin Task
    <3>1. \A d \in Dir : IndexSeen(d)' = IndexSeen(d)
      BY <2>1, <2>3 DEF IndexSeen
    <3>2. QED
      BY <2>1, <3>1, DirectoriesSame, QuietStep
  <2>4. QED
    BY <2>2, <2>3
<1>7. QED
  BY <1>1, <1>2, <1>3, <1>5, <1>6 DEF Next, Proceed

\* The directories change as FlashDirectory says: a `set` that answers Ok has
\* listed and stored its file, one that fails or is cut short may have listed
\* it, a `delete` has unlisted it, and nothing else changes a directory.
THEOREM DirectoriesKept == Spec => DirectoriesAsPromised
<1>1. StepKeepsPromise => [StepKeepsPromise]_vars
  OBVIOUS
<1>2. IInv /\ DirInv /\ [Next]_vars => [StepKeepsPromise]_vars
  BY NextKeepsPromise
<1>3. [][StepKeepsPromise]_vars => DirectoriesAsPromised
  BY DEF StepKeepsPromise, DirectoriesAsPromised
<1>4. QED
  BY <1>2, <1>3, Invariance, DirInvariance, PTL DEF Spec

\* A listing copies the index of a directory between two calls and yields its
\* entries up to the first without a file, as FlashDirectory says.
THEOREM ListingsKept == Spec => ListsAsPromised
<1> DEFINE ListingStep ==
      \A t \in Task :
        /\ (pc[t] = "fetch" /\ pc'[t] = "next") => entries'[t] = dirs[req[t].dir].index
        /\ (pc[t] = "next" /\ pc'[t] = "idle" /\ outcome'[t] = "ok") =>
             seen[t] = Directory!Yielded([index |-> entries[t], item |-> dirs[req[t].dir].item],
                                         [n \in Name |-> n])
<1>1. ASSUME IInv, DirInv, Next, NEW t \in Task, pc[t] = "fetch", pc'[t] = "next"
      PROVE  entries'[t] = dirs[req[t].dir].index
  <2>1. OpenDirectory(t)
    BY <1>1 DEF Next, Proceed, Call, Lock, FetchIndex, StoreIndex, IndexFull, StoreItem,
         FetchItem, OpenDirectory, NextFile, EndOfDirectory, FlashError, Crash, AfterIndex,
         Return, Goto, IInv, TypeOK
  <2>2. req[t].dir \in Dir /\ lock = t
    BY <1>1, RequestTyped DEF IInv, CallInv, LockInv, Holding
  <2>3. dirs[req[t].dir].index = index[req[t].dir]
    BY <1>1, <2>2 DEF dirs, IndexSeen
  <2>4. QED
    BY <1>1, <2>1, <2>3 DEF OpenDirectory, IInv, TypeOK
<1>2. ASSUME IInv, DirInv, Next, NEW t \in Task,
             pc[t] = "next", pc'[t] = "idle", outcome'[t] = "ok"
      PROVE  seen[t] = Directory!Yielded([index |-> entries[t], item |-> dirs[req[t].dir].item],
                                         [n \in Name |-> n])
  <2>1. EndOfDirectory(t)
    <3>1. ~Crash
      BY <1>2 DEF Crash
    <3>2. PICK u \in Task : Call(u) \/ Proceed(u) \/ FlashError(u)
      BY <1>2, <3>1 DEF Next
    <3>3. u = t
      BY <1>2, <3>2
         DEF Proceed, Call, Lock, FetchIndex, StoreIndex, IndexFull, StoreItem, FetchItem,
             OpenDirectory, NextFile, EndOfDirectory, FlashError, Return, Goto, IInv, TypeOK
    <3>4. ~FlashError(t)
      BY <1>2 DEF FlashError, Return, IInv, TypeOK
    <3>5. QED
      BY <1>2, <3>2, <3>3, <3>4
         DEF Proceed, Call, Lock, FetchIndex, StoreIndex, IndexFull, StoreItem, FetchItem,
             OpenDirectory, NextFile
  <2>2. /\ req[t].dir \in Dir /\ entries[t] \subseteq Name /\ Name \subseteq Nat
        /\ seen[t] \subseteq entries[t]
        /\ \A n \in seen[t] : item[<<req[t].dir, n>>] # NoValue
        /\ \A n \in seen[t], m \in entries[t] \ seen[t] : n <= m
    BY <1>2, FsAssumption, RequestTyped DEF IInv, TypeOK, CallInv, DirInv, PassedInv
  <2>3. Directory!Yielded([index |-> entries[t], item |-> dirs[req[t].dir].item],
                          [n \in Name |-> n])
          = {n \in entries[t] : \A m \in entries[t] : m <= n => item[<<req[t].dir, m>>] # NoValue}
    BY <2>2 DEF Directory!Yielded, dirs
  <2>4. \/ entries[t] = seen[t]
        \/ \E n \in entries[t] \ seen[t] :
             /\ \A m \in entries[t] \ seen[t] : n <= m
             /\ item[<<req[t].dir, n>>] = NoValue
    BY <2>1 DEF EndOfDirectory, IsNextEntry
  <2>5. ASSUME NEW n \in entries[t]
        PROVE  n \in seen[t] <=> \A m \in entries[t] : m <= n => item[<<req[t].dir, m>>] # NoValue
    <3>1. CASE n \in seen[t]
      <4>1. ASSUME NEW m \in entries[t], m <= n, m \notin seen[t] PROVE FALSE
        <5>1. n <= m /\ n \in Nat /\ m \in Nat
          BY <2>2, <3>1, <4>1
        <5>2. QED
          BY <3>1, <4>1, <5>1
      <4>2. QED
        BY <2>2, <3>1, <4>1
    <3>2. CASE n \notin seen[t]
      BY <2>4, <3>2
    <3>3. QED
      BY <3>1, <3>2
  <2>6. QED
    BY <2>2, <2>3, <2>5
<1>3. IInv /\ DirInv /\ [Next]_vars => [ListingStep]_vars
  BY <1>1, <1>2
<1>4. QED
  BY <1>3, Invariance, DirInvariance, PTL DEF Spec, ListsAsPromised

\* The steps behind a call implement the directories of FlashDirectory, on
\* which Stores builds the boot and the stores of contacts and channels.
THEOREM ImplementsDirectories == Spec => KeepsDirectories
BY DirectoriesKept, ListingsKept DEF KeepsDirectories

-----------------------------------------------------------------------------
(***************************************************************************)
(* What interrupted `set`s leave behind.                                   *)
(***************************************************************************)

\* The file that a task is about to store.
FileOf(t) == <<req[t].dir, req[t].name>>

\* Index entries without an item that no task will fill.
Abandoned == {f \in Dangling : \A t \in Task : pc[t] = "item" => f # FileOf(t)}

RareInv == IsFiniteSet(Abandoned) /\ Cardinality(Abandoned) <= failures + crashes

LEMMA InitRare == Init => RareInv
<1> SUFFICES ASSUME Init PROVE RareInv
  OBVIOUS
<1>1. Abandoned = {}
  BY DEF Init, Abandoned, Dangling, File
<1>2. QED
  BY <1>1, FS_EmptySet DEF Init, RareInv

\* A step may add the one file whose write it interrupts, if it is counted.
LEMMA AbandonsOne ==
  ASSUME RareInv, failures \in Nat, crashes \in Nat, NEW f,
         Abandoned' \subseteq Abandoned \cup {f}, failures' + crashes' = failures + crashes + 1
  PROVE  RareInv'
<1>1. /\ IsFiniteSet(Abandoned \cup {f})
      /\ Cardinality(Abandoned \cup {f}) <= Cardinality(Abandoned) + 1
  <2>1. IsFiniteSet(Abandoned) /\ Cardinality(Abandoned) \in Nat
    BY FS_CardinalityType DEF RareInv
  <2>2. /\ IsFiniteSet(Abandoned \cup {f})
        /\ \/ Cardinality(Abandoned \cup {f}) = Cardinality(Abandoned)
           \/ Cardinality(Abandoned \cup {f}) = Cardinality(Abandoned) + 1
    BY <2>1, FS_AddElement
  <2>3. QED
    BY <2>1, <2>2
<1>2. /\ IsFiniteSet(Abandoned') /\ Cardinality(Abandoned') <= Cardinality(Abandoned \cup {f})
  BY <1>1, FS_Subset
<1>3. /\ Cardinality(Abandoned) \in Nat /\ Cardinality(Abandoned') \in Nat
      /\ Cardinality(Abandoned \cup {f}) \in Nat
  BY <1>1, <1>2, FS_CardinalityType DEF RareInv
<1>4. QED
  BY <1>1, <1>2, <1>3 DEF RareInv

LEMMA AbandonsNone ==
  ASSUME RareInv, failures \in Nat, crashes \in Nat,
         Abandoned' \subseteq Abandoned, UNCHANGED <<failures, crashes>>
  PROVE  RareInv'
<1>1. /\ IsFiniteSet(Abandoned') /\ Cardinality(Abandoned') <= Cardinality(Abandoned)
      /\ Cardinality(Abandoned) \in Nat /\ Cardinality(Abandoned') \in Nat
  BY FS_Subset, FS_CardinalityType DEF RareInv
<1>2. QED
  BY <1>1 DEF RareInv

LEMMA NextRare == IInv /\ RareInv /\ [Next]_vars => RareInv'
<1> SUFFICES ASSUME IInv, RareInv, [Next]_vars PROVE RareInv'
  OBVIOUS
<1>0. failures \in Nat /\ crashes \in Nat
  BY FsAssumption DEF IInv, TypeOK
<1> USE FsAssumption, RequestTyped
    DEF IInv, TypeOK, LockInv, CallInv, Abandoned, Dangling, FileOf, Location, Holding,
        File, Kind, flash, local
<1>1. ASSUME NEW t \in Task, Call(t) PROVE RareInv'
  <2>1. Abandoned' \subseteq Abandoned /\ UNCHANGED <<failures, crashes>>
    BY <1>1 DEF Call, Goto
  <2>2. QED
    BY <1>0, <2>1, AbandonsNone
<1>2. ASSUME NEW t \in Task, Lock(t) PROVE RareInv'
  <2>1. Abandoned' \subseteq Abandoned /\ UNCHANGED <<failures, crashes>>
    BY <1>2 DEF Lock, Goto
  <2>2. QED
    BY <1>0, <2>1, AbandonsNone
<1>3. ASSUME NEW t \in Task, FetchIndex(t) PROVE RareInv'
  <2>1. Abandoned' \subseteq Abandoned /\ UNCHANGED <<failures, crashes>>
    BY <1>3 DEF FetchIndex, Goto
  <2>2. QED
    BY <1>0, <2>1, AbandonsNone
<1>4. ASSUME NEW t \in Task, StoreIndex(t) PROVE RareInv'
  <2>1. /\ req[t] \in Request /\ req[t].kind \in {"set", "delete"} /\ req[t].dir \in Dir
        /\ entries[t] = index[req[t].dir]
        /\ index' = [index EXCEPT ![req[t].dir] = NewEntries(t)] /\ UNCHANGED <<item, req>>
        /\ pc' = [pc EXCEPT ![t] = AfterIndex(req[t].kind)] /\ pc[t] = "index"
        /\ UNCHANGED <<failures, crashes>>
    BY <1>4 DEF StoreIndex, Goto, IndexInv
  <2>2. ASSUME NEW f \in Dangling' PROVE f \in Dangling \/ (req[t].kind = "set" /\ f = FileOf(t))
    BY <2>1 DEF NewEntries
  <2>3. \A u \in Task : pc[u] = "item" => pc'[u] = "item"
    BY <2>1
  <2>4. req[t].kind = "set" => pc'[t] = "item"
    BY <2>1 DEF AfterIndex
  <2>5. Abandoned' \subseteq Abandoned
    BY <2>1, <2>2, <2>3, <2>4
  <2>6. QED
    BY <1>0, <2>1, <2>5, AbandonsNone
<1>5. ASSUME NEW t \in Task, StoreItem(t) PROVE RareInv'
  <2>1. req[t] \in Request /\ req[t].value # NoValue
    BY <1>5 DEF StoreItem, Request
  <2>2. Abandoned' \subseteq Abandoned /\ UNCHANGED <<failures, crashes>>
    BY <1>5, <2>1 DEF StoreItem, Return, Goto
  <2>3. QED
    BY <1>0, <2>2, AbandonsNone
<1>6. ASSUME NEW t \in Task, IndexFull(t) \/ FetchItem(t) \/ OpenDirectory(t) \/ NextFile(t)
                             \/ EndOfDirectory(t)
      PROVE  RareInv'
  <2>1. Abandoned' \subseteq Abandoned /\ UNCHANGED <<failures, crashes>>
    BY <1>6 DEF IndexFull, FetchItem, OpenDirectory, NextFile, EndOfDirectory, Return, Goto
  <2>2. QED
    BY <1>0, <2>1, AbandonsNone
<1>7. ASSUME NEW t \in Task, FlashError(t) PROVE RareInv'
  <2>1. Abandoned' \subseteq Abandoned \cup {FileOf(t)}
    BY <1>7 DEF FlashError, Return, Goto
  <2>2. PICK f : f = FileOf(t)
    OBVIOUS
  <2>3. Abandoned' \subseteq Abandoned \cup {f}
    BY <2>1, <2>2
  <2>4. failures' + crashes' = failures + crashes + 1
    BY <1>0, <1>7 DEF FlashError
  <2>5. QED
    BY <1>0, <2>3, <2>4, AbandonsOne
<1>8. CASE Crash
  <2>1. Abandoned' \subseteq Abandoned \cup {FileOf(lock)}
    BY <1>8 DEF Crash
  <2>2. PICK f : f = FileOf(lock)
    OBVIOUS
  <2>3. Abandoned' \subseteq Abandoned \cup {f}
    BY <2>1, <2>2
  <2>4. failures' + crashes' = failures + crashes + 1
    BY <1>0, <1>8 DEF Crash
  <2>5. QED
    BY <1>0, <2>3, <2>4, AbandonsOne
<1>9. CASE UNCHANGED vars
  <2>1. Abandoned' \subseteq Abandoned /\ UNCHANGED <<failures, crashes>>
    BY <1>9 DEF vars
  <2>2. QED
    BY <1>0, <2>1, AbandonsNone
<1>10. QED
  BY <1>1, <1>2, <1>3, <1>4, <1>5, <1>6, <1>7, <1>8, <1>9 DEF Next, Proceed

\* Each failed write and each power loss leaves at most one index entry without
\* an item, and only one more can be in the making.
THEOREM DanglingStaysRare == Spec => []DanglingIsRare
<1>1. IInv /\ RareInv => DanglingIsRare
  <2> SUFFICES ASSUME IInv, RareInv PROVE DanglingIsRare
    OBVIOUS
  <2> DEFINE storing == {t \in Task : pc[t] = "item"}
  <2>1. Cardinality(Abandoned) \in Nat /\ failures \in Nat /\ crashes \in Nat
    BY FsAssumption, FS_CardinalityType DEF RareInv, IInv, TypeOK
  <2>2. CASE storing = {}
    <3>1. Dangling = Abandoned
      BY <2>2 DEF Abandoned
    <3>2. Cardinality(storing) = 0
      BY <2>2, FS_EmptySet
    <3>3. QED
      BY <2>1, <3>1, <3>2 DEF DanglingIsRare, RareInv
  <2>3. CASE storing # {}
    <3>1. storing = {lock}
      BY <2>3 DEF IInv, LockInv, Holding
    <3>2. Cardinality(storing) = 1
      BY <3>1, FS_Singleton
    <3>3. Dangling \subseteq Abandoned \cup {FileOf(lock)}
      BY <3>1 DEF Abandoned
    <3>4. /\ IsFiniteSet(Abandoned \cup {FileOf(lock)})
          /\ Cardinality(Abandoned \cup {FileOf(lock)}) <= Cardinality(Abandoned) + 1
      BY <2>1, FS_AddElement DEF RareInv
    <3>5. /\ IsFiniteSet(Dangling)
          /\ Cardinality(Dangling) <= Cardinality(Abandoned \cup {FileOf(lock)})
      BY <3>3, <3>4, FS_Subset
    <3>6. Cardinality(Dangling) \in Nat /\ Cardinality(Abandoned \cup {FileOf(lock)}) \in Nat
      BY <3>4, <3>5, FS_CardinalityType
    <3>7. QED
      BY <2>1, <3>2, <3>4, <3>5, <3>6 DEF DanglingIsRare, RareInv
  <2>4. QED
    BY <2>2, <2>3
<1>2. QED
  BY <1>1, InitRare, NextRare, Invariance, PTL DEF Spec
=============================================================================
