------------------------------ MODULE ChiyoFs ------------------------------
(***************************************************************************)
(* ChiyoFilesystem (firmware/chiyo-hal/src/storage.rs): directories kept   *)
(* over a flash key-value map.  Each directory has one index item, the     *)
(* sorted array of its file hashes, and each file is an item of its own.   *)
(* One async mutex (`inner`) guards the map; `set` and `delete` hold it    *)
(* across several flash operations, each of which may fail or be cut short *)
(* by a power loss.                                                        *)
(*                                                                         *)
(* One flash operation of sequential-storage (fetch_item, store_item,      *)
(* remove_item) is one step: the library writes an item atomically.        *)
(* get_or_insert and get_persistable are a `get` followed by a `set` of    *)
(* the same task, with the mutex free in between.                          *)
(***************************************************************************)
EXTENDS Naturals, FiniteSets

CONSTANTS Task,       \* the firmware tasks that call the file system
          Dir,        \* directories (DirKey)
          Name,       \* hashes of file names (second half of FileKey),
                      \* numbered in the byte order the index is sorted by
          Value,      \* contents of a file
          Deletable,  \* directories whose owner calls `delete` (contacts)
          MaxEntries, \* entries that fit in an index item of 4096 bytes
          NoValue, NoName, NoRequest, NoTask,
          Calls,      \* the calls the firmware makes
          MaxFail,    \* bound: flash operations that return an error
          MaxCrash    \* bound: power losses

ASSUME FsAssumption ==
  /\ Name \subseteq Nat
  /\ NoName \notin Name
  /\ NoValue \notin Value
  /\ NoTask \notin Task
  /\ Deletable \subseteq Dir
  /\ MaxEntries \in Nat
  /\ MaxFail \in Nat
  /\ MaxCrash \in Nat

File == Dir \X Name

Kind == {"set", "delete", "get", "list"}

\* `list` stands for directory_entries(..).reader(..) and its next_file loop.
Request ==
  {r \in [kind: Kind, dir: Dir, name: Name \cup {NoName},
          value: Value \cup {NoValue}] :
     /\ (r.kind = "list") <=> (r.name = NoName)
     /\ (r.kind = "set") <=> (r.value # NoValue)
     /\ (r.kind = "delete") => (r.dir \in Deletable)}

ASSUME CallAssumption == Calls \subseteq Request

VARIABLES index,    \* flash: the names in each directory's index item
          item,     \* flash: the contents of each file
          lock,     \* the task that holds the mutex
          pc,       \* where each task is
          req,      \* its call
          entries,  \* the index it has read (Vec of `set`, DirectoryEntries)
          seen,     \* the entries its reader has passed
          got,      \* what its `get` returned
          outcome,  \* how its last call ended
          failures, crashes

flash == <<index, item>>
local == <<req, entries, seen, got>>
vars == <<flash, lock, pc, local, outcome, failures, crashes>>

-----------------------------------------------------------------------------
\* Where a task holds the mutex.  At "relock" it is inside `delete`, between
\* the rewrite of the index and the second `self.inner.lock().await`: the
\* guard `fs` of the first one is alive until `delete` returns.
Holding == {"fetch", "index", "item", "relock"}

Location == {"idle", "acquire", "next"} \cup Holding

TypeOK ==
  /\ index \in [Dir -> SUBSET Name]
  /\ item \in [File -> Value \cup {NoValue}]
  /\ lock \in Task \cup {NoTask}
  /\ pc \in [Task -> Location]
  /\ req \in [Task -> Request \cup {NoRequest}]
  /\ entries \in [Task -> SUBSET Name]
  /\ seen \in [Task -> SUBSET Name]
  /\ got \in [Task -> Value \cup {NoValue}]
  /\ outcome \in [Task -> {"none", "ok", "err"}]
  /\ failures \in 0..MaxFail
  /\ crashes \in 0..MaxCrash

Init ==
  /\ index = [d \in Dir |-> {}]
  /\ item = [f \in File |-> NoValue]
  /\ lock = NoTask
  /\ pc = [t \in Task |-> "idle"]
  /\ req = [t \in Task |-> NoRequest]
  /\ entries = [t \in Task |-> {}]
  /\ seen = [t \in Task |-> {}]
  /\ got = [t \in Task |-> NoValue]
  /\ outcome = [t \in Task |-> "none"]
  /\ failures = 0
  /\ crashes = 0

Goto(t, loc) == pc' = [pc EXCEPT ![t] = loc]

\* A call ends: its guard is dropped and the caller has its result.
Return(t, result) == /\ Goto(t, "idle")
                     /\ lock' = NoTask
                     /\ outcome' = [outcome EXCEPT ![t] = result]

-----------------------------------------------------------------------------
Call(t) ==
  /\ pc[t] = "idle"
  /\ \E r \in Calls : req' = [req EXCEPT ![t] = r]
  /\ entries' = [entries EXCEPT ![t] = {}]
  /\ seen' = [seen EXCEPT ![t] = {}]
  /\ got' = [got EXCEPT ![t] = NoValue]
  /\ outcome' = [outcome EXCEPT ![t] = "none"]
  /\ Goto(t, "acquire")
  /\ UNCHANGED <<flash, lock, failures, crashes>>

\* Faulty variant: the mutex lets everybody in.
LockUnguarded(t) ==
  /\ pc[t] \in {"acquire", "relock"}
  /\ lock' = t
  /\ Goto(t, IF pc[t] = "acquire" THEN "fetch" ELSE "item")
  /\ UNCHANGED <<flash, local, outcome, failures, crashes>>

\* `self.inner.lock().await`: granted only when nobody holds the mutex, the
\* waiting task included.
Lock(t) ==
  /\ pc[t] \in {"acquire", "relock"}
  /\ lock = NoTask
  /\ lock' = t
  /\ Goto(t, IF pc[t] = "acquire" THEN "fetch" ELSE "item")
  /\ UNCHANGED <<flash, local, outcome, failures, crashes>>

\* Faulty variant: `set` locks twice as well.
AfterIndexRelock(kind) == "relock"

AfterIndex(kind) == IF kind = "set" THEN "item" ELSE "relock"

\* Faulty variant: `set` adds a name to the index only if it is there already.
FetchIndexInverted(t) ==
  /\ pc[t] = "fetch"
  /\ req[t].kind \in {"set", "delete"}
  /\ entries' = [entries EXCEPT ![t] = index[req[t].dir]]
  /\ Goto(t, IF req[t].name \in index[req[t].dir]
               THEN "index" ELSE AfterIndex(req[t].kind))
  /\ UNCHANGED <<flash, lock, req, seen, got, outcome, failures, crashes>>

\* `set` and `delete` read the index and rewrite it only if the name has to be
\* added or removed.  A missing index item reads as an empty directory.
FetchIndex(t) ==
  /\ pc[t] = "fetch"
  /\ req[t].kind \in {"set", "delete"}
  /\ entries' = [entries EXCEPT ![t] = index[req[t].dir]]
  /\ Goto(t, IF (req[t].kind = "set") <=> (req[t].name \in index[req[t].dir])
               THEN AfterIndex(req[t].kind) ELSE "index")
  /\ UNCHANGED <<flash, lock, req, seen, got, outcome, failures, crashes>>

\* Faulty variant: the other half of the key is pushed.
NewEntriesWrongHash(t) == IF req[t].kind = "set" THEN entries[t] \cup {req[t].dir}
                                                 ELSE entries[t] \ {req[t].name}

NewEntries(t) == IF req[t].kind = "set" THEN entries[t] \cup {req[t].name}
                                        ELSE entries[t] \ {req[t].name}

\* Faulty variant: the mutex is released between the index and the item.
StoreIndexEarlyUnlock(t) ==
  /\ pc[t] = "index"
  /\ Cardinality(NewEntries(t)) <= MaxEntries
  /\ index' = [index EXCEPT ![req[t].dir] = NewEntries(t)]
  /\ lock' = NoTask
  /\ Goto(t, AfterIndex(req[t].kind))
  /\ UNCHANGED <<item, local, outcome, failures, crashes>>

StoreIndex(t) ==
  /\ pc[t] = "index"
  /\ Cardinality(NewEntries(t)) <= MaxEntries
  /\ index' = [index EXCEPT ![req[t].dir] = NewEntries(t)]
  /\ Goto(t, AfterIndex(req[t].kind))
  /\ UNCHANGED <<item, lock, local, outcome, failures, crashes>>

\* Faulty variant: the size is looked at after the write.
IndexFullStored(t) ==
  /\ pc[t] = "index"
  /\ Cardinality(NewEntries(t)) > MaxEntries
  /\ index' = [index EXCEPT ![req[t].dir] = NewEntries(t)]
  /\ Return(t, "err")
  /\ UNCHANGED <<item, local, failures, crashes>>

\* The index no longer fits in the 4096-byte buffer: BufferTooSmall.
IndexFull(t) ==
  /\ pc[t] = "index"
  /\ Cardinality(NewEntries(t)) > MaxEntries
  /\ Return(t, "err")
  /\ UNCHANGED <<flash, local, failures, crashes>>

\* Faulty variant: an answer without the write, when the name was indexed.
StoreItemSkipped(t) ==
  /\ pc[t] = "item"
  /\ item' = IF req[t].name \in entries[t]
               THEN item
               ELSE [item EXCEPT ![<<req[t].dir, req[t].name>>] = req[t].value]
  /\ Return(t, "ok")
  /\ UNCHANGED <<index, local, failures, crashes>>

\* The last step of `set` (store_item) and of `delete` (remove_item, whose
\* value is NoValue).
StoreItem(t) ==
  /\ pc[t] = "item"
  /\ item' = [item EXCEPT ![<<req[t].dir, req[t].name>>] = req[t].value]
  /\ Return(t, "ok")
  /\ UNCHANGED <<index, local, failures, crashes>>

\* `get`.
FetchItem(t) ==
  /\ pc[t] = "fetch"
  /\ req[t].kind = "get"
  /\ got' = [got EXCEPT ![t] = item[<<req[t].dir, req[t].name>>]]
  /\ Return(t, "ok")
  /\ UNCHANGED <<flash, req, entries, seen, failures, crashes>>

\* `directory_entries` copies the index and drops the guard.
OpenDirectory(t) ==
  /\ pc[t] = "fetch"
  /\ req[t].kind = "list"
  /\ entries' = [entries EXCEPT ![t] = index[req[t].dir]]
  /\ seen' = [seen EXCEPT ![t] = {}]
  /\ lock' = NoTask
  /\ Goto(t, "next")
  /\ UNCHANGED <<flash, req, got, outcome, failures, crashes>>

\* The cursor of DirectoryEntries: the least entry the reader has not passed.
IsNextEntry(t, n) == /\ n \in entries[t] \ seen[t]
                     /\ \A m \in entries[t] \ seen[t] : n <= m

\* `next_file` on an entry whose item exists: Some(Ok(contents)).
NextFile(t) ==
  /\ pc[t] = "next"
  /\ lock = NoTask
  /\ \E n \in entries[t] \ seen[t] :
       /\ IsNextEntry(t, n)
       /\ item[<<req[t].dir, n>>] # NoValue
       /\ seen' = [seen EXCEPT ![t] = @ \cup {n}]
  /\ UNCHANGED <<flash, lock, pc, req, entries, got, outcome, failures, crashes>>

\* `next_file` answers None, which ends the caller's `while let` loop: at the
\* end of the entries, and also at an entry without an item, because
\* get(..).transpose() maps Ok(None) to None.
EndOfDirectory(t) ==
  /\ pc[t] = "next"
  /\ \/ entries[t] = seen[t]
     \/ /\ lock = NoTask
        /\ \E n \in entries[t] \ seen[t] :
             IsNextEntry(t, n) /\ item[<<req[t].dir, n>>] = NoValue
  /\ Goto(t, "idle")
  /\ outcome' = [outcome EXCEPT ![t] = "ok"]
  /\ UNCHANGED <<flash, lock, local, failures, crashes>>

\* A flash operation returns an error and `?` leaves the function, dropping
\* the guard.  The callers stop iterating at a read error.
FlashError(t) ==
  /\ failures < MaxFail
  /\ failures' = failures + 1
  /\ \/ /\ pc[t] \in {"fetch", "index", "item"}
        /\ Return(t, "err")
     \/ /\ pc[t] = "next"
        /\ lock = NoTask
        /\ Return(t, "err")
  /\ UNCHANGED <<flash, local, crashes>>

\* Power loss and reboot: the tasks and the mutex start afresh.
Crash ==
  /\ crashes < MaxCrash
  /\ crashes' = crashes + 1
  /\ lock' = NoTask
  /\ pc' = [t \in Task |-> "idle"]
  /\ req' = [t \in Task |-> NoRequest]
  /\ entries' = [t \in Task |-> {}]
  /\ seen' = [t \in Task |-> {}]
  /\ got' = [t \in Task |-> NoValue]
  /\ outcome' = [t \in Task |-> "none"]
  /\ UNCHANGED <<flash, failures>>

\* The steps of a call in progress; the executor polls a task that can run.
Proceed(t) == \/ Lock(t)
              \/ FetchIndex(t) \/ StoreIndex(t) \/ IndexFull(t) \/ StoreItem(t)
              \/ FetchItem(t)
              \/ OpenDirectory(t) \/ NextFile(t) \/ EndOfDirectory(t)

Next == \/ \E t \in Task : Call(t) \/ Proceed(t) \/ FlashError(t)
        \/ Crash

Spec == Init /\ [][Next]_vars

FairSpec == Spec /\ \A t \in Task : WF_vars(Proceed(t))

-----------------------------------------------------------------------------
\* At most one task is between a lock() and the drop of its guard, and it is
\* the one the mutex names: every flash operation of `set` and `delete`
\* relies on it.
LockInv == \A t \in Task : (pc[t] \in Holding) <=> (lock = t)

\* A file that exists is listed by its directory, across concurrent calls,
\* failed writes and power losses: `set` writes the index before the item
\* (storage.rs:302-338).  Directories that see `delete` are left out: it takes
\* a name off the index before it removes the item.
StoredIsIndexed ==
  \A f \in File : (f[1] \notin Deletable /\ item[f] # NoValue)
                    => f[2] \in index[f[1]]

\* An index entry without an item is the trace of one interrupted `set`: there
\* are never more of them than power losses and failed writes, and the `set`
\* in progress.
Dangling == {f \in File : f[2] \in index[f[1]] /\ item[f] = NoValue}

DanglingIsRare ==
  Cardinality(Dangling) <= failures + crashes
                             + Cardinality({t \in Task : pc[t] = "item"})

\* Without failures and power losses, a reader that has reached the end has
\* yielded every entry of the directory it opened, although other tasks write
\* while it reads: a directory is never seen between index and item.
ListingComplete ==
  \A t \in Task :
    (/\ pc[t] = "idle"
     /\ outcome[t] = "ok"
     /\ req[t].kind = "list"
     /\ failures = 0
     /\ crashes = 0) => seen[t] = entries[t]

\* Concurrent `set`s of different files of a directory never lose an entry of
\* each other: an index shrinks only where files may be deleted.
IndexKept ==
  [][\A d \in Dir \ Deletable : index[d] \subseteq index'[d]]_vars

\* `delete` does not come back: from the second lock() (storage.rs:364) the
\* only way on is a reboot, so no file is ever removed and the file system is
\* closed to every task.
DeleteNeverReturns ==
  [][\A t \in Task : pc[t] = "relock" => (pc'[t] = "relock" \/ crashes' # crashes)]_vars

\* Whoever holds the file system's mutex lets go of it, through errors, full
\* indexes and power losses; the exception is `delete`, which waits for itself.
LockReleased ==
  \A t \in Task :
    (lock = t) ~> (lock # t \/ (pc[t] = "relock" /\ req[t].kind = "delete"))

\* "iterable directories" (storage.rs:228): when a reader reaches the end, it
\* has yielded every file of the directory it opened.
ListingYieldsStored ==
  [][\A t \in Task :
       (pc[t] = "next" /\ pc'[t] = "idle" /\ outcome'[t] = "ok")
         => \A n \in entries[t] \ seen[t] : item[<<req[t].dir, n>>] = NoValue]_vars

\* The file system implements the atomic, durable map of KeyValue: three-step
\* `set`s under one mutex, errors half way and power losses do not show, except
\* in the listings.
Map == INSTANCE KeyValue WITH
         store <- item,
         request <- req,
         pending <- [t \in Task |-> pc[t] # "idle"],
         answer <- outcome

MapSpec == Map!Spec

-----------------------------------------------------------------------------
\* The directories that Stores relies on: each call one step.
Directory == INSTANCE FlashDirectory WITH NoFile <- NoValue

\* A `set` that has written the index shows when it is over.
IndexSeen(d) ==
  IF lock \in Task /\ pc[lock] = "item" /\ req[lock].dir = d THEN entries[lock] ELSE index[d]

dirs == [d \in Dir |-> [index |-> IndexSeen(d), item |-> [n \in Name |-> item[<<d, n>>]]]]

\* The task's call leaves its directory like this, and no other one changes.
Leaves(t, directory) == dirs' = [dirs EXCEPT ![req[t].dir] = directory]

EndsSet(t) == pc[t] # "idle" /\ req[t].kind = "set" /\ pc'[t] = "idle"

\* A `set` that answers Ok has stored the file, one that fails or is cut short
\* has stored nothing and may have listed the name; what `delete` does before
\* it hangs is to unlist it; and nothing else changes a directory.
DirectoriesAsPromised ==
  [][/\ \A t \in Task :
          (EndsSet(t) /\ outcome'[t] = "ok")
            => Leaves(t, Directory!Stored(dirs[req[t].dir], req[t].name, req[t].value))
     /\ dirs' # dirs =>
          \E t \in Task :
            \/ EndsSet(t) /\ outcome'[t] = "ok"
            \/ EndsSet(t) /\ Leaves(t, Directory!Listed(dirs[req[t].dir], req[t].name))
            \/ /\ pc'[t] = "relock" /\ req[t].kind = "delete"
               /\ Leaves(t, Directory!Unlisted(dirs[req[t].dir], req[t].name))]_vars

\* A reader that reaches the end has yielded what Yielded says of the index it
\* has read, which is that of a directory between two calls, and of the files
\* that there are by then.
ListsAsPromised ==
  [][\A t \in Task :
       /\ (pc[t] = "fetch" /\ pc'[t] = "next") => entries'[t] = dirs[req[t].dir].index
       /\ (pc[t] = "next" /\ pc'[t] = "idle" /\ outcome'[t] = "ok") =>
            seen[t] = Directory!Yielded([index |-> entries[t], item |-> dirs[req[t].dir].item],
                                        [n \in Name |-> n])]_vars

\* Together: what Stores takes for granted about the file system.
KeepsDirectories == DirectoriesAsPromised /\ ListsAsPromised
=============================================================================
