\* Two tasks on a directory nobody deletes from, whose index holds two of three
\* names, and on one that sees deletes; a failed flash operation and a power
\* loss.
CONSTANTS
  t1 = t1
  t2 = t2
  v1 = v1
  channels = channels
  contacts = contacts
  NoValue = NoValue
  NoName = NoName
  NoRequest = NoRequest
  NoTask = NoTask
  Calls <- BothDirectories
  Task = {t1, t2}
  Dir = {channels, contacts}
  Name = {1, 2, 3}
  Value = {v1}
  Deletable = {contacts}
  MaxEntries = 2
  MaxFail = 1
  MaxCrash = 1
SPECIFICATION FairSpec
INVARIANTS TypeOK LockInv StoredIsIndexed ListingComplete DanglingIsRare
PROPERTIES KeepsDirectories MapSpec DeleteNeverReturns LockReleased
\* `delete` waits for itself, with the mutex.
CHECK_DEADLOCK FALSE
