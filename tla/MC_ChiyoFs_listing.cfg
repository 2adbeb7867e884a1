\* One power loss inside a `set` hides the files behind it.
CONSTANTS
  t1 = t1
  t2 = t2
  v1 = v1
  channels = channels
  contacts = contacts
  NoValue = NoValue
  NoName = NoName
  NoRequest = NoRequest
  NoTask = NoTask
  Calls <- WriteAndList
  Task = {t1}
  Dir = {channels}
  Name = {1, 2}
  Value = {v1}
  Deletable = {}
  MaxEntries = 2
  MaxFail = 0
  MaxCrash = 1
SPECIFICATION Spec
PROPERTIES ListingYieldsStored
CHECK_DEADLOCK FALSE
