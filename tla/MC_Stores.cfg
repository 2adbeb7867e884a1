\* Contacts, channels and single values through boots, failed writes and power
\* losses; clients remove contacts, after which the device waits for a reboot.
SPECIFICATION Spec
CONSTANTS
  Word = 64
  partition_offset = 20
  partition_size = 30
  Key = {k1, k2}
  HashOfKey <- KeyOrder
  Path = {p1}
  NoPath = NoPath
  NotCached = NotCached
  NoReturn = NoReturn
  NoFile = NoFile
  Idx = {0, 1, 2}
  HashOfIdx <- IdxOrder
  Name = {public, test, cats, own}
  Secret = {public, test, cats, own}
  HashOf <- Hashes
  NoChannel = NoChannel
  NoIdx = NoIdx
  ConfigChannels <- Configured
  LayerChannels <- OfLayer
  ClientChannels <- SetByClient
  Text = {public, own}
  Default = public
  NoIdentity = NoIdentity
  MaxOps = 3
  MaxFail = 1
  MaxCrash = 2
  k1 = k1
  k2 = k2
  p1 = p1
  public = public
  test = test
  cats = cats
  own = own
INVARIANTS TypeOK CachedIsStored ContactsSurvive ChannelsSurvive FoundUnlessReplaced IdentityKept SettingsKept
PROPERTY NoBootLoop
CHECK_DEADLOCK FALSE
