CONSTANTS
  Arrivals = 3
  i1 = i1
  i2 = i2
  i3 = i3
  Ids = {i1, i2, i3}
  NoId = NoId
  ConnectionLimits = {1, 2}
  SessionLimits = {1, 2}
SPECIFICATION FairSpec
INVARIANTS
  TypeOK
  SlotsCounted
  LiveSessionsBounded
PROPERTIES
  StoreKeepsSessions
  EvictsLeastRecentlyUsedAsRead
  EveryConnectionAnswered
