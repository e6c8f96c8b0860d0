SPECIFICATION PartSpec
CONSTANTS
  c1 = c1
  c2 = c2
  c3 = c3
  a1 = a1
  a2 = a2
  r1 = r1
  r2 = r2
  k1 = k1
  k2 = k2
  k3 = k3
  Loaders = {browser, server}
  Services = {server}
  None = none
  MaxRevision = 2
  Borrowers = {c1, c2, c3}
  MaxTracks = 3
  Calls = {c1, c2, c3}
  Actors = {a1, a2}
  VisionRooms = {r1, r2}
  Keys = {k1, k2, k3}
  RoomOf <- MCRoomOf
  LeaseLength = 2
  RateWindow = 2
  PerWindow = 2
  PerRoom = 2
  Day = 2
  PerActorDay = 1
  PerDay = 2
  LastTick = 2
  MaxUpsets = 1
  QuotaCalls = {c1, c2, c3}
  QuotaActors = {a1, a2}
  QuotaRooms = {r1, r2}
  RequestIds = {k1, k2}
  NoId = noid
  Max <- MCMax
  Window = 1
  QuotaDay = 2
  Retention = 3
  MaxWait = 1
  LastQuotaTick = 4
SYMMETRY Symmetry
INVARIANTS
  NoFalseCorruption
  DevicesAccounted
  OneCallPerRoom AnswersAgree SpendIsBounded
  LimitsHold RetriesSpendOnce
PROPERTIES ImplementsAtomicLoad LeasesKeepTheirTracks
CHECK_DEADLOCK FALSE
