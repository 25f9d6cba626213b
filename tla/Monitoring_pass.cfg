SPECIFICATION LiveSpec
CONSTANTS
  f1 = f1
  r1 = r1
  p1 = p1
  p2 = p2
  orders = orders
  created = created
  Nothing = nothing
  Files = {f1}
  Moments = {"scan"}
  MaxVersion = 4
  Errors <- FileErrors
  Retailers = {r1}
  Products = {p1, p2}
  Entities = {orders}
  EventTypes = {created}
  RecentN = 2
  Snapshots <- Refreshes
  MaxPasses = 2
  MaxBeat = 1
  MaxFresh = 1
  MaxQuarantinePercent = 30
  MaxBusy = 1
  MaxCrashes = 1
INVARIANTS
  SeenFilesAreReported
  RepeatsNeedALostStamp
  PagesReferToRows
  NoEventCountedTwice
PROPERTIES
  PassReachesTheDetectors
CHECK_DEADLOCK FALSE
