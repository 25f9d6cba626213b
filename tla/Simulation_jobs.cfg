CONSTANTS
  None = None
  Draw <- SeedDraws
  Season <- SevenDays
  Categories <- Shelf
  Jobs <- AllJobs
  Warehouses <- AllWarehouses
  MaxRebuilds = 2
  MaxFaults = 1
SPECIFICATION Spec
INVARIANTS
  RunRowsTellTheOutcome
  BaselinesAreTheProjection
  NeutralScenariosChangeNothing
  StockIsAccountedFor
  DiffsAddUp
CHECK_DEADLOCK FALSE
