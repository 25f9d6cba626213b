SPECIFICATION Spec
CONSTANTS
  p1 = p1
  p2 = p2
  r1 = r1
  system = system
  unknown = unknown
  Products <- OneProduct
  Retailers <- OneRetailer
  ProductCases <- AllProducts
  RetailerCases <- AllRetailers
  AnomalyCases <- AllAnomalies
  Rounds = 2
  MaxActions = 2
  MaxSale = 4
  MaxFailures = 1
INVARIANTS
  ConflictsAreSettled
  SuccessfulRunsAreComplete
PROPERTIES
  PricesMoveWithinLimits
CHECK_DEADLOCK FALSE
