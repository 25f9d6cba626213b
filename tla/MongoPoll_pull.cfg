SPECIFICATION FairPollSpec
CONSTANTS
  d1 = d1
  d2 = d2
  d3 = d3
  orders = orders
  prices = prices
  Order <- TwoCollections
  Docs <- ThreeDocs
  CollectionOf <- Homes
  Pollers = {poller}
  Feeders = {watcher}
  Fed = {prices}
  BatchSize = 1
  MaxStamp = 2
  MaxDeaths = 2
INVARIANTS
  MarkTellsWhatIsStored
  PulledOnce
PROPERTIES
  EveryDocumentPulled
CHECK_DEADLOCK FALSE
