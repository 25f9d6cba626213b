SPECIFICATION FairSpec
CONSTANTS
  f1 = f1
  f2 = f2
  d1 = d1
  Dirs <- TwoDirs
  NModels = 2
  Dimensions = {1}
  ModelOf <- DimensionThenFacts
  Time <- DocumentIsLatest
  Docs = {d1}
  Callers = {}
  Main = main
  NoThread = none
  OneTick = {f2}
  MaxVersion <- WrittenTwice
  MaxFailures = 0
  MaxRestarts = 0
INVARIANT BacklogHasWakeup
PROPERTY EverythingPublished
CHECK_DEADLOCK FALSE
